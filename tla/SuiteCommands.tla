---------------------------- MODULE SuiteCommands ----------------------------
(***************************************************************************)
(* The two commands that go over a whole suite.  scripts/run_all.sh builds *)
(* every reference solution, leaves a result file per task and writes a    *)
(* summary of them; harness.cli run-suite runs every group and writes one  *)
(* run.json for all.  Commands may overlap, be killed, and share the       *)
(* result files, while the checkout is edited.  A command for v0.2         *)
(* moves to a fresh checkout of the release, unless the environment says   *)
(* that it is in one.                                                      *)
(***************************************************************************)
EXTENDS FrozenContract

CONSTANTS
  Proc,
  CaseOf,    \* the case, and so the group, of each task
  EditMax    \* bound: edits of the checkout

VARIABLES
  live,      \* the working checkout
  results,   \* results/tasks, by task
  proc,      \* the commands
  edits

vars == <<live, results, proc, edits>>

Suites == {"all", "v0.2"}

\* A result file: whether there is one, and which commands it is younger than.
NoRow == [made |-> FALSE, new |-> {}]

Idle == [pc |-> "idle"]

Class == {"SOLVED", "GENUINE_FAIL", "INFRA_INVALID"}

NoTargets == [k \in Class |-> 0]

Started(command, suite, pinned) ==
  [pc |-> "begin", command |-> command, suite |-> suite,
   fresh |-> suite = "v0.2" /\ ~pinned,
   listed |-> <<>>, known |-> TRUE, left |-> <<>>, code |-> 0,
   children |-> NoTargets, truth |-> TRUE]

Checkout(p) == IF proc[p].fresh THEN ReleaseCheckout ELSE live

Running == {p \in Proc : proc[p].pc \notin {"idle", "done"}}

Step(p, r) == proc' = [proc EXCEPT ![p] = r]

\* A command that ends before its report.
Abort(code) == [pc |-> "done", code |-> code]

\* What a command leaves with its status.
Report(r, report) ==
  [pc |-> "done", command |-> r.command, code |-> r.code, known |-> r.known,
   listed |-> r.listed, report |-> report]

-----------------------------------------------------------------------------
(* The checkout.                                                           *)

Forged(m) ==
  {[m EXCEPT !.source = "other"], [m EXCEPT !.metadata = "other"],
   [m EXCEPT !.tasks = Reverse(@)], [m EXCEPT !.environment = 3 - @]}

\* A changed file, or a contract file written anew for what the files now are.
Edited(c) ==
  {[c EXCEPT !.files[t] = v] : t \in Task, v \in Files}
    \cup {[c EXCEPT !.references[t] = v] : t \in Frozen, v \in References}
    \cup {[c EXCEPT !.pins = 3 - @], [c EXCEPT !.packages = 3 - @], [c EXCEPT !.helper = ~@],
          [c EXCEPT !.manifest = ManifestOf(c)], [c EXCEPT !.contract = ReferencesOf(c)]}
    \cup {[c EXCEPT !.manifest = m] : m \in Forged(c.manifest)}

Edit ==
  /\ edits < EditMax
  /\ \E c \in Edited(live) \ {live} : live' = c
  /\ edits' = edits + 1
  /\ UNCHANGED <<results, proc>>

-----------------------------------------------------------------------------
(* Start: run_in_v02_environment.py and the preflight.                     *)

\* A result file that exists now is not of this command.
Start(p) ==
  /\ proc[p].pc = "idle"
  /\ \E command \in {"sweep", "harness"}, suite \in Suites, pinned \in BOOLEAN :
       /\ pinned => suite = "v0.2"
       /\ Step(p, Started(command, suite, pinned))
  /\ results' = [t \in Task |-> [results[t] EXCEPT !.new = @ \ {p}]]
  /\ UNCHANGED <<live, edits>>

\* ensure_structural_contract, in the release's checkout when Git can make one.
Preflight(p) ==
  /\ proc[p].pc = "begin"
  /\ \E git \in BOOLEAN :
       LET ok == proc[p].suite = "all" \/ PreflightPasses(Checkout(p), git)
       IN Step(p, IF ok THEN [proc[p] EXCEPT !.pc = "list",
                                             !.truth = proc[p].suite = "all" \/ CheckoutIsReleased(Checkout(p))]
                  ELSE Abort(1))
  /\ UNCHANGED <<live, results, edits>>

-----------------------------------------------------------------------------
(* scripts/run_all.sh with harness/task_runner.py                          *)

\* discover_task_refs of runnable tasks.
ListingWorks(p, git) ==
  IF proc[p].suite = "v0.2" THEN DiscoveredRunnable(Checkout(p), git) ELSE Readable(Checkout(p))

Listing(p) ==
  IF proc[p].suite = "v0.2" THEN Checkout(p).manifest.tasks
  ELSE InOrder({t \in Task : Runs(Checkout(p), t)})

Truth(p) == proc[p].truth /\ (proc[p].suite = "v0.2" => TasksAreReleased(Checkout(p)))

\* mapfile < <(task_runner.py list): a list that fails is an empty list.
ListTasks(p) ==
  /\ proc[p].pc = "list" /\ proc[p].command = "sweep"
  /\ \E git \in BOOLEAN :
       LET ok == ListingWorks(p, git)
           tasks == IF ok THEN Listing(p) ELSE <<>>
       IN Step(p, [proc[p] EXCEPT !.pc = "run", !.known = ok, !.listed = tasks, !.left = tasks,
                                  !.truth = IF ok THEN Truth(p) ELSE @])
  /\ UNCHANGED <<live, results, edits>>

\* A result file of now.  Its status, which the summary only counts, is not kept.
Row == [made |-> TRUE, new |-> Running]

\* What may become of the reference solution of a task whose files load.
Outcomes(c, t) ==
  IF ~Runs(c, t) \/ c.references[t] = 0 THEN {"not_runnable"} ELSE {"passed", "failed"}

StatusMutant(code, status) == status

\* run_task.sh "$task_ref" || overall_status=$?
Status(code, status) == IF status = 0 THEN code ELSE status

\* One task: without a manifest that loads the result file stays as it is.
RunTask(p) ==
  LET r == proc[p]
      t == Head(r.left)
      c == Checkout(p)
      Next(status) == [r EXCEPT !.left = Tail(@), !.code = Status(r.code, status)]
  IN /\ r.pc = "run" /\ r.command = "sweep" /\ r.left # <<>>
     /\ \/ /\ c.files[t] \in {0, Unreadable}
           /\ Step(p, Next(1)) /\ UNCHANGED results
        \/ /\ c.files[t] \notin {0, Unreadable}
           /\ \E status \in Outcomes(c, t) :
                /\ results' = [results EXCEPT ![t] = Row]
                /\ Step(p, Next(IF status = "passed" THEN 0 ELSE 1))
     /\ UNCHANGED <<live, edits>>

\* aggregate_results finds the tasks itself when it is given none.  Its report has
\* the place in the list of every task with a result file.
Aggregate(p) ==
  /\ proc[p].pc = "run" /\ proc[p].command = "sweep" /\ proc[p].left = <<>>
  /\ \E git \in BOOLEAN :
       LET r == proc[p]
           own == r.listed = <<>>
           tasks == IF own THEN Listing(p) ELSE r.listed
           ok == /\ own => ListingWorks(p, git)
                 /\ \A t \in ToSet(tasks) : Checkout(p).files[t] \notin {0, Unreadable}
           found == {i \in DOMAIN tasks : results[tasks[i]].made}
       IN Step(p, IF ok THEN Report(r, [i \in found |-> p \in results[tasks[i]].new])
                  ELSE Abort(1))
  /\ UNCHANGED <<live, results, edits>>

-----------------------------------------------------------------------------
(* harness.cli run-suite with harness/manifests.py                         *)

\* list_groups: the groups with a task that plays, by name.
Grouped(p) ==
  LET c == Checkout(p) IN
    {t \in Task : IF proc[p].suite = "v0.2" THEN t \in ToSet(c.manifest.tasks) ELSE Plays(c, t)}

Groups(p) ==
  LET tasks == InOrder(Grouped(p)) IN
    SelectSeq(tasks, LAMBDA t : \A i \in 1 .. SelectInSeq(tasks, LAMBDA u : u = t) - 1 :
                                  CaseOf[tasks[i]] # CaseOf[t])

TasksOf(p, g) == {t \in Grouped(p) : CaseOf[t] = g}

GroupingWorks(p, git) ==
  IF proc[p].suite = "v0.2" THEN ListPasses(Checkout(p), git) ELSE Readable(Checkout(p))

ListGroups(p) ==
  /\ proc[p].pc = "list" /\ proc[p].command = "harness"
  /\ \E git \in BOOLEAN :
       LET groups == [i \in DOMAIN Groups(p) |-> CaseOf[Groups(p)[i]]]
       IN Step(p, IF GroupingWorks(p, git)
                  THEN [proc[p] EXCEPT !.pc = "run", !.listed = groups, !.left = groups,
                                       !.truth = Truth(p)]
                  ELSE Abort(1))
  /\ UNCHANGED <<live, results, edits>>

\* The exit status of a group's run, from the class of each target and from
\* whether the harness completed.
ChildCode(class, completed) ==
  IF completed /\ \A t \in DOMAIN class : class[t] = "SOLVED" THEN 0 ELSE 1

\* classify_run: final_class_counts of a group's run.
ClassCounts(class) ==
  [k \in Class |-> Cardinality({t \in DOMAIN class : class[t] = k})]

\* The counts, added up over the groups.
Counted(children, class) ==
  [k \in Class |-> children[k] + ClassCounts(class)[k]]

\* run_group loads its group anew; one that is gone, or a list that now fails,
\* ends the whole command.
RunGroup(p) ==
  LET r == proc[p]
      g == Head(r.left)
  IN /\ r.pc = "run" /\ r.command = "harness" /\ r.left # <<>>
     /\ \E git \in BOOLEAN :
          \/ /\ GroupingWorks(p, git) /\ TasksOf(p, g) # {}
             /\ \E class \in [TasksOf(p, g) -> Class], completed \in BOOLEAN :
                  Step(p, [r EXCEPT !.left = Tail(@), !.children = Counted(@, class),
                                    !.code = IF ChildCode(class, completed) = 0 THEN @ ELSE 1,
                                    !.truth = Truth(p)])
          \/ /\ ~(GroupingWorks(p, git) /\ TasksOf(p, g) # {})
             /\ Step(p, Abort(1))
     /\ UNCHANGED <<live, results, edits>>

Targets(n) == n["SOLVED"] + n["GENUINE_FAIL"] + n["INFRA_INVALID"]

RunClassMutant(n) ==
  CASE Targets(n) # 0 /\ n["INFRA_INVALID"] = Targets(n) -> "INFRA_INVALID"
    [] n["SOLVED"] # 0 /\ n["GENUINE_FAIL"] = 0 -> "SOLVED"
    [] n["GENUINE_FAIL"] # 0 /\ n["INFRA_INVALID"] # 0 -> "MIXED_INFRA_INVALID"
    [] OTHER -> "GENUINE_FAIL"

RunClass(n) ==
  CASE Targets(n) # 0 /\ n["INFRA_INVALID"] = Targets(n) -> "INFRA_INVALID"
    [] n["INFRA_INVALID"] \notin {0, Targets(n)} -> "MIXED_INFRA_INVALID"
    [] Targets(n) # 0 /\ n["SOLVED"] = Targets(n) -> "SOLVED"
    [] OTHER -> "GENUINE_FAIL"

\* The suite's run.json.
WriteSuite(p) ==
  LET r == proc[p] IN
    /\ r.pc = "run" /\ r.command = "harness" /\ r.left = <<>>
    /\ Step(p, Report(r, [class |-> RunClass(r.children), counts |-> r.children,
                          reusable |-> Targets(r.children) # 0 /\ r.children["INFRA_INVALID"] = 0]))
    /\ UNCHANGED <<live, results, edits>>

-----------------------------------------------------------------------------

\* The command is killed; its result files stay.
Kill(p) ==
  /\ p \in Running
  /\ Step(p, Abort(137))
  /\ UNCHANGED <<live, results, edits>>

Init ==
  /\ live = ReleaseCheckout
  /\ results = [t \in Task |-> NoRow]
  /\ proc = [p \in Proc |-> Idle]
  /\ edits = 0

AllDone == (\A p \in Proc : proc[p].pc = "done") /\ UNCHANGED vars

Next ==
  \/ Edit \/ AllDone
  \/ \E p \in Proc :
       \/ Start(p) \/ Preflight(p) \/ ListTasks(p) \/ RunTask(p) \/ Aggregate(p)
       \/ ListGroups(p) \/ RunGroup(p) \/ WriteSuite(p) \/ Kill(p)

Spec == Init /\ [][Next]_vars

-----------------------------------------------------------------------------
(* Properties.                                                             *)

Reported(p, command) ==
  proc[p].pc = "done" /\ "report" \in DOMAIN proc[p] /\ proc[p].command = command

\* A sweep that got its list and exits with 0 has a row for every task of the
\* list, and no row is older than the sweep: a task that could not be run, a
\* sweep that was killed, another sweep, never leave a stale result in the
\* summary of a clean exit.
CleanExitIsEarned ==
  \A p \in Proc :
    Reported(p, "sweep") /\ proc[p].code = 0 /\ proc[p].known /\ proc[p].listed # <<>> =>
      /\ DOMAIN proc[p].report = DOMAIN proc[p].listed
      /\ \A i \in DOMAIN proc[p].report : proc[p].report[i]

\* When a v0.2 command passes its preflight, hands out a list or starts a group,
\* the tasks of its checkout are at that moment the release's, and at the preflight
\* its reference proofs, Lean toolchain and Verity too, whatever was edited
\* together with whatever, and whether or not Git has the source commit.  The
\* other files of the environment are not covered, as the preflight does not compare
\* them (runtime_environment_error), nor is an edit after the last of these moments.
FrozenMeansFrozen == \A p \in Running : proc[p].truth

\* The suite's verdict is earned by its groups.  Status 0 of a suite with a group
\* needs a solved, reusable suite; a suite is solved only when it has targets and
\* every one is solved; and it is reusable only when infrastructure spoilt none
\* of them.  Failed targets leave it reusable: they are results.
SuiteVerdictIsEarned ==
  \A p \in Proc :
    Reported(p, "harness") =>
      LET r == proc[p].report IN
        /\ proc[p].code = 0 /\ proc[p].listed # <<>> => r.class = "SOLVED" /\ r.reusable
        /\ r.class = "SOLVED" =>
             /\ r.counts["SOLVED"] # 0
             /\ r.counts["GENUINE_FAIL"] = 0 /\ r.counts["INFRA_INVALID"] = 0
        /\ r.reusable => r.counts["INFRA_INVALID"] = 0
=============================================================================
