---------------------------- MODULE CiValidation ----------------------------
(***************************************************************************)
(* What the check workflow does with a push, a pull request or a manual    *)
(* request: select_ci_cases.py plans which active cases the difference can *)
(* affect, and one self-hosted runner compiles them.  A newer run of the   *)
(* same concurrency group cancels the older one.                           *)
(*                                                                         *)
(* The branches are main and codex, the latter with a pull request to      *)
(* main.  A tree gives each file a version, 0 when the file is not there.  *)
(***************************************************************************)
EXTENDS Naturals, FiniteSets

CONSTANTS
  Case, Module, Family,
  FamilyOf,    \* the family_id of each case
  Target,      \* the lean_target of each case
  Lists,       \* the modules that a version of a case's manifests lists
  Imports,     \* the modules that a version of a module imports
  Plain,       \* other files: "shared", "safe", "other"
  EditMax,     \* bound: edits of files
  RequestMax   \* bound: manual requests

VersionMax == 2

\* A version of case.yaml that does not load.
Unreadable == VersionMax + 1

ASSUME CiAssumption ==
  /\ IsFiniteSet(Module)
  /\ FamilyOf \in [Case -> Family] /\ Target \in [Case -> Module]
  /\ Lists \in [Case -> [1 .. VersionMax -> SUBSET Module]]
  /\ Imports \in [Module -> [1 .. VersionMax -> SUBSET Module]]
  /\ Plain \subseteq {"shared", "safe", "other"}
  /\ EditMax \in Nat /\ RequestMax \in Nat

VARIABLES
  tip,       \* the tree at the tip of each branch
  fork,      \* main's tree that codex last took in
  open,      \* the pull request is open
  runs,      \* the newest workflow run of each concurrency group
  debt,      \* ghost: what became of main's change to a case
  edits, requests

ciVars == <<tip, fork, open, runs, debt, edits, requests>>

Branch == {"main", "codex"}

File == [kind : {"case"}, name : Case] \cup [kind : {"lean"}, name : Module]
          \cup [kind : {"family"}, name : Family] \cup [kind : Plain, name : {"-"}]

Manifest(c) == [kind |-> "case", name |-> c]

Lean(m) == [kind |-> "lean", name |-> m]

Versions(f) == CASE f.kind = "case" -> 0 .. Unreadable
                 [] f.kind \in Plain -> 1 .. VersionMax
                 [] OTHER -> 0 .. VersionMax

-----------------------------------------------------------------------------
(* What a case is compiled from.                                           *)

Active(t) == {c \in Case : t[Manifest(c)] # 0}

Readable(t) == \A c \in Active(t) : t[Manifest(c)] # Unreadable

\* source_paths of a case, its Lean files.
Listed(t, c) == Lists[c][t[Manifest(c)]]

ImportedBy(t, m) == IF t[Lean(m)] = 0 THEN {} ELSE Imports[m][t[Lean(m)]]

Closure(t, c) ==
  LET reach[n \in 0 .. Cardinality(Module)] ==
        IF n = 0 THEN {Target[c]}
        ELSE LET near == reach[n - 1] IN near \cup UNION {ImportedBy(t, m) : m \in near}
  IN reach[Cardinality(Module)]

Inputs(t, c) ==
  {<<f, t[f]>> : f \in {Lean(m) : m \in Closure(t, c)} \cup {g \in File : g.kind = "shared"}}

\* The cases of head that may compile differently than they did in base.
Affected(base, head) ==
  {c \in Active(head) : c \notin Active(base) \/ Inputs(base, c) # Inputs(head, c)}

Buildable(t, c) == c \in Active(t) /\ \A m \in Closure(t, c) : t[Lean(m)] # 0

-----------------------------------------------------------------------------
(* scripts/select_ci_cases.py                                              *)

\* git_changes: a rename is the removal of one path and the addition of
\* another; of a copy the old path counts as removed too.
Changes(base, head, copied) ==
  LET changed == {f \in File : base[f] # head[f]} IN
    {[status |-> IF head[f] = 0 THEN "D" ELSE IF base[f] = 0 THEN "A" ELSE "M",
      file |-> f] : f \in changed}
      \cup {[status |-> "D", file |-> f] : f \in copied}

\* A copy is found only of a file that the same difference modifies.
Copyable(base, head) ==
  {f \in File : base[f] # head[f] /\ base[f] # 0 /\ head[f] # 0
                  /\ \E g \in File : g.kind = f.kind /\ base[g] = 0 /\ head[g] # 0}

Users(head, m) == {c \in Active(head) : m \in Listed(head, c)}

\* The changes that select_changes cannot attribute to cases.
NeedsFull(head, change) ==
  \/ change.status = "D" /\ change.file.kind \in {"case", "lean", "family"}
  \/ change.file.kind \in {"shared", "other"}
  \/ change.file.kind = "lean" /\ Users(head, change.file.name) = {}

SelectsMutant(head, change) ==
  IF change.status = "D" THEN {}
  ELSE CASE change.file.kind = "case" -> {change.file.name}
         [] change.file.kind = "family" -> {c \in Active(head) : FamilyOf[c] = change.file.name}
         [] change.file.kind = "lean" -> {c \in Active(head) : Target[c] = change.file.name}
         [] OTHER -> {}

Selects(head, change) ==
  IF change.status = "D" THEN {}
  ELSE CASE change.file.kind = "case" -> {change.file.name}
         [] change.file.kind = "family" -> {c \in Active(head) : FamilyOf[c] = change.file.name}
         [] change.file.kind = "lean" -> Users(head, change.file.name)
         [] OTHER -> {}

\* The affected cases whose changed files are all modules that the case imports
\* and other cases alone list: such a change selects the others and is not
\* unmapped, so nothing asks for the full validation.
Overlooked(base, head) ==
  {c \in Affected(base, head) \cap Active(base) :
     /\ Readable(head)
     /\ LET changed == {f \in File : base[f] # head[f] /\ <<f, head[f]>> \in Inputs(head, c)}
        IN /\ changed # {}
           /\ \A f \in changed : /\ f.kind = "lean" /\ f.name \notin Listed(head, c)
                                 /\ Users(head, f.name) # {}}

\* The affected cases that the routing can see.
Visible(base, head) == Affected(base, head) \ Overlooked(base, head)

Full == [cases |-> {}, full |-> TRUE]

\* select_changes; without a base that the clone has, --force-full or the
\* failing diff ask for everything.
Selection(known, base, head, copied) ==
  LET changes == Changes(base, head, copied) IN
    IF ~known \/ ~Readable(head) THEN Full
    ELSE [cases |-> UNION {Selects(head, ch) : ch \in changes},
          full |-> \E ch \in changes : NeedsFull(head, ch)]

-----------------------------------------------------------------------------
(* .github/workflows/check.yml                                             *)

\* github.head_ref || github.ref
Group(event, b) == [ref |-> event # "pull_request", name |-> b]

Groups == {Group("push", "main"), Group("push", "codex"), Group("pull_request", "codex")}

NoRun == [stage |-> "none"]

Over(end) == [stage |-> end]

Run(event, known, base, head) ==
  [event |-> event, known |-> known, base |-> base, head |-> head, stage |-> "plan",
   full |-> FALSE, todo |-> {}, compiled |-> {}]

Live(g) == runs[g].stage \in {"plan", "queued", "compile"}

\* The change to a case that a main run gave up.
Lost(d) == [c \in Case |-> IF d[c] = "live" THEN "lost" ELSE d[c]]

\* A new change to a case, if the routing can see it.
Owing(d, base, head) ==
  LET changed == Visible(base, head)
  IN [c \in Case |-> IF c \in changed THEN "live" ELSE d[c]]

BaseMutant(before, after) == after

\* github.event.before
Base(before, after) == before

\* Both events of one push; cancel-in-progress stops the group's older run.
Started(b, known, after) ==
  LET base == Base(tip[b], after) IN
    [runs EXCEPT ![Group("push", b)] = Run("push", known, base, after)]

\* The tree of the pull request's merge commit.
Merged(branch) == [f \in File |-> IF branch[f] # fork[f] THEN branch[f] ELSE tip["main"][f]]

PullRequest(branch) == Run("pull_request", TRUE, tip["main"], Merged(branch))

\* Trees that differ from t in one file, or in two when two edits are left.
Edited(t) ==
  LET Once(s) == UNION {{[s EXCEPT ![f] = v] : v \in Versions(f) \ {s[f]}} : f \in File}
  IN CASE edits = EditMax -> {}
       [] edits = EditMax - 1 -> Once(t)
       [] OTHER -> (Once(t) \cup UNION {Once(s) : s \in Once(t)}) \ {t}

Distance(s, t) == Cardinality({f \in File : s[f] # t[f]})

PushMain ==
  \E t \in Edited(tip["main"]) :
    /\ edits' = edits + Distance(tip["main"], t)
    /\ tip' = [tip EXCEPT !["main"] = t]
    /\ runs' = Started("main", TRUE, t)
    /\ debt' = Owing(Lost(debt), tip["main"], t)
    /\ UNCHANGED <<fork, open, requests>>

\* A push to codex; a rewritten branch leaves no commit to compare with.
PushCodex ==
  \E t \in Edited(tip["codex"]), known \in BOOLEAN :
    /\ edits' = edits + Distance(tip["codex"], t)
    /\ tip' = [tip EXCEPT !["codex"] = t]
    /\ runs' = IF open
               THEN [Started("codex", known, t) EXCEPT ![Group("pull_request", "codex")] = PullRequest(t)]
               ELSE Started("codex", known, t)
    /\ UNCHANGED <<fork, open, debt, requests>>

OpenPullRequest ==
  /\ ~open /\ tip["codex"] # fork
  /\ open' = TRUE
  /\ runs' = [runs EXCEPT ![Group("pull_request", "codex")] = PullRequest(tip["codex"])]
  /\ UNCHANGED <<tip, fork, debt, edits, requests>>

\* The pull request is merged, whatever its runs say, and codex starts anew.
Merge ==
  LET t == Merged(tip["codex"]) IN
    /\ open
    /\ tip' = [b \in Branch |-> t]
    /\ fork' = t
    /\ open' = FALSE
    /\ runs' = Started("main", TRUE, t)
    /\ debt' = Owing(Lost(debt), tip["main"], t)
    /\ UNCHANGED <<edits, requests>>

\* workflow_dispatch or repository_dispatch, which run on main.
Request ==
  /\ requests < RequestMax
  /\ requests' = requests + 1
  /\ runs' = [runs EXCEPT ![Group("dispatch", "main")] = Run("dispatch", FALSE, tip["main"], tip["main"])]
  /\ debt' = Lost(debt)
  /\ UNCHANGED <<tip, fork, open, edits>>

\* Flagged for the nightly validation.
Flagged(g, full) ==
  IF g.name = "main" /\ full
  THEN [c \in Case |-> IF debt[c] = "live" THEN "flagged" ELSE debt[c]]
  ELSE debt

Plan(g) ==
  /\ runs[g].stage = "plan"
  /\ \E copied \in SUBSET Copyable(runs[g].base, runs[g].head) :
       LET r == runs[g]
           s == Selection(r.known, r.base, r.head, copied)
       IN /\ runs' = [runs EXCEPT ![g].stage = "queued", ![g].full = s.full, ![g].todo = s.cases]
          /\ debt' = Flagged(g, s.full)
  /\ UNCHANGED <<tip, fork, open, edits, requests>>

Idle(g) == runs[g].todo = {} /\ runs[g].event # "dispatch"

\* The compile job is skipped when no case is selected.
Skip(g) ==
  /\ runs[g].stage = "queued" /\ Idle(g)
  /\ runs' = [runs EXCEPT ![g] = Over("passed")]
  /\ UNCHANGED <<tip, fork, open, debt, edits, requests>>

\* There is one self-hosted runner.
TakeRunner(g) ==
  /\ runs[g].stage = "queued" /\ ~Idle(g)
  /\ \A k \in Groups : runs[k].stage # "compile"
  /\ runs' = [runs EXCEPT ![g].stage = "compile"]
  /\ UNCHANGED <<tip, fork, open, debt, edits, requests>>

Compiled(r, c) ==
  IF r.todo = {c} THEN Over("passed")
  ELSE [r EXCEPT !.todo = @ \ {c}, !.compiled = @ \cup {c}]

Paid(g, c) == IF g.name = "main" /\ debt[c] # "none" THEN [debt EXCEPT ![c] = "none"] ELSE debt

\* The selected cases are compiled in one order, that of their names.
NextCase(todo) == CHOOSE c \in todo : TRUE

\* run_case.sh of the next selected case; the first that fails ends the job.
Compile(g) ==
  /\ runs[g].stage = "compile" /\ runs[g].todo # {}
  /\ LET c == NextCase(runs[g].todo) IN
       \/ /\ Buildable(runs[g].head, c)
          /\ runs' = [runs EXCEPT ![g] = Compiled(@, c)]
          /\ debt' = Paid(g, c)
       \/ /\ runs' = [runs EXCEPT ![g] = Over("failed")]
          /\ debt' = IF g.name = "main" THEN Lost(debt) ELSE debt
  /\ UNCHANGED <<tip, fork, open, edits, requests>>

\* The full-check job of a manual request.
FullCheck(g) ==
  /\ runs[g].stage = "compile" /\ runs[g].event = "dispatch"
  /\ \E end \in {"passed", "failed"} : runs' = [runs EXCEPT ![g] = Over(end)]
  /\ UNCHANGED <<tip, fork, open, debt, edits, requests>>

CiInit ==
  LET t == [f \in File |-> 1] IN
    /\ tip = [b \in Branch |-> t] /\ fork = t /\ open = FALSE
    /\ runs = [g \in Groups |-> NoRun]
    /\ debt = [c \in Case |-> "none"]
    /\ edits = 0 /\ requests = 0

Quiet == (\A g \in Groups : ~Live(g)) /\ UNCHANGED ciVars

CiNext ==
  \/ PushMain \/ PushCodex \/ OpenPullRequest \/ Merge \/ Request \/ Quiet
  \/ \E g \in Groups : Plan(g) \/ Skip(g) \/ TakeRunner(g) \/ FullCheck(g) \/ Compile(g)

CiSpec == CiInit /\ [][CiNext]_ciVars

-----------------------------------------------------------------------------
(* Properties.                                                             *)

CiTypeOK ==
  /\ tip \in [Branch -> [File -> 0 .. Unreadable]]
  /\ open \in BOOLEAN
  /\ debt \in [Case -> {"none", "live", "flagged", "lost"}]
  /\ \A g \in Groups : runs[g].stage \in {"none", "plan", "queued", "compile", "passed", "failed"}

\* A run compiles each case that its difference can affect before it passes, or
\* it asked for the full validation, whichever way a file was changed, moved,
\* copied or removed; with one exception, the cases of Overlooked.
AffectedAreAnswered ==
  \A g \in Groups :
    runs[g].stage \in {"queued", "compile"} =>
      LET r == runs[g] IN
        r.full \/ Visible(r.base, r.head) \subseteq r.todo \cup r.compiled

\* A change of main to what a case compiles from, one that the routing does not
\* overlook, is with main's live run, was compiled, was flagged, or went down
\* with a run that failed or was cancelled: the ranges of successive runs leave no
\* commit between them.
MainIsCovered ==
  \A c \in Case :
    debt[c] = "live" =>
      /\ Live(Group("push", "main"))
      /\ LET r == runs[Group("push", "main")] IN r.stage = "plan" \/ c \in r.todo

\* check.yml: a pull request shares a group with the push that created it, so
\* only the newer run of one commit of codex goes on.
OneRunPerCommit ==
  ~(Live(Group("push", "codex")) /\ Live(Group("pull_request", "codex")))

=============================================================================
