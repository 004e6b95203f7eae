-------------------------- MODULE SuiteCommands_proofs --------------------------
(***************************************************************************)
(* Proofs about SuiteCommands for any tasks, commands and edits: a command *)
(* for v0.2 that goes on does so in the release, the class of a suite      *)
(* is earned by its targets, and a sweep that exits with 0 has a fresh     *)
(* result file for every task of its list.                                 *)
(***************************************************************************)
EXTENDS SuiteCommands, FiniteSetTheorems, SequenceTheorems, NaturalsInduction,
        WellFoundedInduction, TLAPS

\* The tasks of the release are its entries, unchanged.
LEMMA BaselineFacts ==
  /\ DOMAIN BaselineEntry = Frozen
  /\ \A t \in Frozen : BaselineEntry[t] = 1 /\ Baseline.references[t] = 1
  <1> DEFINE c == [files |-> [t \in Task |-> IF t \in Frozen THEN 1 ELSE 0],
                   references |-> [t \in Task |-> 1], pins |-> 1, packages |-> 1, helper |-> TRUE,
                   contract |-> 0, manifest |-> 0]
             d == [c EXCEPT !.manifest = ManifestOf(c)]
  <1>1. /\ d.files = c.files /\ d.references = c.references
    BY Zenon
  <1>2. Baseline = [d EXCEPT !.contract = ReferencesOf(d)]
    BY DEF Baseline, ReleaseCheckout
  <1>3. /\ Baseline.files = c.files /\ Baseline.references = c.references
    <2> HIDE DEF c, d
    <2> QED
    BY <1>1, <1>2
  <1> QED
    BY <1>3, ReleaseAssumption DEF BaselineEntry, Entry, Plays

\* A list is handed out only where the tasks are the release's
\* (load_v02_task_refs).
LEMMA ListMeansReleased ==
  ASSUME NEW c, NEW git, ListPasses(c, git)
  PROVE  TasksAreReleased(c)
  <1>1. /\ ToSet(c.manifest.tasks) = DOMAIN BaselineEntry
        /\ \A t \in Frozen : Entry(c)[t] = BaselineEntry[t]
        /\ ToSet(c.manifest.tasks) \subseteq DOMAIN Entry(c)
    BY DEF ListPasses, Pinned
  <1>2. ASSUME NEW t \in Frozen PROVE c.files[t] = 1
    <2>1. t \in DOMAIN Entry(c)
      BY <1>1, BaselineFacts
    <2>2. Entry(c)[t] = c.files[t]
      BY <2>1 DEF Entry
    <2> QED
      BY <1>1, <2>2, BaselineFacts
  <1> QED
    BY <1>2 DEF TasksAreReleased

\* The preflight passes only in the release (ensure_structural_contract).
LEMMA PreflightMeansReleased ==
  ASSUME NEW c, NEW git, PreflightPasses(c, git)
  PROVE  CheckoutIsReleased(c)
  <1>1. ListPasses(c, git) /\ ReferencesHold(c) /\ c.pins = 1
    BY DEF PreflightPasses, Discovered, RuntimeIsReleased
  <1>2. ToSet(c.manifest.tasks) = Frozen
    BY <1>1, BaselineFacts DEF ListPasses, Pinned
  <1>3. \A t \in Frozen : c.references[t] = 1
    BY <1>1, <1>2, BaselineFacts DEF ReferencesHold
  <1> QED
    BY <1>1, <1>3, ListMeansReleased DEF CheckoutIsReleased

\* Induction over the naturals, for a set: it follows from the well-foundedness of
\* their order.
LEMMA SetInduction ==
  ASSUME NEW T, 0 \in T, \A n \in Nat : n \in T => n + 1 \in T
  PROVE  Nat \subseteq T
  <1> DEFINE U == Nat \ T
             R == OpToRel(<, Nat)
  <1> SUFFICES ASSUME U # {} PROVE FALSE
    OBVIOUS
  <1>1. IsWellFoundedOn(R, Nat)
    BY NatLessThanWellFounded, Zenon
  <1>2. PICK x \in U : \A y \in U : ~ (<<y, x>> \in R)
    <2> HIDE DEF R
    <2> QED
      BY <1>1, WFMin, Zenon
  <1>3. x \in Nat /\ x # 0 /\ x - 1 \in Nat /\ x - 1 < x /\ (x - 1) + 1 = x
    OBVIOUS
  <1>4. <<x - 1, x>> \in R
    BY <1>3 DEF OpToRel
  <1>5. x - 1 \in T
    BY <1>2, <1>3, <1>4
  <1> QED
    BY <1>3, <1>5

\* Tasks put in order are a sequence of tasks (ordered_tasks), by induction over
\* the places of the order.
LEMMA InOrderType == ASSUME NEW S PROVE InOrder(S) \in Seq(Task)
  <1> DEFINE N == Len(Order)
             Body(h, n) == IF n = 0 THEN <<>>
                           ELSE IF Order[n] \in S THEN Append(h[n - 1], Order[n]) ELSE h[n - 1]
             IsUpto(h, k) == h = [n \in 0 .. k |-> Body(h, n)]
             upto == CHOOSE h : IsUpto(h, N)
             Built == {k \in Nat : \E h : IsUpto(h, k)}
  <1>1. N \in Nat /\ Order \in [1 .. N -> Task]
    BY ReleaseAssumption, LenProperties
  <1>2. 0 \in Built
    <2>1. IsUpto([n \in 0 .. 0 |-> <<>>], 0)
      OBVIOUS
    <2> QED
      BY <2>1
  <1>3. ASSUME NEW k \in Nat, k \in Built PROVE k + 1 \in Built
    <2>1. PICK h : IsUpto(h, k)
      BY <1>3
    <2> DEFINE g == [n \in 0 .. k + 1 |-> IF n = k + 1 THEN Body(h, k + 1) ELSE h[n]]
    <2>2. ASSUME NEW n \in 0 .. k + 1 PROVE g[n] = Body(g, n)
      <3>1. CASE n = k + 1
        BY <3>1
      <3>2. CASE n # k + 1
        <4>1. n \in 0 .. k /\ (n # 0 => n - 1 \in 0 .. k /\ n - 1 # k + 1)
          BY <3>2
        <4>2. h[n] = Body(h, n)
          BY <2>1, <4>1
        <4>3. g[n] = h[n] /\ (n # 0 => g[n - 1] = h[n - 1])
          BY <3>2, <4>1
        <4> QED
          BY <4>2, <4>3
      <3> QED
        BY <3>1, <3>2
    <2>3. IsUpto(g, k + 1)
      <3> DEFINE e == [n \in 0 .. k + 1 |-> Body(g, n)]
      <3>1. g = e
        BY <2>2
      <3> QED
        BY <3>1
    <2> HIDE DEF IsUpto, g
    <2> QED
      BY <2>3
  <1>4. IsUpto(upto, N)
    <2> HIDE DEF IsUpto, N
    <2>1. \E h : IsUpto(h, N)
      <3> HIDE DEF Built
      <3>1. N \in Built
        BY <1>1, <1>2, <1>3, SetInduction
      <3> QED
        BY <3>1 DEF Built
    <2> QED
      BY <2>1
  <1> DEFINE Typed == {k \in Nat : k \in 0 .. N => upto[k] \in Seq(Task)}
  <1> HIDE DEF upto
  <1>5. \A n \in 0 .. N : upto[n] = Body(upto, n)
    <2> HIDE DEF Body
    <2> QED
      BY <1>4
  <1>6. 0 \in Typed
    <2>1. upto[0] = Body(upto, 0)
      <3> HIDE DEF Body
      <3> QED
        BY <1>1, <1>5
    <2> QED
      BY <2>1, EmptySeq
  <1>7. ASSUME NEW k \in Nat, k \in Typed PROVE k + 1 \in Typed
    <2> SUFFICES ASSUME k + 1 \in 0 .. N PROVE upto[k + 1] \in Seq(Task)
      OBVIOUS
    <2>1. k \in 0 .. N /\ upto[k] \in Seq(Task) /\ Order[k + 1] \in Task
      BY <1>1, <1>7
    <2>2. upto[k + 1] = Body(upto, k + 1) /\ k + 1 # 0 /\ (k + 1) - 1 = k
      <3> HIDE DEF Body
      <3> QED
        BY <1>5
    <2>3. upto[k + 1] = IF Order[k + 1] \in S THEN Append(upto[k], Order[k + 1]) ELSE upto[k]
      BY <2>2
    <2> QED
      BY <2>1, <2>3, AppendProperties
  <1>8. upto[N] \in Seq(Task)
    <2>1. N \in Typed
      <3> HIDE DEF Typed
      <3> QED
        BY <1>1, <1>6, <1>7, SetInduction
    <2> QED
      BY <1>1, <2>1
  <1> QED
    BY <1>8, Zenon DEF InOrder, upto

-----------------------------------------------------------------------------
(* The inductive invariant: it says of each command alone what it knows.   *)

\* A command by its fields.
Command(pc, command, suite, fresh, listed, known, left, code, children, truth) ==
  [pc |-> pc, command |-> command, suite |-> suite, fresh |-> fresh, listed |-> listed,
   known |-> known, left |-> left, code |-> code, children |-> children, truth |-> truth]

IsCommand(r) ==
  r = Command(r.pc, r.command, r.suite, r.fresh, r.listed, r.known, r.left, r.code,
              r.children, r.truth)

\* While the exit status is 0 every target that counts is solved, and there is
\* one as soon as a group was run.
Clean(r) ==
  r.code = 0 =>
    /\ r.children["GENUINE_FAIL"] = 0 /\ r.children["INFRA_INVALID"] = 0
    /\ r.left # r.listed => r.children["SOLVED"] # 0

Underway(r) ==
  IsCommand(r) /\ r.truth /\ r.children \in [Class -> Nat] /\ (r.command = "harness" => Clean(r))

Earned(r) ==
  "report" \in DOMAIN r /\ r.command = "harness" =>
    /\ r.code = 0 /\ r.listed # <<>> => r.report.class = "SOLVED" /\ r.report.reusable
    /\ r.report.class = "SOLVED" =>
         /\ r.report.counts["SOLVED"] # 0
         /\ r.report.counts["GENUINE_FAIL"] = 0 /\ r.report.counts["INFRA_INVALID"] = 0
    /\ r.report.reusable => r.report.counts["INFRA_INVALID"] = 0

CommandInv(r) ==
  /\ r.pc \notin {"idle", "done"} => Underway(r)
  /\ r.pc = "done" => Earned(r)

IInv == proc = [p \in Proc |-> proc[p]] /\ \A p \in Proc : CommandInv(proc[p])

\* A command that is not idle is underway until it is done.
LEMMA RunningFacts ==
  ASSUME IInv, NEW p \in Proc, proc[p].pc \notin {"idle", "done"} PROVE Underway(proc[p])
  BY DEF IInv, CommandInv

\* A step of one command leaves the others as they are.
LEMMA StepFacts ==
  ASSUME IInv, NEW p \in Proc, NEW r, Step(p, r), CommandInv(r) PROVE IInv'
  BY DEF IInv, Step

\* An aborted command reports nothing.
LEMMA AbortFacts == ASSUME NEW code PROVE CommandInv(Abort(code))
  BY DEF Abort, CommandInv, Earned

\* A command begins without targets.
LEMMA StartFacts ==
  ASSUME NEW command, NEW suite, NEW pinned PROVE CommandInv(Started(command, suite, pinned))
  <1> DEFINE r == Started(command, suite, pinned)
  <1>1. IsCommand(r) /\ r.truth /\ r.left = r.listed /\ r.children = NoTargets /\ r.pc = "begin"
    BY DEF Started, IsCommand, Command
  <1>2. NoTargets \in [Class -> Nat] /\ \A k \in Class : NoTargets[k] = 0
    BY DEF NoTargets
  <1> QED
    BY <1>1, <1>2 DEF CommandInv, Underway, Clean, Class

\* The groups of one command are counted together.
LEMMA CountFacts ==
  ASSUME NEW children \in [Class -> Nat], NEW S, S \subseteq Task, NEW class \in [S -> Class]
  PROVE  /\ Counted(children, class) \in [Class -> Nat]
         /\ (\A t \in S : class[t] = "SOLVED") =>
              /\ \A k \in {"GENUINE_FAIL", "INFRA_INVALID"} :
                   Counted(children, class)[k] = children[k]
              /\ S # {} => Counted(children, class)["SOLVED"] # 0
  <1> DEFINE Of(k) == {t \in DOMAIN class : class[t] = k}
  <1>1. IsFiniteSet(S)
    BY FS_Subset, ReleaseAssumption
  <1>2. ASSUME NEW k \in Class PROVE IsFiniteSet(Of(k)) /\ Cardinality(Of(k)) \in Nat
    <2>1. Of(k) \subseteq S
      OBVIOUS
    <2> QED
      BY <1>1, <2>1, FS_Subset, FS_CardinalityType
  <1>3. Counted(children, class) = [k \in Class |-> children[k] + Cardinality(Of(k))]
    BY DEF Counted, ClassCounts
  <1>4. Counted(children, class) \in [Class -> Nat]
    <2> HIDE DEF Of
    <2> QED
      BY <1>2, <1>3
  <1>5. ASSUME \A t \in S : class[t] = "SOLVED"
        PROVE  /\ \A k \in {"GENUINE_FAIL", "INFRA_INVALID"} :
                    Counted(children, class)[k] = children[k]
               /\ S # {} => Counted(children, class)["SOLVED"] # 0
    <2>1. Of("GENUINE_FAIL") = {} /\ Of("INFRA_INVALID") = {} /\ Of("SOLVED") = S
      BY <1>5
    <2>2. Cardinality({}) = 0
      BY FS_EmptySet
    <2>3. S # {} => Cardinality(S) # 0
      BY <1>1, FS_EmptySet
    <2>4. {"GENUINE_FAIL", "INFRA_INVALID", "SOLVED"} = Class
      BY DEF Class
    <2> HIDE DEF Of
    <2>5. Cardinality(Of("SOLVED")) \in Nat /\ children["SOLVED"] \in Nat
      BY <1>2, <2>4
    <2>6. /\ Counted(children, class)["SOLVED"] = children["SOLVED"] + Cardinality(Of("SOLVED"))
          /\ \A k \in {"GENUINE_FAIL", "INFRA_INVALID"} :
               Counted(children, class)[k] = children[k] + Cardinality(Of(k))
      BY <1>3, <2>4
    <2>7. \A k \in {"GENUINE_FAIL", "INFRA_INVALID"} : children[k] \in Nat /\ Of(k) = {}
      BY <2>1, <2>4
    <2> QED
      BY <2>1, <2>2, <2>3, <2>5, <2>6, <2>7
  <1> QED
    BY <1>4, <1>5

\* The suite's class is that of its targets (run_suite).
LEMMA ClassFacts ==
  ASSUME NEW n \in [Class -> Nat]
  PROVE  /\ RunClass(n) = "SOLVED" =>
              n["SOLVED"] # 0 /\ n["GENUINE_FAIL"] = 0 /\ n["INFRA_INVALID"] = 0 /\ Targets(n) # 0
         /\ n["SOLVED"] # 0 /\ n["GENUINE_FAIL"] = 0 /\ n["INFRA_INVALID"] = 0 =>
              RunClass(n) = "SOLVED" /\ Targets(n) # 0
  <1> DEFINE s == n["SOLVED"]
             g == n["GENUINE_FAIL"]
             i == n["INFRA_INVALID"]
             all == Targets(n)
  <1>1. s \in Nat /\ g \in Nat /\ i \in Nat /\ all = s + g + i
    BY DEF Class, Targets
  <1>2. RunClass(n) = CASE all # 0 /\ i = all -> "INFRA_INVALID"
                        [] i \notin {0, all} -> "MIXED_INFRA_INVALID"
                        [] all # 0 /\ s = all -> "SOLVED"
                        [] OTHER -> "GENUINE_FAIL"
    BY Zenon DEF RunClass
  <1> HIDE DEF s, g, i, all
  <1>3. CASE all # 0 /\ i = all
    <2>1. RunClass(n) = "INFRA_INVALID"
      BY <1>1, <1>2, <1>3
    <2> QED
      BY <1>1, <1>3, <2>1 DEF s, g, i, all
  <1>4. CASE all = 0 \/ i # all
    <2>1. CASE i # 0
      <3>1. RunClass(n) = "MIXED_INFRA_INVALID"
        BY <1>1, <1>2, <1>4, <2>1
      <3> QED
        BY <1>1, <2>1, <3>1 DEF s, g, i, all
    <2>2. CASE i = 0 /\ all # 0 /\ s = all
      <3>1. RunClass(n) = "SOLVED"
        BY <1>1, <1>2, <2>2
      <3>2. g = 0
        BY <1>1, <2>2
      <3> QED
        BY <2>2, <3>1, <3>2 DEF s, g, i, all
    <2>3. CASE i = 0 /\ (all = 0 \/ s # all)
      <3>1. RunClass(n) = "GENUINE_FAIL"
        BY <1>1, <1>2, <2>3
      <3>2. ~(s # 0 /\ g = 0)
        BY <1>1, <2>3
      <3> QED
        BY <3>1, <3>2 DEF s, g, i, all
    <2> QED
      BY <2>1, <2>2, <2>3
  <1> QED
    BY <1>3, <1>4

-----------------------------------------------------------------------------
(* The steps.                                                              *)

\* The preflight passed in the release.
LEMMA AfterPreflight ==
  ASSUME NEW r, Underway(r), NEW ok
  PROVE  ok = TRUE => CommandInv([r EXCEPT !.pc = "list", !.truth = ok])
  <1> DEFINE s1 == [r EXCEPT !.pc = "list"]
             s2 == [s1 EXCEPT !.truth = ok]
  <1>1. [r EXCEPT !.pc = "list", !.truth = ok] = s2
    OBVIOUS
  <1>2. PICK a, b, c, d, e, f, g, h, i, j : r = Command(a, b, c, d, e, f, g, h, i, j)
    BY DEF Underway, IsCommand
  <1>3. s1 = Command("list", b, c, d, e, f, g, h, i, j)
    BY <1>2 DEF Command
  <1> HIDE DEF s1
  <1>4. s2 = Command("list", b, c, d, e, f, g, h, i, ok)
    BY <1>3 DEF Command
  <1> HIDE DEF s2
  <1>5. ok = TRUE => CommandInv(s2)
    BY <1>2, <1>4 DEF CommandInv, Underway, IsCommand, Clean, Command
  <1> QED
    BY <1>1, <1>5

\* A list of tasks was made, and nothing of it has run.
LEMMA AfterSweepList ==
  ASSUME NEW r, Underway(r), r.command = "sweep", NEW known, NEW tasks, NEW ok
  PROVE  ok = TRUE => CommandInv([r EXCEPT !.pc = "run", !.known = known, !.listed = tasks, !.left = tasks,
                              !.truth = ok])
  <1> DEFINE s1 == [r EXCEPT !.pc = "run"]
             s2 == [s1 EXCEPT !.known = known]
             s3 == [s2 EXCEPT !.listed = tasks]
             s4 == [s3 EXCEPT !.left = tasks]
             s5 == [s4 EXCEPT !.truth = ok]
  <1>1. [r EXCEPT !.pc = "run", !.known = known, !.listed = tasks, !.left = tasks, !.truth = ok] = s5
    OBVIOUS
  <1>2. PICK a, b, c, d, e, f, g, h, i, j : r = Command(a, b, c, d, e, f, g, h, i, j)
    BY DEF Underway, IsCommand
  <1>3. s1 = Command("run", b, c, d, e, f, g, h, i, j)
    BY <1>2 DEF Command
  <1> HIDE DEF s1
  <1>4. s2 = Command("run", b, c, d, e, known, g, h, i, j)
    BY <1>3 DEF Command
  <1> HIDE DEF s2
  <1>5. s3 = Command("run", b, c, d, tasks, known, g, h, i, j)
    BY <1>4 DEF Command
  <1> HIDE DEF s3
  <1>6. s4 = Command("run", b, c, d, tasks, known, tasks, h, i, j)
    BY <1>5 DEF Command
  <1> HIDE DEF s4
  <1>7. s5 = Command("run", b, c, d, tasks, known, tasks, h, i, ok)
    BY <1>6 DEF Command
  <1> HIDE DEF s5
  <1>8. ok = TRUE => CommandInv(s5)
    BY <1>2, <1>7 DEF CommandInv, Underway, IsCommand, Clean, Command
  <1> QED
    BY <1>1, <1>8

\* A list of groups was made, and nothing of it has run.
LEMMA AfterGroupList ==
  ASSUME NEW r, Underway(r), NEW groups, NEW ok
  PROVE  ok = TRUE => CommandInv([r EXCEPT !.pc = "run", !.listed = groups, !.left = groups, !.truth = ok])
  <1> DEFINE s1 == [r EXCEPT !.pc = "run"]
             s2 == [s1 EXCEPT !.listed = groups]
             s3 == [s2 EXCEPT !.left = groups]
             s4 == [s3 EXCEPT !.truth = ok]
  <1>1. [r EXCEPT !.pc = "run", !.listed = groups, !.left = groups, !.truth = ok] = s4
    OBVIOUS
  <1>2. PICK a, b, c, d, e, f, g, h, i, j : r = Command(a, b, c, d, e, f, g, h, i, j)
    BY DEF Underway, IsCommand
  <1>3. s1 = Command("run", b, c, d, e, f, g, h, i, j)
    BY <1>2 DEF Command
  <1> HIDE DEF s1
  <1>4. s2 = Command("run", b, c, d, groups, f, g, h, i, j)
    BY <1>3 DEF Command
  <1> HIDE DEF s2
  <1>5. s3 = Command("run", b, c, d, groups, f, groups, h, i, j)
    BY <1>4 DEF Command
  <1> HIDE DEF s3
  <1>6. s4 = Command("run", b, c, d, groups, f, groups, h, i, ok)
    BY <1>5 DEF Command
  <1> HIDE DEF s4
  <1>7. ok = TRUE => CommandInv(s4)
    BY <1>2, <1>6 DEF CommandInv, Underway, IsCommand, Clean, Command
  <1> QED
    BY <1>1, <1>7

\* A task was run, or could not be.
LEMMA AfterTask ==
  ASSUME NEW r, Underway(r), r.command = "sweep", r.pc = "run", NEW left, NEW code
  PROVE  CommandInv([r EXCEPT !.left = left, !.code = code])
  <1> DEFINE s1 == [r EXCEPT !.left = left]
             s2 == [s1 EXCEPT !.code = code]
  <1>1. [r EXCEPT !.left = left, !.code = code] = s2
    OBVIOUS
  <1>2. PICK a, b, c, d, e, f, g, h, i, j : r = Command(a, b, c, d, e, f, g, h, i, j)
    BY ZenonT(40) DEF Underway, IsCommand
  <1>3. s1 = Command(a, b, c, d, e, f, left, h, i, j)
    BY <1>2 DEF Command
  <1> HIDE DEF s1
  <1>4. s2 = Command(a, b, c, d, e, f, left, code, i, j)
    BY <1>3 DEF Command
  <1> HIDE DEF s2
  <1>5. CommandInv(s2)
    BY <1>2, <1>4 DEF CommandInv, Underway, IsCommand, Clean, Command
  <1> QED
    BY <1>1, <1>5

\* A group was run: with status 0 all its targets are solved, and it has some.
LEMMA AfterGroup ==
  ASSUME NEW r, Underway(r), r.command = "harness", r.pc = "run",
         NEW left, NEW children, NEW code, NEW ok,
         children \in [Class -> Nat],
         code = 0 =>
           /\ r.code = 0 /\ children["SOLVED"] # 0
           /\ \A k \in {"GENUINE_FAIL", "INFRA_INVALID"} : children[k] = r.children[k]
  PROVE  ok = TRUE => CommandInv([r EXCEPT !.left = left, !.children = children, !.code = code, !.truth = ok])
  <1> DEFINE s1 == [r EXCEPT !.left = left]
             s2 == [s1 EXCEPT !.children = children]
             s3 == [s2 EXCEPT !.code = code]
             s4 == [s3 EXCEPT !.truth = ok]
  <1>1. [r EXCEPT !.left = left, !.children = children, !.code = code, !.truth = ok] = s4
    OBVIOUS
  <1>2. PICK a, b, c, d, e, f, g, h, i, j : r = Command(a, b, c, d, e, f, g, h, i, j)
    BY ZenonT(40) DEF Underway, IsCommand
  <1>3. s1 = Command(a, b, c, d, e, f, left, h, i, j)
    BY <1>2 DEF Command
  <1> HIDE DEF s1
  <1>4. s2 = Command(a, b, c, d, e, f, left, h, children, j)
    BY <1>3 DEF Command
  <1> HIDE DEF s2
  <1>5. s3 = Command(a, b, c, d, e, f, left, code, children, j)
    BY <1>4 DEF Command
  <1> HIDE DEF s3
  <1>6. s4 = Command(a, b, c, d, e, f, left, code, children, ok)
    BY <1>5 DEF Command
  <1> HIDE DEF s4
  <1>7. ok = TRUE => CommandInv(s4)
    BY <1>2, <1>6 DEF CommandInv, Underway, IsCommand, Clean, Command
  <1> QED
    BY <1>1, <1>7

\* A command keeps its invariant until the next one is its turn.
LEMMA Inductive == IInv /\ [Next]_vars => IInv'
  <1> SUFFICES ASSUME IInv, [Next]_vars PROVE IInv'
    OBVIOUS
  <1>1. ASSUME NEW p \in Proc, Start(p) PROVE IInv'
    BY <1>1, StartFacts, StepFacts DEF Start
  <1>2. ASSUME NEW p \in Proc, Preflight(p) PROVE IInv'
    <2> DEFINE r == proc[p]
               ok == r.suite = "all" \/ CheckoutIsReleased(Checkout(p))
    <2>1. \/ ok /\ Step(p, [r EXCEPT !.pc = "list", !.truth = ok])
          \/ Step(p, Abort(1))
      BY <1>2, PreflightMeansReleased DEF Preflight
    <2>2. Underway(r)
      BY <1>2, RunningFacts DEF Preflight
    <2>3. ok => ok = TRUE
      OBVIOUS
    <2> HIDE DEF ok
    <2>4. ok => CommandInv([r EXCEPT !.pc = "list", !.truth = ok])
      BY <2>2, <2>3, AfterPreflight
    <2> QED
      BY <2>1, <2>4, AbortFacts, StepFacts
  <1>3. ASSUME NEW p \in Proc, ListTasks(p) PROVE IInv'
    <2> DEFINE r == proc[p]
               truth(ok) == IF ok THEN Truth(p) ELSE r.truth
               q(ok, tasks) == [r EXCEPT !.pc = "run", !.known = ok, !.listed = tasks,
                                         !.left = tasks, !.truth = truth(ok)]
    <2>1. PICK git \in BOOLEAN :
            Step(p, q(ListingWorks(p, git), IF ListingWorks(p, git) THEN Listing(p) ELSE <<>>))
      BY <1>3 DEF ListTasks
    <2>2. Underway(r) /\ r.command = "sweep"
      BY <1>3, RunningFacts DEF ListTasks
    <2>3. ListingWorks(p, git) => Truth(p)
      BY <2>2, ListMeansReleased DEF ListingWorks, Truth, Discovered, DiscoveredRunnable, Underway
    <2>4. truth(ListingWorks(p, git)) = TRUE
      BY <2>2, <2>3 DEF Underway
    <2> HIDE DEF truth
    <2>5. \A tasks : CommandInv(q(ListingWorks(p, git), tasks))
      BY <2>2, <2>4, AfterSweepList
    <2> QED
      BY <2>1, <2>5, StepFacts
  <1>4. ASSUME NEW p \in Proc, RunTask(p) PROVE IInv'
    <2> DEFINE r == proc[p]
    <2>1. Underway(r) /\ r.pc = "run" /\ r.command = "sweep"
      BY <1>4, RunningFacts DEF RunTask
    <2>2. \E left, code : Step(p, [r EXCEPT !.left = left, !.code = code])
      BY <1>4 DEF RunTask
    <2> QED
      BY <2>1, <2>2, AfterTask, StepFacts
  <1>5. ASSUME NEW p \in Proc, ListGroups(p) PROVE IInv'
    <2> DEFINE r == proc[p]
    <2>1. PICK git, groups :
            \/ GroupingWorks(p, git)
               /\ Step(p, [r EXCEPT !.pc = "run", !.listed = groups, !.left = groups,
                                    !.truth = Truth(p)])
            \/ Step(p, Abort(1))
      BY <1>5 DEF ListGroups
    <2>2. Underway(r)
      BY <1>5, RunningFacts DEF ListGroups
    <2>3. GroupingWorks(p, git) => Truth(p) = TRUE
      BY <2>2, ListMeansReleased DEF GroupingWorks, Truth, Underway
    <2>4. GroupingWorks(p, git) =>
            CommandInv([r EXCEPT !.pc = "run", !.listed = groups, !.left = groups,
                                 !.truth = Truth(p)])
      BY <2>2, <2>3, AfterGroupList
    <2> QED
      BY <2>1, <2>4, AbortFacts, StepFacts
  <1>6. ASSUME NEW p \in Proc, RunGroup(p) PROVE IInv'
    <2> DEFINE r == proc[p]
               S == TasksOf(p, Head(r.left))
               q(class, code) == [r EXCEPT !.left = Tail(r.left), !.children = Counted(r.children, class),
                                           !.code = code, !.truth = Truth(p)]
    <2>1. Underway(r) /\ r.pc = "run" /\ r.command = "harness"
      BY <1>6, RunningFacts DEF RunGroup
    <2>2. CASE Step(p, Abort(1))
      BY <2>2, AbortFacts, StepFacts
    <2>3. CASE \E git \in BOOLEAN, class \in [S -> Class], completed \in BOOLEAN :
                 /\ GroupingWorks(p, git) /\ S # {}
                 /\ Step(p, q(class, IF ChildCode(class, completed) = 0 THEN r.code ELSE 1))
      <3>1. PICK git \in BOOLEAN, class \in [S -> Class], completed \in BOOLEAN :
                 /\ GroupingWorks(p, git) /\ S # {}
                 /\ Step(p, q(class, IF ChildCode(class, completed) = 0 THEN r.code ELSE 1))
        BY <2>3
      <3> DEFINE code == IF ChildCode(class, completed) = 0 THEN r.code ELSE 1
                 children == Counted(r.children, class)
      <3>2. Truth(p) = TRUE
        BY <2>1, <3>1, ListMeansReleased DEF GroupingWorks, Truth, Underway
      <3>3. S \subseteq Task
        BY DEF TasksOf, Grouped
      <3>4. /\ children \in [Class -> Nat]
            /\ (\A t \in S : class[t] = "SOLVED") =>
                 /\ \A k \in {"GENUINE_FAIL", "INFRA_INVALID"} : children[k] = r.children[k]
                 /\ children["SOLVED"] # 0
        <4> HIDE DEF S
        <4> QED
          BY <2>1, <3>1, <3>3, CountFacts DEF Underway
      <3>5. code = 0 => r.code = 0 /\ \A t \in S : class[t] = "SOLVED"
        <4> HIDE DEF S
        <4> QED
          BY DEF ChildCode
      <3>6. CommandInv(q(class, code))
        <4> HIDE DEF S, code, children
        <4>1. CommandInv([r EXCEPT !.left = Tail(r.left), !.children = children, !.code = code,
                                   !.truth = Truth(p)])
          BY <2>1, <3>2, <3>4, <3>5, AfterGroup
        <4> QED
          BY <4>1 DEF children
      <3> QED
        BY <3>1, <3>6, StepFacts
    <2> QED
      BY <1>6, <2>2, <2>3 DEF RunGroup
  <1>7. ASSUME NEW p \in Proc, Aggregate(p) PROVE IInv'
    <2>1. PICK report :
            \/ Step(p, Report(proc[p], report)) /\ proc[p].command = "sweep"
            \/ Step(p, Abort(1))
      BY <1>7 DEF Aggregate
    <2>2. proc[p].command = "sweep" => CommandInv(Report(proc[p], report))
      BY DEF Report, CommandInv, Earned
    <2> QED
      BY <2>1, <2>2, AbortFacts, StepFacts
  <1>8. ASSUME NEW p \in Proc, WriteSuite(p) PROVE IInv'
    <2> DEFINE r == proc[p]
               n == r.children
               report == [class |-> RunClass(n), counts |-> n,
                          reusable |-> Targets(n) # 0 /\ n["INFRA_INVALID"] = 0]
    <2>1. Underway(r) /\ r.command = "harness" /\ r.left = <<>> /\ Step(p, Report(r, report))
      BY <1>8, RunningFacts DEF WriteSuite
    <2>2. n \in [Class -> Nat]
      BY <2>1 DEF Underway
    <2>3. /\ r.code = 0 /\ r.listed # <<>> => RunClass(n) = "SOLVED"
          /\ RunClass(n) = "SOLVED" =>
               n["SOLVED"] # 0 /\ n["GENUINE_FAIL"] = 0 /\ n["INFRA_INVALID"] = 0 /\ Targets(n) # 0
      BY <2>1, <2>2, ClassFacts DEF Underway, Clean
    <2>4. /\ report.class = RunClass(n) /\ report.counts = n
          /\ RunClass(n) = "SOLVED" => report.reusable
          /\ report.reusable => n["INFRA_INVALID"] = 0
      BY <2>3
    <2> HIDE DEF report, n
    <2>5. CommandInv(Report(r, report))
      BY <2>1, <2>3, <2>4 DEF Report, CommandInv, Earned
    <2> QED
      BY <2>1, <2>5, StepFacts
  <1>9. ASSUME NEW p \in Proc, Kill(p) PROVE IInv'
    BY <1>9, AbortFacts, StepFacts DEF Kill
  <1>10. CASE Edit \/ AllDone \/ UNCHANGED vars
    BY <1>10 DEF Edit, AllDone, vars, IInv
  <1> QED
    BY <1>1, <1>2, <1>3, <1>4, <1>5, <1>6, <1>7, <1>8, <1>9, <1>10 DEF Next

-----------------------------------------------------------------------------
(* Clean exits: what a command knows of the result files, which others     *)
(* share.                                                                  *)

\* The result file of a task was written since the command began.
Fresh(p, t) == results[t].made /\ p \in results[t].new

\* While the exit status is 0 every task that was run has a fresh result file.
Swept(p, r) ==
  r.pc = "run" /\ r.command = "sweep" =>
    /\ r.listed \in Seq(Task) /\ r.left \in Seq(Task)
    /\ r.code = 0 => \A t \in ToSet(r.listed) \ ToSet(r.left) : Fresh(p, t)

SweepEarned(r) ==
  r.pc = "done" /\ "report" \in DOMAIN r /\ r.command = "sweep" /\ r.code = 0 /\ r.known /\ r.listed # <<>> =>
    /\ DOMAIN r.report = DOMAIN r.listed
    /\ \A i \in DOMAIN r.report : r.report[i]

\* A manifest and a checkout by their fields.
IsManifest(m) ==
  m = [source |-> m.source, metadata |-> m.metadata, environment |-> m.environment,
       tasks |-> m.tasks, entry |-> m.entry, bytes |-> m.bytes]

IsCheckout(c) ==
  c = [files |-> c.files, references |-> c.references, pins |-> c.pins, packages |-> c.packages,
       helper |-> c.helper, contract |-> c.contract, manifest |-> c.manifest]

SoundCheckout(c) == IsCheckout(c) /\ IsManifest(c.manifest) /\ c.manifest.tasks \in Seq(Task)

SweepInv ==
  /\ SoundCheckout(live)
  /\ results \in [Task -> [made : BOOLEAN, new : SUBSET Proc]]
  /\ \A p \in Proc : Swept(p, proc[p]) /\ SweepEarned(proc[p])

\* The manifest written for a checkout lists tasks (build_version_manifest).
LEMMA ManifestSound ==
  ASSUME NEW c PROVE IsManifest(ManifestOf(c)) /\ ManifestOf(c).tasks \in Seq(Task)
  <1>1. ManifestOf(c).tasks = InOrder({t \in Task : Plays(c, t)})
    BY DEF ManifestOf
  <1>2. IsManifest(ManifestOf(c))
    BY DEF ManifestOf, IsManifest
  <1> QED
    BY <1>1, <1>2, InOrderType

\* A list in reverse is still a list of tasks.
LEMMA ReverseType == ASSUME NEW s \in Seq(Task) PROVE Reverse(s) \in Seq(Task)
  <1>1. Len(s) \in Nat /\ \A i \in 1 .. Len(s) : s[i] \in Task
    BY LenProperties
  <1>2. \A i \in 1 .. Len(s) : (Len(s) - i) + 1 \in 1 .. Len(s)
    BY <1>1
  <1> QED
    BY <1>1, <1>2, IsASeq DEF Reverse

\* A manifest with one field changed by hand still lists tasks.
LEMMA ForgedSound ==
  ASSUME NEW m, IsManifest(m), m.tasks \in Seq(Task), NEW n \in Forged(m)
  PROVE  IsManifest(n) /\ n.tasks \in Seq(Task)
  <1>1. PICK a, b, c, d, e, f :
          m = [source |-> a, metadata |-> b, environment |-> c, tasks |-> d, entry |-> e, bytes |-> f]
    BY Zenon DEF IsManifest
  <1>2. PICK a1, b1, c1, d1 :
          /\ n = [source |-> a1, metadata |-> b1, environment |-> c1, tasks |-> d1, entry |-> e,
                  bytes |-> f]
          /\ d1 \in {d, Reverse(d)}
    BY <1>1 DEF Forged
  <1> QED
    BY <1>1, <1>2, ReverseType DEF IsManifest

\* An edit of the checkout leaves a list of tasks in its manifest.
LEMMA EditSound ==
  ASSUME NEW c, SoundCheckout(c), NEW d \in Edited(c) PROVE SoundCheckout(d)
  <1> DEFINE Of(f, r, e, q, h, k, m) == [files |-> f, references |-> r, pins |-> e, packages |-> q,
                                         helper |-> h, contract |-> k, manifest |-> m]
  <1>1. PICK f, r, e, q, h, k, m : c = Of(f, r, e, q, h, k, m)
    BY Zenon DEF SoundCheckout, IsCheckout
  <1>2. \E f1, r1, e1, q1, h1, k1, m1 :
          d = Of(f1, r1, e1, q1, h1, k1, m1) /\ m1 \in {m, ManifestOf(c)} \cup Forged(m)
    <2>1. CASE \E t \in Task, v \in Files : d = [c EXCEPT !.files[t] = v]
      BY <1>1, <2>1
    <2>2. CASE \E t \in Frozen, v \in References : d = [c EXCEPT !.references[t] = v]
      BY <1>1, <2>2
    <2>3. CASE d \in {[c EXCEPT !.pins = 3 - @], [c EXCEPT !.packages = 3 - @], [c EXCEPT !.helper = ~@]}
      BY <1>1, <2>3
    <2>4. CASE d = [c EXCEPT !.manifest = ManifestOf(c)]
      <3> DEFINE n == ManifestOf(c)
      <3> HIDE DEF n
      <3>1. d = [c EXCEPT !.manifest = n]
        BY <2>4 DEF n
      <3>2. d = Of(f, r, e, q, h, k, n)
        BY <1>1, <3>1
      <3> QED
        BY <3>2 DEF n
    <2>5. CASE d = [c EXCEPT !.contract = ReferencesOf(c)]
      <3> DEFINE n == ReferencesOf(c)
      <3> HIDE DEF n
      <3>1. d = [c EXCEPT !.contract = n]
        BY <2>5 DEF n
      <3> QED
        BY <1>1, <3>1
    <2>6. CASE \E n \in Forged(c.manifest) : d = [c EXCEPT !.manifest = n]
      <3>1. PICK n \in Forged(m) : d = [c EXCEPT !.manifest = n]
        BY <1>1, <2>6
      <3>2. d = Of(f, r, e, q, h, k, n)
        BY <1>1, <3>1
      <3> QED
        BY <3>2
    <2> QED
      BY <2>1, <2>2, <2>3, <2>4, <2>5, <2>6 DEF Edited
  <1>3. PICK f1, r1, e1, q1, h1, k1, m1 :
          d = Of(f1, r1, e1, q1, h1, k1, m1) /\ m1 \in {m, ManifestOf(c)} \cup Forged(m)
    BY <1>2
  <1>4. IsManifest(m) /\ m.tasks \in Seq(Task)
    BY <1>1 DEF SoundCheckout
  <1>5. IsManifest(m1) /\ m1.tasks \in Seq(Task)
    BY <1>3, <1>4, ManifestSound, ForgedSound
  <1>6. d.manifest = m1 /\ IsCheckout(d)
    BY <1>3 DEF IsCheckout
  <1> QED
    BY <1>5, <1>6 DEF SoundCheckout

\* So does the release's.
LEMMA ReleaseSound == SoundCheckout(ReleaseCheckout)
  <1> DEFINE c == [files |-> [t \in Task |-> IF t \in Frozen THEN 1 ELSE 0],
                   references |-> [t \in Task |-> 1], pins |-> 1, packages |-> 1, helper |-> TRUE,
                   contract |-> 0, manifest |-> 0]
             m == ManifestOf(c)
             d == [c EXCEPT !.manifest = m]
             k == ReferencesOf(d)
  <1>1. ReleaseCheckout = [d EXCEPT !.contract = k]
    BY DEF ReleaseCheckout
  <1>2. IsManifest(m) /\ m.tasks \in Seq(Task)
    BY ManifestSound
  <1> HIDE DEF m, k
  <1>3. ReleaseCheckout = [files |-> c.files, references |-> c.references,
                           pins |-> c.pins, packages |-> c.packages, helper |-> c.helper,
                           contract |-> k, manifest |-> m]
    BY <1>1
  <1> QED
    BY <1>2, <1>3 DEF SoundCheckout, IsCheckout

\* What a step does to the result files: none, or a command starts, or a task's
\* file is written.
LEMMA ResultsStep ==
  ASSUME [Next]_vars
  PROVE  \/ UNCHANGED results
         \/ \E p \in Proc \ Running : results' = [u \in Task |-> [results[u] EXCEPT !.new = @ \ {p}]]
         \/ \E u : results' = [results EXCEPT ![u] = Row]
  <1>1. ASSUME NEW p \in Proc, RunTask(p)
        PROVE  UNCHANGED results \/ \E u : results' = [results EXCEPT ![u] = Row]
    BY <1>1, Zenon DEF RunTask
  <1>2. ASSUME NEW p \in Proc, Start(p)
        PROVE  p \notin Running /\ results' = [u \in Task |-> [results[u] EXCEPT !.new = @ \ {p}]]
    BY <1>2, Zenon DEF Start, Running
  <1>3. ASSUME NEW p \in Proc,
               \/ Preflight(p) \/ ListTasks(p) \/ Aggregate(p)
               \/ ListGroups(p) \/ RunGroup(p) \/ WriteSuite(p) \/ Kill(p)
        PROVE  UNCHANGED results
    BY <1>3, Zenon DEF Preflight, ListTasks, Aggregate, ListGroups, RunGroup, WriteSuite, Kill
  <1>4. Edit \/ AllDone \/ UNCHANGED vars => UNCHANGED results
    BY DEF Edit, AllDone, vars
  <1> QED
    BY <1>1, <1>2, <1>3, <1>4 DEF Next

\* A command that runs while another starts or leaves a result file keeps what is
\* fresh for it: that file is younger than every command that runs.
LEMMA FreshKept ==
  ASSUME SweepInv, [Next]_vars, NEW o \in Running, NEW t \in Task, Fresh(o, t)
  PROVE  Fresh(o, t)'
  <1>1. results \in [Task -> [made : BOOLEAN, new : SUBSET Proc]]
    BY DEF SweepInv
  <1>2. \/ UNCHANGED results
        \/ \E p \in Proc \ Running : results' = [u \in Task |-> [results[u] EXCEPT !.new = @ \ {p}]]
        \/ \E u : results' = [results EXCEPT ![u] = Row]
    BY ResultsStep
  <1>3. CASE UNCHANGED results
    BY <1>3 DEF Fresh
  <1>4. ASSUME NEW p \in Proc \ Running, results' = [u \in Task |-> [results[u] EXCEPT !.new = @ \ {p}]]
        PROVE  Fresh(o, t)'
    <2>1. results'[t] = [made |-> results[t].made, new |-> results[t].new \ {p}]
      BY <1>1, <1>4
    <2> QED
      BY <2>1 DEF Fresh
  <1>5. ASSUME NEW u, results' = [results EXCEPT ![u] = Row] PROVE Fresh(o, t)'
    <2>1. results'[t] \in {results[t], Row}
      BY <1>1, <1>5
    <2>2. Row.made = TRUE /\ Row.new = Running
      BY DEF Row
    <2> QED
      BY <2>1, <2>2 DEF Fresh
  <1> QED
    BY <1>2, <1>3, <1>4, <1>5

\* Result files keep their shape.
LEMMA ResultsType ==
  ASSUME SweepInv, [Next]_vars PROVE results' \in [Task -> [made : BOOLEAN, new : SUBSET Proc]]
  <1>1. results \in [Task -> [made : BOOLEAN, new : SUBSET Proc]]
    BY DEF SweepInv
  <1>2. \/ UNCHANGED results
        \/ \E p \in Proc \ Running : results' = [u \in Task |-> [results[u] EXCEPT !.new = @ \ {p}]]
        \/ \E u : results' = [results EXCEPT ![u] = Row]
    BY ResultsStep
  <1>3. ASSUME NEW p \in Proc \ Running, results' = [u \in Task |-> [results[u] EXCEPT !.new = @ \ {p}]]
        PROVE  results' \in [Task -> [made : BOOLEAN, new : SUBSET Proc]]
    <2>1. \A u \in Task : [results[u] EXCEPT !.new = @ \ {p}] \in [made : BOOLEAN, new : SUBSET Proc]
      BY <1>1
    <2> QED
      BY <1>3, <2>1
  <1>4. Row \in [made : BOOLEAN, new : SUBSET Proc]
    BY DEF Row, Running
  <1> QED
    BY <1>1, <1>2, <1>3, <1>4

\* The checkout keeps listing tasks.
LEMMA LiveSound == ASSUME SweepInv, [Next]_vars PROVE SoundCheckout(live')
  <1>1. UNCHANGED live \/ live' \in Edited(live)
    BY DEF Next, Edit, AllDone, Start, Preflight, ListTasks, RunTask, Aggregate, ListGroups, RunGroup,
           WriteSuite, Kill, vars
  <1>2. SoundCheckout(live)
    BY DEF SweepInv
  <1> QED
    BY <1>1, <1>2, EditSound

\* What is listed are tasks, in the release or not.
LEMMA ListingType == ASSUME SweepInv, NEW p \in Proc PROVE Listing(p) \in Seq(Task)
  <1>1. Checkout(p).manifest.tasks \in Seq(Task)
    BY ReleaseSound DEF SweepInv, Checkout, SoundCheckout
  <1> QED
    BY <1>1, InOrderType DEF Listing

\* What a command knows outlives the steps of the others.
LEMMA OthersSwept ==
  ASSUME SweepInv, [Next]_vars, NEW o \in Proc, proc'[o] = proc[o]
  PROVE  (Swept(o, proc[o]) /\ SweepEarned(proc[o]))'
  <1> DEFINE r == proc[o]
  <1>1. Swept(o, r) /\ SweepEarned(r)
    BY DEF SweepInv
  <1>2. ASSUME r.pc = "run", r.command = "sweep", r.code = 0,
               NEW t \in ToSet(r.listed) \ ToSet(r.left)
        PROVE  Fresh(o, t)'
    <2>1. Fresh(o, t) /\ r.listed \in Seq(Task)
      BY <1>1, <1>2 DEF Swept
    <2>2. t \in Task
      <3>1. \A s \in Seq(Task) : ToSet(s) \subseteq Task
        BY DEF ToSet
      <3> QED
        BY <2>1, <3>1
    <2>3. o \in Running
      BY <1>2 DEF Running
    <2> QED
      BY <2>1, <2>2, <2>3, FreshKept
  <1> QED
    BY <1>1, <1>2 DEF Swept, SweepEarned

\* So a step of one command has to be right about that command only.
LEMMA StepSwept ==
  ASSUME IInv, SweepInv, [Next]_vars, NEW p \in Proc, NEW r, Step(p, r),
         Swept(p, r)', SweepEarned(r)
  PROVE  SweepInv'
  <1>1. ASSUME NEW o \in Proc PROVE (Swept(o, proc[o]) /\ SweepEarned(proc[o]))'
    <2>1. proc' = [q \in Proc |-> IF q = p THEN r ELSE proc[q]]
      BY DEF IInv, Step
    <2>2. CASE o = p
      <3>1. proc'[o] = r
        BY <2>1, <2>2
      <3> QED
        BY <2>2, <3>1 DEF Swept, SweepEarned, Fresh
    <2>3. CASE o # p
      BY <2>1, <2>3, OthersSwept
    <2> QED
      BY <2>2, <2>3
  <1> QED
    BY <1>1, LiveSound, ResultsType DEF SweepInv

\* Only a command that has its list, and is a sweep, has anything to be right about.
LEMMA NothingSwept ==
  ASSUME NEW p, NEW r, r.pc \notin {"run", "done"} \/ r.command = "harness" \/ r = Abort(r.code)
  PROVE  Swept(p, r)' /\ SweepEarned(r)
  BY DEF Swept, SweepEarned, Abort

\* A task of a sweep was run: with status 0 its result file is of now, and the
\* tasks behind it are what was behind it before.
LEMMA TaskSwept ==
  ASSUME IInv, SweepInv, NEW p \in Proc, RunTask(p) PROVE SweepInv'
  <1> DEFINE r == proc[p]
             t == Head(r.left)
             q(status) == [r EXCEPT !.left = Tail(r.left), !.code = Status(r.code, status)]
  <1>1. /\ Underway(r) /\ r.pc = "run" /\ r.command = "sweep" /\ p \in Running /\ r.left # <<>>
        /\ Swept(p, r)
    BY RunningFacts DEF RunTask, Running, SweepInv
  <1>2. r.listed \in Seq(Task) /\ r.left \in Seq(Task)
    BY <1>1 DEF Swept
  <1>3. t \in Task /\ Tail(r.left) \in Seq(Task) /\ ToSet(r.left) \subseteq ToSet(Tail(r.left)) \cup {t}
    <2> DEFINE s == r.left
    <2> HIDE DEF s
    <2>1. s \in Seq(Task) /\ s # <<>>
      BY <1>1, <1>2 DEF s
    <2>2. /\ Len(s) \in Nat \ {0} /\ Head(s) \in Task /\ Tail(s) \in Seq(Task)
          /\ DOMAIN Tail(s) = 1 .. Len(s) - 1
          /\ \A i \in 1 .. Len(s) - 1 : Tail(s)[i] = s[i + 1]
      BY <2>1
    <2>3. ASSUME NEW i \in DOMAIN s, i # 1 PROVE s[i] \in ToSet(Tail(s))
      <3>1. i - 1 \in 1 .. Len(s) - 1 /\ (i - 1) + 1 = i
        BY <2>1, <2>2, <2>3
      <3>2. Tail(s)[i - 1] = s[i]
        BY <2>2, <3>1
      <3> QED
        BY <2>2, <3>1, <3>2 DEF ToSet
    <2>4. Head(s) = s[1]
      BY <2>1
    <2> QED
      BY <2>2, <2>3, <2>4 DEF s, ToSet
  <1>4. PICK status, n :
          /\ n = q(status) /\ Step(p, n)
          /\ status = 0 => results' = [results EXCEPT ![t] = Row]
    <2>1. \/ Step(p, q(1))
          \/ \E status : results' = [results EXCEPT ![t] = Row]
                          /\ Step(p, q(IF status = "passed" THEN 0 ELSE 1))
      BY Zenon DEF RunTask
    <2> HIDE DEF q, t
    <2> QED
      BY <2>1
  <1>5. /\ n.pc = "run" /\ n.command = "sweep" /\ n.listed = r.listed
        /\ n.left = Tail(r.left) /\ n.code = Status(r.code, status)
    <2> DEFINE left == Tail(r.left)
               code == Status(r.code, status)
               s1 == [r EXCEPT !.left = left]
               s2 == [s1 EXCEPT !.code = code]
    <2> HIDE DEF left, code
    <2>1. n = s2
      BY <1>4 DEF left, code
    <2>2. PICK a, b, c, d, e, f, g, h, i, j : r = Command(a, b, c, d, e, f, g, h, i, j)
      BY <1>1, ZenonT(40) DEF Underway, IsCommand
    <2>3. s1 = Command(a, b, c, d, e, f, left, h, i, j)
      BY <2>2 DEF Command
    <2> HIDE DEF s1
    <2>4. s2 = Command(a, b, c, d, e, f, left, code, i, j)
      BY <2>3 DEF Command
    <2> HIDE DEF s2
    <2> QED
      BY <1>1, <2>1, <2>2, <2>4 DEF Command, left, code
  <1>6. Next
    BY DEF Next
  <1>7. ASSUME Status(r.code, status) = 0, NEW u \in ToSet(r.listed) \ ToSet(Tail(r.left))
        PROVE  Fresh(p, u)'
    <2>1. r.code = 0 /\ status = 0
      BY <1>7 DEF Status
    <2>2. CASE u = t
      <3>1. results'[t] = Row
        BY <1>3, <1>4, <2>1 DEF SweepInv
      <3> QED
        BY <1>1, <2>2, <3>1 DEF Fresh, Row
    <2>3. CASE u # t
      <3>1. u \in ToSet(r.listed) \ ToSet(r.left)
        BY <1>3, <1>7, <2>3
      <3>2. u \in Task
        BY <1>2, <1>7 DEF ToSet
      <3> QED
        BY <1>1, <1>6, <2>1, <3>1, <3>2, FreshKept DEF Swept
    <2> QED
      BY <2>2, <2>3
  <1>8. Swept(p, n)' /\ SweepEarned(n)
    BY <1>2, <1>3, <1>5, <1>7 DEF Swept, SweepEarned
  <1> QED
    BY <1>4, <1>6, <1>8, StepSwept

\* A sweep gets its list, or none, and nothing of it has run.
LEMMA ListSwept ==
  ASSUME IInv, SweepInv, NEW p \in Proc, ListTasks(p) PROVE SweepInv'
  <1> DEFINE r == proc[p]
             q(known, tasks, truth) == [r EXCEPT !.pc = "run", !.known = known, !.listed = tasks,
                                                 !.left = tasks, !.truth = truth]
  <1>1. Underway(r) /\ r.command = "sweep"
    BY RunningFacts DEF ListTasks
  <1>2. PICK known, tasks, truth, n :
          tasks \in {<<>>, Listing(p)} /\ n = q(known, tasks, truth) /\ Step(p, n)
    <2>1. PICK git \in BOOLEAN :
            LET ok == ListingWorks(p, git)
                tasks == IF ok THEN Listing(p) ELSE <<>>
            IN Step(p, [r EXCEPT !.pc = "run", !.known = ok, !.listed = tasks, !.left = tasks,
                                 !.truth = IF ok THEN Truth(p) ELSE @])
      BY Zenon DEF ListTasks
    <2> DEFINE ok == ListingWorks(p, git)
               list == IF ok THEN Listing(p) ELSE <<>>
               truth == IF ok THEN Truth(p) ELSE r.truth
    <2>2. Step(p, q(ok, list, truth))
      BY <2>1
    <2>3. list \in {<<>>, Listing(p)}
      OBVIOUS
    <2> HIDE DEF ok, list, truth, q
    <2> QED
      BY <2>2, <2>3
  <1>3. tasks \in Seq(Task)
    BY <1>2, ListingType, EmptySeq
  <1>4. n.listed = tasks /\ n.left = tasks /\ n.pc = "run"
    <2> DEFINE s1 == [r EXCEPT !.pc = "run"]
               s2 == [s1 EXCEPT !.known = known]
               s3 == [s2 EXCEPT !.listed = tasks]
               s4 == [s3 EXCEPT !.left = tasks]
               s5 == [s4 EXCEPT !.truth = truth]
    <2>1. n = s5
      BY <1>2
    <2>2. PICK a, b, c, d, e, f, g, h, i, j : r = Command(a, b, c, d, e, f, g, h, i, j)
      BY <1>1, ZenonT(40) DEF Underway, IsCommand
    <2>3. s1 = Command("run", b, c, d, e, f, g, h, i, j)
      BY <2>2 DEF Command
    <2> HIDE DEF s1
    <2>4. s2 = Command("run", b, c, d, e, known, g, h, i, j)
      BY <2>3 DEF Command
    <2> HIDE DEF s2
    <2>5. s3 = Command("run", b, c, d, tasks, known, g, h, i, j)
      BY <2>4 DEF Command
    <2> HIDE DEF s3
    <2>6. s4 = Command("run", b, c, d, tasks, known, tasks, h, i, j)
      BY <2>5 DEF Command
    <2> HIDE DEF s4
    <2>7. s5 = Command("run", b, c, d, tasks, known, tasks, h, i, truth)
      BY <2>6 DEF Command
    <2> HIDE DEF s5
    <2> QED
      BY <2>1, <2>7 DEF Command
  <1>5. Next
    BY DEF Next
  <1>6. Swept(p, n)' /\ SweepEarned(n)
    BY <1>3, <1>4 DEF Swept, SweepEarned
  <1> QED
    BY <1>2, <1>5, <1>6, StepSwept

\* The report of a sweep has every task with a result file, and says whether it is
\* a fresh one: with status 0 nothing is left, so all are.
LEMMA ReportSwept ==
  ASSUME IInv, SweepInv, NEW p \in Proc, Aggregate(p) PROVE SweepInv'
  <1> DEFINE r == proc[p]
  <1>1. /\ r.pc = "run" /\ r.command = "sweep" /\ r.left = <<>>
        /\ Swept(p, r)
    BY DEF Aggregate, SweepInv
  <1>2. Next
    BY DEF Next
  <1>3. CASE Step(p, Abort(1))
    <2>1. \A m : m = Abort(1) => m = Abort(m.code)
      BY DEF Abort
    <2> QED
      BY <1>2, <1>3, <2>1, NothingSwept, StepSwept
  <1>4. CASE \E tasks :
               /\ r.listed # <<>> => tasks = r.listed
               /\ Step(p, Report(r, [i \in {i \in DOMAIN tasks : results[tasks[i]].made} |->
                                      p \in results[tasks[i]].new]))
    <2>1. PICK tasks, report, n :
            /\ r.listed # <<>> => tasks = r.listed
            /\ report = [i \in {i \in DOMAIN tasks : results[tasks[i]].made} |->
                          p \in results[tasks[i]].new]
            /\ n = Report(r, report) /\ Step(p, n)
      BY <1>4
    <2>2. n.pc = "done" /\ n.code = r.code /\ n.listed = r.listed /\ n.report = report
      BY <2>1 DEF Report
    <2>3. ASSUME r.code = 0, r.listed # <<>>
          PROVE  DOMAIN report = DOMAIN r.listed /\ \A i \in DOMAIN report : report[i]
      <3>1. ToSet(r.left) = {}
        BY <1>1, EmptySeq DEF ToSet
      <3>2. \A i \in DOMAIN r.listed : Fresh(p, r.listed[i])
        BY <1>1, <2>3, <3>1 DEF Swept, ToSet
      <3> QED
        BY <2>1, <2>3, <3>2 DEF Fresh
    <2>4. Swept(p, n)' /\ SweepEarned(n)
      BY <2>2, <2>3 DEF Swept, SweepEarned
    <2> QED
      BY <1>2, <2>1, <2>4, StepSwept
  <1> QED
    BY <1>3, <1>4 DEF Aggregate

\* The fields of a command that a step leaves alone.
LEMMA FieldsKept ==
  ASSUME NEW r, IsCommand(r), NEW pc, NEW listed, NEW left, NEW children, NEW code, NEW truth
  PROVE  /\ [r EXCEPT !.pc = pc, !.truth = truth].pc = pc
         /\ [r EXCEPT !.pc = pc, !.listed = listed, !.left = left, !.truth = truth].command = r.command
         /\ [r EXCEPT !.left = left, !.children = children, !.code = code,
                      !.truth = truth].command = r.command
  <1>1. PICK a, b, c, d, e, f, g, h, i, j : r = Command(a, b, c, d, e, f, g, h, i, j)
    BY ZenonT(40) DEF IsCommand
  <1>2. DOMAIN r = {"pc", "command", "suite", "fresh", "listed", "known", "left", "code", "children",
                    "truth"}
    BY <1>1 DEF Command
  <1>3. \A s, k, v : DOMAIN [s EXCEPT ![k] = v] = DOMAIN s
    OBVIOUS
  <1>4. \A s, k, v, x : x \in DOMAIN s => [s EXCEPT ![k] = v][x] = IF x = k THEN v ELSE s[x]
    OBVIOUS
  <1>5. [r EXCEPT !.pc = pc, !.truth = truth].pc = pc
    BY <1>2, <1>3, <1>4
  <1>6. [r EXCEPT !.pc = pc, !.listed = listed, !.left = left, !.truth = truth].command = r.command
    BY <1>2, <1>3, <1>4
  <1>7. [r EXCEPT !.left = left, !.children = children, !.code = code, !.truth = truth].command
          = r.command
    BY <1>2, <1>3, <1>4
  <1> QED
    BY <1>5, <1>6, <1>7

\* Each step leaves every clean exit earned.
LEMMA SweepInductive == IInv /\ SweepInv /\ [Next]_vars => SweepInv'
  <1> SUFFICES ASSUME IInv, SweepInv, [Next]_vars PROVE SweepInv'
    OBVIOUS
  <1> DEFINE Nothing(n) == n.pc \notin {"run", "done"} \/ n.command = "harness" \/ n = Abort(n.code)
  <1>1. ASSUME NEW p \in Proc, NEW n, Step(p, n), Nothing(n) PROVE SweepInv'
    <2>1. Swept(p, n)' /\ SweepEarned(n)
      BY <1>1, NothingSwept
    <2> QED
      BY <1>1, <2>1, StepSwept
  <1>2. ASSUME NEW p \in Proc, NEW code, Step(p, Abort(code)) PROVE SweepInv'
    <2>1. Nothing(Abort(code))
      BY DEF Abort
    <2> HIDE DEF Nothing
    <2> QED
      BY <1>1, <1>2, <2>1
  <1>3. ASSUME NEW p \in Proc, Start(p) PROVE SweepInv'
    <2>1. PICK command, suite, pinned : Step(p, Started(command, suite, pinned))
      BY <1>3 DEF Start
    <2>2. Nothing(Started(command, suite, pinned))
      BY DEF Started
    <2> HIDE DEF Nothing
    <2> QED
      BY <1>1, <2>1, <2>2
  <1>4. ASSUME NEW p \in Proc, Preflight(p) PROVE SweepInv'
    <2> DEFINE r == proc[p]
    <2>1. \/ \E truth : Step(p, [r EXCEPT !.pc = "list", !.truth = truth])
          \/ Step(p, Abort(1))
      BY <1>4, Zenon DEF Preflight
    <2>2. IsCommand(r)
      BY <1>4, RunningFacts DEF Preflight, Underway
    <2>3. \A truth : Nothing([r EXCEPT !.pc = "list", !.truth = truth])
      BY <2>2, FieldsKept
    <2> HIDE DEF Nothing
    <2> QED
      BY <1>1, <1>2, <2>1, <2>3
  <1>5. ASSUME NEW p \in Proc, ListGroups(p) PROVE SweepInv'
    <2> DEFINE r == proc[p]
    <2>1. \/ \E listed, truth : Step(p, [r EXCEPT !.pc = "run", !.listed = listed, !.left = listed,
                                                !.truth = truth])
          \/ Step(p, Abort(1))
      BY <1>5, Zenon DEF ListGroups
    <2>2. IsCommand(r) /\ r.command = "harness"
      BY <1>5, RunningFacts DEF ListGroups, Underway
    <2>3. \A listed, truth : Nothing([r EXCEPT !.pc = "run", !.listed = listed, !.left = listed,
                                              !.truth = truth])
      BY <2>2, FieldsKept
    <2> HIDE DEF Nothing
    <2> QED
      BY <1>1, <1>2, <2>1, <2>3
  <1>6. ASSUME NEW p \in Proc, RunGroup(p) PROVE SweepInv'
    <2> DEFINE r == proc[p]
    <2>1. \/ \E left, children, code, truth :
               Step(p, [r EXCEPT !.left = left, !.children = children, !.code = code, !.truth = truth])
          \/ Step(p, Abort(1))
      BY <1>6, Zenon DEF RunGroup
    <2>2. IsCommand(r) /\ r.command = "harness"
      BY <1>6, RunningFacts DEF RunGroup, Underway
    <2>3. \A left, children, code, truth :
            Nothing([r EXCEPT !.left = left, !.children = children, !.code = code, !.truth = truth])
      BY <2>2, FieldsKept
    <2> HIDE DEF Nothing
    <2> QED
      BY <1>1, <1>2, <2>1, <2>3
  <1>7. ASSUME NEW p \in Proc, WriteSuite(p) PROVE SweepInv'
    <2>1. PICK report : Step(p, Report(proc[p], report)) /\ proc[p].command = "harness"
      BY <1>7 DEF WriteSuite
    <2>2. Nothing(Report(proc[p], report))
      BY <2>1 DEF Report
    <2> HIDE DEF Nothing
    <2> QED
      BY <1>1, <2>1, <2>2
  <1>8. ASSUME NEW p \in Proc, Kill(p) PROVE SweepInv'
    BY <1>2, <1>8 DEF Kill
  <1>9. CASE Edit \/ AllDone \/ UNCHANGED vars
    <2>1. UNCHANGED proc
      BY <1>9 DEF Edit, AllDone, vars
    <2> QED
      BY <2>1, OthersSwept, LiveSound, ResultsType DEF SweepInv
  <1> QED
    BY <1>3, <1>4, <1>5, <1>6, <1>7, <1>8, <1>9, ListSwept, TaskSwept, ReportSwept DEF Next

-----------------------------------------------------------------------------
(* The theorems.                                                           *)

\* Each command knows what it has checked and counted, whatever the others and
\* the edits of the checkout do (run_in_v02_environment.py, cli.py, run_all.sh).
THEOREM Invariance == Spec => []IInv
  <1>1. Init => IInv
    BY DEF Init, IInv, CommandInv, Idle
  <1> QED
    BY <1>1, Inductive, PTL DEF Spec

\* A command for v0.2 gets past its preflight, its list and the start of a group
\* only where, at that moment, the tasks (and at the preflight the reference
\* proofs, the toolchain and Verity) are the release's, whatever was edited
\* together with whatever (load_v02_task_refs, ensure_structural_contract).
THEOREM FrozenStaysFrozen == Spec => []FrozenMeansFrozen
  <1>1. IInv => FrozenMeansFrozen
    BY DEF IInv, CommandInv, Underway, FrozenMeansFrozen, Running
  <1> QED
    BY <1>1, Invariance, PTL

\* Status 0, the class and the reuse flag of a suite are earned by the counts of
\* its targets, for any groups and tasks (run_suite).
THEOREM SuiteVerdictHolds == Spec => []SuiteVerdictIsEarned
  <1>1. IInv => SuiteVerdictIsEarned
    BY DEF IInv, CommandInv, Earned, SuiteVerdictIsEarned, Reported
  <1> QED
    BY <1>1, Invariance, PTL

\* No sweep exits with 0 on a stale or missing result, for any number of sweeps
\* over the same result files, killed or not, and any edits (run_all.sh,
\* aggregate_results).
THEOREM CleanExitHolds == Spec => []CleanExitIsEarned
  <1>1. Init => SweepInv
    BY ReleaseSound DEF Init, SweepInv, NoRow, Idle, Swept, SweepEarned
  <1>2. SweepInv => CleanExitIsEarned
    BY DEF SweepInv, SweepEarned, CleanExitIsEarned, Reported
  <1> QED
    BY <1>1, <1>2, SweepInductive, Invariance, PTL DEF Spec
===============================================================================
