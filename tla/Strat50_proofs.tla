---------------------------- MODULE Strat50_proofs ----------------------------
(***************************************************************************)
(* Proofs about Strat50 for any models, panel, settings and limits, with   *)
(* crashes, failed saves and restarts: results.json gives a task one       *)
(* verdict and implements the scoreboard.  What relates the memory of a    *)
(* lane to the file is LaneInv: they differ by at most one row, and that   *)
(* row is about the model's first task without a verdict in the file.      *)
(***************************************************************************)
EXTENDS Strat50, TLAPS

TaskRows == [Task -> [Class -> Nat]]

DoneIn(r, m) == {t \in Task : \E c \in VALID : r[m][t][c] > 0}

OneEach(r) ==
  \A m \in Model, t \in Task, c, d \in VALID :
    r[m][t][c] + (IF c = d THEN 0 ELSE r[m][t][d]) <= 1

\* The rows in memory have one row of class c for task t more than the file.
Adds(m, t, c) ==
  /\ t \in Task \ DoneIn(file, m)
  /\ \A u \in Task \ DoneIn(file, m) : t <= u
  /\ rows[m] = [file[m] EXCEPT ![t][c] = @ + 1]

LaneInv(m) ==
  /\ pc[m] \in {"start", "run", "save", "done"} => rows[m] = file[m]
  /\ pc[m] \in {"run", "save", "write", "replace"} =>
       pending[m] = Task \ DoneIn(file, m)
  /\ pc[m] = "done" => DoneIn(file, m) = Task
  /\ pc[m] \in {"write", "replace"} => \E t \in Task : Adds(m, t, got[m])
  /\ pc[m] \in {"raised", "failed"} =>
       rows[m] = file[m] \/ \E t \in Task, c \in Class : Adds(m, t, c)
  /\ pc[m] \in {"write", "replace"} <=> lock = m
  /\ pc[m] = "replace" => tmp = rows
  /\ pc[m] \notin {"raised", "failed"} =>
       streak[m] < InfraThreshold /\ cycles[m] < MaxCycles

IInv ==
  /\ TypeOK
  /\ OneEach(rows) /\ OneEach(file)
  /\ OneCohort
  /\ proc = "up" => cohort \in Config /\ \A m \in Model : LaneInv(m)
  /\ proc # "up" => lock = None
  /\ proc = "complete" => \A m \in Model : DoneIn(file, m) = Task

-----------------------------------------------------------------------------
(* Facts about rows.                                                       *)

\* One row more: what changes is one count.
LEMMA OneMore ==
  ASSUME NEW f \in TaskRows, NEW t \in Task, NEW c \in Class
  PROVE  LET g == [f EXCEPT ![t][c] = @ + 1] IN
         /\ g \in TaskRows
         /\ \A u \in Task, d \in Class :
              g[u][d] = IF u = t /\ d = c THEN f[u][d] + 1 ELSE f[u][d]
  <1> DEFINE g == [f EXCEPT ![t][c] = @ + 1]
  <1>1. g = [f EXCEPT ![t] = [f[t] EXCEPT ![c] = f[t][c] + 1]]
    OBVIOUS
  <1>2. [f[t] EXCEPT ![c] = f[t][c] + 1] \in [Class -> Nat]
    BY DEF TaskRows
  <1>3. g \in TaskRows
    BY <1>1, <1>2 DEF TaskRows
  <1>4. ASSUME NEW u \in Task, NEW d \in Class
        PROVE  g[u][d] = IF u = t /\ d = c THEN f[u][d] + 1 ELSE f[u][d]
    BY <1>1 DEF TaskRows
  <1> QED
    BY <1>3, <1>4

\* The rows of a campaign are the rows of its models.
LEMMA RowsType == Rows = [Model -> TaskRows]
  BY DEF Rows, TaskRows

\* At most one verdict for each task of a model with rows f.
OneOf(f) == \A u \in Task, d, e \in VALID : f[u][d] + (IF d = e THEN 0 ELSE f[u][e]) <= 1

NoVerdict(f, t) == \A d \in VALID : ~(f[t][d] > 0)

\* g has one row of class c for task t more than f.
PlusOne(f, g, t, c) ==
  \A u \in Task, d \in Class :
    g[u][d] = IF u = t /\ d = c THEN f[u][d] + 1 ELSE f[u][d]

\* Adding a row changes one count.
LEMMA PlusOneRow ==
  ASSUME NEW f \in TaskRows, NEW t \in Task, NEW c \in Class
  PROVE  PlusOne(f, [f EXCEPT ![t][c] = @ + 1], t, c)
  BY OneMore, ZenonT(40) DEF PlusOne

\* Adding a row to a task without a verdict keeps at most one verdict a task.
LEMMA AddedRow ==
  ASSUME NEW f \in TaskRows, OneOf(f), NEW t \in Task, NoVerdict(f, t),
         NEW c \in Class, NEW g, PlusOne(f, g, t, c)
  PROVE  OneOf(g)
  <1>1. VALID \subseteq Class
    BY DEF Class
  <1>2. \A u \in Task, d \in Class : f[u][d] \in Nat
    BY DEF TaskRows
  <1>3. \A d \in VALID : f[t][d] = 0
    BY <1>1, <1>2 DEF NoVerdict
  <1>4. ASSUME NEW u \in Task, NEW d \in VALID, NEW e \in VALID
        PROVE  g[u][d] + (IF d = e THEN 0 ELSE g[u][e]) <= 1
    <2>1. f[u][d] + (IF d = e THEN 0 ELSE f[u][e]) <= 1
      BY DEF OneOf
    <2>2. d \in Class /\ e \in Class /\ f[u][d] \in Nat /\ f[u][e] \in Nat
      BY <1>1, <1>2
    <2>3. CASE u = t
      BY <1>3, <2>2, <2>3 DEF PlusOne
    <2>4. CASE u # t
      BY <2>1, <2>2, <2>4 DEF PlusOne
    <2> QED
      BY <2>3, <2>4
  <1> QED
    BY <1>4 DEF OneOf

\* A row that was added is about a task without a verdict, and gives it one
\* exactly when the row is evidence.
LEMMA AddsEffect ==
  ASSUME TypeOK, NEW m \in Model, NEW t \in Task, NEW c \in Class, Adds(m, t, c)
  PROVE  /\ PlusOne(file[m], rows[m], t, c)
         /\ NoVerdict(file[m], t)
         /\ DoneIn(rows, m) = DoneIn(file, m) \cup (IF c \in VALID THEN {t} ELSE {})
  <1>1. file[m] \in TaskRows /\ VALID \subseteq Class
    BY RowsType DEF TypeOK, Class
  <1>2. NoVerdict(file[m], t)
    BY DEF Adds, DoneIn, NoVerdict
  <1>3. rows[m] = [file[m] EXCEPT ![t][c] = @ + 1]
    BY DEF Adds
  <1>4. PlusOne(file[m], rows[m], t, c)
    BY <1>1, <1>3, PlusOneRow
  <1>5. \A u \in Task, d \in Class : file[m][u][d] \in Nat
    BY <1>1 DEF TaskRows
  <1>6. DoneIn(rows, m) = DoneIn(file, m) \cup (IF c \in VALID THEN {t} ELSE {})
    BY <1>1, <1>2, <1>4, <1>5 DEF DoneIn, PlusOne, NoVerdict
  <1> QED
    BY <1>2, <1>4, <1>6

-----------------------------------------------------------------------------
(* Type correctness.                                                       *)

\* Every action keeps the types.
LEMMA TypeStep == ASSUME IInv, [Next]_vars PROVE TypeOK'
  <1> USE StratAssumption DEF TypeOK
  <1>0. TypeOK /\ OneCohort
    BY DEF IInv
  <1>1. ASSUME NEW c \in Config, Start(c) PROVE TypeOK'
    BY <1>0, <1>1 DEF Start, Loaded
  <1>2. CASE Crash
    BY <1>0, <1>2 DEF Crash, laneVars
  <1>3. CASE Join
    BY <1>0, <1>3 DEF Join, VerdictOf, laneVars
  <1>4. ASSUME NEW m \in Model, LaneStart(m) PROVE TypeOK'
    BY <1>0, <1>4 DEF LaneStart, Goto, Left
  <1>5. ASSUME NEW m \in Model, NEW c \in Class, Run(m, c) PROVE TypeOK'
    BY <1>0, <1>5 DEF Run, Goto
  <1>6. ASSUME NEW m \in Model, BeginSave(m) PROVE TypeOK'
    <2>1. PICK t \in Task : rows' = [rows EXCEPT ![m][t][got[m]] = @ + 1]
      BY <1>6 DEF BeginSave
    <2>2. rows[m] \in TaskRows /\ got[m] \in Class /\ rows \in [Model -> TaskRows]
      BY <1>0, RowsType
    <2>3. [rows[m] EXCEPT ![t][got[m]] = @ + 1] \in TaskRows
      BY <2>2, OneMore
    <2>4. rows' = [rows EXCEPT ![m] = [rows[m] EXCEPT ![t][got[m]] = @ + 1]]
      BY <2>1
    <2>5. rows' \in Rows
      BY <2>2, <2>3, <2>4, RowsType
    <2>6. cohort \in Config
      BY <1>6 DEF IInv, BeginSave, At
    <2> QED
      BY <1>0, <1>6, <2>5, <2>6 DEF BeginSave, Goto
  <1>7. ASSUME NEW m \in Model, WriteTmp(m) PROVE TypeOK'
    BY <1>0, <1>7 DEF WriteTmp, Goto
  <1>8. ASSUME NEW m \in Model, Replace(m) PROVE TypeOK'
    <2>1. tmp = rows /\ streak[m] < InfraThreshold /\ cycles[m] < MaxCycles
      BY <1>8 DEF IInv, Replace, At, LaneInv
    <2>2. /\ UNCHANGED <<proc, starts, cohort, rows, got, authors>>
          /\ file' = tmp /\ tmp' = Torn /\ lock' = None
      BY <1>8 DEF Replace
    <2>3. CASE Evidence(m)
      BY <1>0, <2>1, <2>2, <2>3 DEF Evidence, Goto, Left
    <2>4. CASE Retry(m)
      BY <1>0, <2>1, <2>2, <2>4 DEF Retry, Goto
    <2>5. CASE CircuitOpens(m)
      <3>1. cycles' \in [Model -> 0 .. MaxCycles]
        BY <1>0, <2>1, <2>5 DEF CircuitOpens
      <3>2. streak' \in [Model -> 0 .. InfraThreshold]
        BY <1>0, <2>1, <2>5 DEF CircuitOpens
      <3> QED
        BY <1>0, <2>1, <2>2, <2>5, <3>1, <3>2 DEF CircuitOpens, Goto
    <2> QED
      BY <1>8, <2>3, <2>4, <2>5 DEF Replace
  <1>9. ASSUME NEW m \in Model, Raise(m) \/ NoteError(m) PROVE TypeOK'
    BY <1>0, <1>9 DEF Raise, NoteError, Goto, Unlock
  <1>10. CASE UNCHANGED vars
    BY <1>0, <1>10 DEF vars, laneVars
  <1> QED
    BY <1>1, <1>2, <1>3, <1>4, <1>5, <1>6, <1>7, <1>8, <1>9, <1>10 DEF Next, Lane

-----------------------------------------------------------------------------
(* The inductive invariant.                                                *)

\* A lane that a step leaves alone keeps its invariant.
LEMMA LaneKept ==
  ASSUME NEW k \in Model, LaneInv(k),
         file'[k] = file[k], rows'[k] = rows[k], pc'[k] = pc[k],
         pending'[k] = pending[k], got'[k] = got[k],
         streak'[k] = streak[k], cycles'[k] = cycles[k],
         lock' = k <=> lock = k, pc[k] = "replace" => tmp' = rows'
  PROVE  LaneInv(k)'
  <1>1. DoneIn(file, k)' = DoneIn(file, k)
    BY DEF DoneIn
  <1>2. (\E t \in Task : Adds(k, t, got[k]))' <=> \E t \in Task : Adds(k, t, got[k])
    BY <1>1 DEF Adds
  <1>3. (\E t \in Task, c \in Class : Adds(k, t, c))' <=>
          \E t \in Task, c \in Class : Adds(k, t, c)
    BY <1>1 DEF Adds
  <1> QED
    BY <1>1, <1>2, <1>3 DEF LaneInv

\* Steps that change neither the rows nor the file.
LEMMA RowsKept ==
  ASSUME IInv, UNCHANGED <<rows, file>> PROVE OneEach(rows)' /\ OneEach(file)'
  BY DEF IInv, OneEach

\* A start of the campaign establishes the invariant from the file.
LEMMA StartStep == ASSUME IInv, NEW c \in Config, Start(c) PROVE IInv'
  <1>1. TypeOK' /\ cohort' = c /\ lock = None /\ lock' = None /\ rows' = file
    BY TypeStep DEF IInv, Start, Loaded, Next
  <1>2. OneEach(rows)' /\ OneEach(file)'
    BY <1>1 DEF IInv, OneEach, Start
  <1>3. OneCohort'
    BY <1>1, StratAssumption DEF IInv, TypeOK, OneCohort, Start, Compatible
  <1>4. ASSUME NEW m \in Model PROVE LaneInv(m)'
    BY <1>1, StratAssumption DEF Start, LaneInv
  <1> QED
    BY <1>1, <1>2, <1>3, <1>4 DEF IInv, Start

\* The campaign ends by itself or is killed.
LEMMA EndStep == ASSUME IInv, Crash \/ Join PROVE IInv'
  <1>1. TypeOK'
    BY TypeStep DEF Next
  <1>2. OneEach(rows)' /\ OneEach(file)' /\ OneCohort'
    BY RowsKept DEF IInv, OneCohort, Crash, Join
  <1>3. CASE Crash
    BY <1>1, <1>2, <1>3 DEF IInv, Crash
  <1>4. CASE Join
    <2>1. \A m \in Model : LaneInv(m) /\ pc[m] \in {"done", "failed"}
      BY <1>4 DEF IInv, Join
    <2>2. lock = None
      BY <2>1 DEF IInv, TypeOK, LaneInv
    <2>3. proc' = "complete" => \A m \in Model : DoneIn(file, m)' = Task
      BY <1>4, <2>1 DEF Join, VerdictOf, LaneInv, DoneIn
    <2> QED
      BY <1>1, <1>2, <1>4, <2>2, <2>3 DEF IInv, Join, VerdictOf
  <1> QED
    BY <1>3, <1>4

\* A lane starts, runs a task, fails or notes its failure: the rows stay.
LEMMA LaneLocalStep ==
  ASSUME IInv, NEW m \in Model,
         \/ LaneStart(m) \/ (\E c \in Class : Run(m, c))
         \/ Raise(m) \/ NoteError(m)
  PROVE  IInv'
  <1>1. /\ TypeOK /\ TypeOK' /\ proc = "up" /\ proc' = "up" /\ cohort' = cohort
        /\ UNCHANGED <<rows, file, tmp, authors, streak, cycles>>
        /\ \A k \in Model : LaneInv(k)
    BY TypeStep DEF Next, Lane, IInv, LaneStart, Run, Raise, NoteError, At
  <1>2. OneEach(rows)' /\ OneEach(file)' /\ OneCohort' /\ cohort' \in Config
    BY <1>1, RowsKept DEF IInv, OneCohort
  <1>3. ASSUME NEW k \in Model \ {m} PROVE LaneInv(k)'
    <2>1. /\ pc'[k] = pc[k] /\ pending'[k] = pending[k] /\ got'[k] = got[k]
          /\ lock' = k <=> lock = k
      BY <1>1, StratAssumption
         DEF TypeOK, LaneStart, Run, Raise, NoteError, Goto, Unlock
    <2> QED
      BY <1>1, <2>1, LaneKept DEF LaneInv
  <1>4. LaneInv(m)'
    <2>0. LaneInv(m)
      BY <1>1
    <2>1. CASE LaneStart(m)
      <3>1. Done(m) = DoneIn(file, m) /\ DoneIn(file, m) \subseteq Task
        BY <1>1, <2>1 DEF LaneStart, At, LaneInv, Done, DoneIn
      <3>2. pc'[m] = IF pending'[m] = {} THEN "done" ELSE "run"
        BY <1>1, <2>1 DEF LaneStart, Goto, Left, TypeOK
      <3>3. /\ pending'[m] = Task \ DoneIn(file, m) /\ rows[m] = file[m]
            /\ lock # m /\ lock' # m /\ streak[m] < InfraThreshold
            /\ cycles[m] < MaxCycles
        BY <1>1, <2>1, <3>1, StratAssumption DEF LaneStart, At, LaneInv, TypeOK
      <3>4. DoneIn(file, m)' = DoneIn(file, m)
        BY <1>1 DEF DoneIn
      <3> QED
        BY <1>1, <3>1, <3>2, <3>3, <3>4 DEF LaneInv
    <2>2. ASSUME NEW c \in Class, Run(m, c) PROVE LaneInv(m)'
      <3>1. pc[m] = "run" /\ pc'[m] = "save" /\ pending' = pending /\ lock' = lock
        BY <1>1, <2>2 DEF Run, At, Goto, TypeOK
      <3>2. DoneIn(file, m)' = DoneIn(file, m)
        BY <1>1 DEF DoneIn
      <3> QED
        BY <1>1, <2>0, <3>1, <3>2 DEF LaneInv
    <2>3. CASE Raise(m)
      <3>1. /\ pc[m] \in {"run", "write", "replace"} /\ pc'[m] = "raised"
            /\ lock' # m
        BY <1>1, <2>3, StratAssumption DEF Raise, At, Goto, Unlock, TypeOK
      <3>2. rows[m] = file[m] \/ \E t \in Task, c \in Class : Adds(m, t, c)
        BY <1>1, <2>0, <3>1 DEF LaneInv, TypeOK
      <3>3. rows'[m] = file'[m] \/ \E t \in Task, c \in Class : Adds(m, t, c)'
        BY <1>1, <3>2 DEF Adds, DoneIn
      <3> QED
        BY <3>1, <3>3 DEF LaneInv
    <2>4. CASE NoteError(m)
      <3>1. pc[m] = "raised" /\ pc'[m] = "failed" /\ lock' # m
        BY <1>1, <2>4, StratAssumption DEF NoteError, At, Goto, TypeOK
      <3>2. rows[m] = file[m] \/ \E t \in Task, c \in Class : Adds(m, t, c)
        BY <2>0, <3>1 DEF LaneInv
      <3>3. rows'[m] = file'[m] \/ \E t \in Task, c \in Class : Adds(m, t, c)'
        BY <1>1, <3>2 DEF Adds, DoneIn
      <3> QED
        BY <3>1, <3>3 DEF LaneInv
    <2> QED
      BY <2>1, <2>2, <2>3, <2>4
  <1> QED
    BY <1>1, <1>2, <1>3, <1>4 DEF IInv

\* save appends one row, about the model's first task without a verdict.
LEMMA BeginSaveStep == ASSUME IInv, NEW m \in Model, BeginSave(m) PROVE IInv'
  <1>1. /\ TypeOK /\ TypeOK' /\ proc = "up" /\ proc' = "up" /\ cohort' = cohort
        /\ UNCHANGED <<file, got, pending, streak, cycles>> /\ tmp' = Torn
        /\ \A k \in Model : LaneInv(k)
        /\ lock = None /\ lock' = m /\ pc[m] = "save"
        /\ pc' = [pc EXCEPT ![m] = "write"]
        /\ OneEach(file) /\ OneEach(rows)
    BY TypeStep DEF Next, Lane, IInv, BeginSave, At, Goto
  <1>2. PICK t \in Task : Current(m, t) /\ rows' = [rows EXCEPT ![m][t][got[m]] = @ + 1]
    BY DEF BeginSave
  <1>3. /\ rows[m] = file[m] /\ pending[m] = Task \ DoneIn(file, m)
        /\ got[m] \in Class /\ file[m] \in TaskRows
    BY <1>1, RowsType DEF LaneInv, TypeOK
  <1>4. /\ rows'[m] = [file[m] EXCEPT ![t][got[m]] = @ + 1]
        /\ \A k \in Model \ {m} : rows'[k] = rows[k]
    BY <1>1, <1>2, <1>3 DEF TypeOK, Rows
  <1>5. t \in Task \ DoneIn(file, m) /\ \A u \in Task \ DoneIn(file, m) : t <= u
    BY <1>2, <1>3 DEF Current
  <1>6. OneEach(rows)'
    <2>1. OneOf(file[m]) /\ NoVerdict(file[m], t)
      BY <1>1, <1>5 DEF OneEach, OneOf, DoneIn, NoVerdict
    <2>2. PlusOne(file[m], rows'[m], t, got[m])
      <3>1. PlusOne(file[m], [file[m] EXCEPT ![t][got[m]] = @ + 1], t, got[m])
        BY <1>3, PlusOneRow
      <3> QED
        BY <1>4, <3>1
    <2>3. OneOf(rows'[m])
      BY <1>3, <2>1, <2>2, AddedRow
    <2> QED
      BY <1>1, <1>4, <2>3, ZenonT(40) DEF OneEach, OneOf
  <1>7. OneEach(file)' /\ OneCohort' /\ cohort' \in Config
    BY <1>1 DEF IInv, OneEach, OneCohort, BeginSave
  <1>8. ASSUME NEW k \in Model \ {m} PROVE LaneInv(k)'
    <2>1. /\ pc'[k] = pc[k] /\ rows'[k] = rows[k] /\ (lock' = k <=> lock = k)
          /\ pc[k] # "replace"
      BY <1>1, <1>4, StratAssumption DEF TypeOK, LaneInv
    <2> QED
      BY <1>1, <2>1, LaneKept
  <1>9. LaneInv(m)'
    <2>1. DoneIn(file, m)' = DoneIn(file, m)
      BY <1>1 DEF DoneIn
    <2>2. pc'[m] = "write" /\ streak[m] < InfraThreshold /\ cycles[m] < MaxCycles
      BY <1>1 DEF TypeOK, LaneInv
    <2>3. (\E u \in Task : Adds(m, u, got[m]))'
      BY <1>1, <1>4, <1>5, <2>1 DEF Adds
    <2> QED
      BY <1>1, <1>3, <2>1, <2>2, <2>3 DEF LaneInv
  <1> QED
    BY <1>1, <1>6, <1>7, <1>8, <1>9 DEF IInv

\* The temporary file is a copy of the rows in memory.
LEMMA WriteTmpStep == ASSUME IInv, NEW m \in Model, WriteTmp(m) PROVE IInv'
  <1>1. /\ TypeOK /\ TypeOK' /\ proc = "up" /\ proc' = "up" /\ cohort' = cohort
        /\ UNCHANGED <<file, rows, authors, lock, got, pending, streak, cycles>>
        /\ tmp' = rows /\ pc[m] = "write" /\ pc' = [pc EXCEPT ![m] = "replace"]
        /\ \A k \in Model : LaneInv(k)
    BY TypeStep DEF Next, Lane, IInv, WriteTmp, At, Goto
  <1>2. OneEach(rows)' /\ OneEach(file)' /\ OneCohort' /\ cohort' \in Config
    BY <1>1, RowsKept DEF IInv, OneCohort
  <1>3. ASSUME NEW k \in Model \ {m} PROVE LaneInv(k)'
    BY <1>1, LaneKept DEF TypeOK
  <1>4. LaneInv(m)'
    <2>1. DoneIn(file, m)' = DoneIn(file, m)
      BY <1>1 DEF DoneIn
    <2>2. (\E u \in Task : Adds(m, u, got[m]))'
      BY <1>1, <2>1 DEF Adds, LaneInv
    <2>3. pc'[m] = "replace"
      BY <1>1 DEF TypeOK
    <2> QED
      BY <1>1, <2>1, <2>2, <2>3 DEF LaneInv
  <1> QED
    BY <1>1, <1>2, <1>3, <1>4 DEF IInv

\* The saved file is the rows in memory, of this lane and of all others; then
\* the lane goes on to its next task, repeats the task or gives up.
LEMMA ReplaceStep == ASSUME IInv, NEW m \in Model, Replace(m) PROVE IInv'
  <1>1. /\ TypeOK /\ TypeOK' /\ proc = "up" /\ proc' = "up" /\ cohort' = cohort
        /\ UNCHANGED <<rows, got, authors>> /\ tmp' = Torn
        /\ \A k \in Model : LaneInv(k)
        /\ lock' = None /\ pc[m] = "replace"
        /\ OneEach(file) /\ OneEach(rows)
    BY TypeStep DEF Next, Lane, IInv, Replace, At
  <1>2. /\ tmp = rows /\ file' = rows /\ lock = m /\ lock' # m
        /\ pending[m] = Task \ DoneIn(file, m)
        /\ streak[m] < InfraThreshold /\ cycles[m] < MaxCycles
    BY <1>1, StratAssumption DEF LaneInv, Replace
  <1>3. PICK t \in Task : Adds(m, t, got[m])
    BY <1>1 DEF LaneInv
  <1>4. got[m] \in Class
    BY <1>1 DEF TypeOK
  <1>5. DoneIn(rows, m) = DoneIn(file, m) \cup (IF got[m] \in VALID THEN {t} ELSE {})
    BY <1>1, <1>3, <1>4, AddsEffect
  <1>6. DoneIn(file, m)' = DoneIn(rows, m) /\ rows'[m] = file'[m]
    BY <1>1, <1>2 DEF DoneIn
  <1>7. OneEach(rows)' /\ OneEach(file)' /\ OneCohort' /\ cohort' \in Config
    BY <1>1, <1>2 DEF IInv, OneEach, OneCohort
  <1>8. ASSUME NEW k \in Model \ {m} PROVE LaneInv(k)'
    <2>1. /\ pc'[k] = pc[k] /\ pending'[k] = pending[k]
          /\ streak'[k] = streak[k] /\ cycles'[k] = cycles[k]
      BY <1>1 DEF TypeOK, Replace, Evidence, Retry, CircuitOpens, Goto
    <2>2. /\ pc[k] \notin {"write", "replace"} /\ lock # k /\ lock' # k
          /\ rows'[k] = rows[k] /\ rows'[k] = file'[k]
      BY <1>1, <1>2, StratAssumption DEF LaneInv
    <2>3. CASE pc[k] \in {"raised", "failed"}
      BY <2>1, <2>2, <2>3 DEF LaneInv
    <2>4. CASE pc[k] \notin {"raised", "failed"}
      <3>1. file'[k] = file[k]
        BY <1>1, <2>2, <2>4 DEF LaneInv, TypeOK
      <3> QED
        BY <1>1, <2>1, <2>2, <3>1, LaneKept
    <2> QED
      BY <2>3, <2>4
  <1>9. LaneInv(m)'
    <2>1. CASE Evidence(m)
      <3>1. got[m] \in VALID /\ streak'[m] = 0 /\ cycles'[m] = 0
        BY <1>1, <1>4, <2>1 DEF Evidence, Class, TypeOK
      <3>2. pending'[m] = {u \in pending[m] : ~Current(m, u)}
        BY <1>1, <2>1 DEF Evidence, TypeOK
      <3>3. \A u \in Task \ DoneIn(file, m) : Current(m, u) <=> u = t
        BY <1>2, <1>3 DEF Adds, Current, Task
      <3>4. pending'[m] = (Task \ DoneIn(file, m)) \ {t}
        BY <1>2, <3>2, <3>3
      <3>5. pending'[m] = Task \ DoneIn(rows, m) /\ DoneIn(rows, m) \subseteq Task
        BY <1>5, <3>1, <3>4 DEF DoneIn
      <3>6. pc'[m] = IF pending'[m] = {} THEN "done" ELSE "run"
        BY <1>1, <2>1 DEF Evidence, Goto, Left, TypeOK
      <3>7. streak'[m] < InfraThreshold /\ cycles'[m] < MaxCycles
        BY <3>1, StratAssumption
      <3>8. pc'[m] = "done" => DoneIn(rows, m) = Task
        BY <3>5, <3>6
      <3>9. pc'[m] \in {"done", "run"}
        BY <3>6
      <3> QED
        BY <1>2, <1>6, <3>5, <3>7, <3>8, <3>9 DEF LaneInv
    <2>2. CASE Retry(m)
      <3>1. got[m] \notin VALID /\ pc'[m] = "run" /\ pending' = pending
        BY <1>1, <2>2 DEF Retry, INFRA, VALID, Goto, TypeOK
      <3>2. streak'[m] < InfraThreshold /\ cycles'[m] < MaxCycles
        BY <1>1, <1>2, <2>2 DEF Retry, TypeOK
      <3>3. pending'[m] = Task \ DoneIn(rows, m)
        BY <1>2, <1>5, <3>1
      <3> QED
        BY <1>2, <1>6, <3>1, <3>2, <3>3 DEF LaneInv
    <2>3. CASE CircuitOpens(m)
      <3>1. got[m] \notin VALID /\ pending' = pending
        BY <1>1, <2>3 DEF CircuitOpens, INFRA, VALID
      <3>2. pc'[m] = IF LastCycle(m) THEN "raised" ELSE "run"
        BY <1>1, <2>3 DEF CircuitOpens, Goto, TypeOK
      <3>3. pending'[m] = Task \ DoneIn(rows, m)
        BY <1>2, <1>5, <3>1
      <3>4. CASE LastCycle(m)
        BY <1>2, <1>6, <3>2, <3>4 DEF LaneInv
      <3>5. CASE ~LastCycle(m)
        <4>1. streak'[m] < InfraThreshold /\ cycles'[m] < MaxCycles
          BY <1>1, <1>2, <2>3, <3>5, StratAssumption
             DEF CircuitOpens, LastCycle, TypeOK
        <4> QED
          BY <1>2, <1>6, <3>2, <3>3, <3>5, <4>1 DEF LaneInv
      <3> QED
        BY <3>4, <3>5
    <2> QED
      BY <2>1, <2>2, <2>3 DEF Replace
  <1> QED
    BY <1>1, <1>7, <1>8, <1>9 DEF IInv

\* The invariant holds in every reachable state.
THEOREM Invariance == Spec => []IInv
  <1>1. Init => IInv
    <2> SUFFICES ASSUME Init PROVE IInv
      OBVIOUS
    <2> USE StratAssumption DEF Init
    <2>1. NoRows \in Rows
      BY DEF NoRows, Rows
    <2>2. OneEach(NoRows)
      BY DEF OneEach, NoRows, VALID, Class
    <2>3. TypeOK
      BY <2>1 DEF TypeOK, Class, INFRA
    <2> QED
      BY <2>2, <2>3 DEF IInv, OneCohort
  <1>2. IInv /\ [Next]_vars => IInv'
    <2> SUFFICES ASSUME IInv, [Next]_vars PROVE IInv'
      OBVIOUS
    <2>1. CASE UNCHANGED vars
      <3>1. ASSUME NEW m \in Model, LaneInv(m) PROVE LaneInv(m)'
        <4>1. pc[m] = "replace" => tmp' = rows'
          BY <2>1, <3>1 DEF LaneInv, vars
        <4> QED
          BY <2>1, <3>1, <4>1, LaneKept DEF vars, laneVars
      <3> QED
        BY <2>1, <3>1, TypeStep DEF IInv, vars, laneVars, OneEach, OneCohort, DoneIn
    <2>2. CASE Next
      BY <2>2, StartStep, EndStep, LaneLocalStep, BeginSaveStep, WriteTmpStep,
         ReplaceStep DEF Next, Lane
    <2> QED
      BY <2>1, <2>2
  <1> QED
    BY <1>1, <1>2, PTL DEF Spec

\* The campaign's state keeps its types; in particular results.json is a list
\* of rows that can be read at every moment, also one at which it is killed.
THEOREM TypeCorrect == Spec => []TypeOK
  BY Invariance, PTL DEF IInv

\* No task gets a second verdict of a model.
THEOREM VerdictIsUnique == Spec => []OneVerdict
  <1>1. IInv => OneVerdict
    BY DEF IInv, OneEach, OneVerdict
  <1> QED
    BY <1>1, Invariance, PTL

\* All rows of the results were made under the settings in cohort.json.
THEOREM CohortIsKept == Spec => []OneCohort
  BY Invariance, PTL DEF IInv

\* results.json is readable and of one cohort at every moment, and the lock
\* belongs to a lane that is going to release it.
THEOREM CampaignIsSound == Spec => []CampaignSound
  <1>1. IInv => CampaignSound
    <2> SUFFICES ASSUME IInv PROVE CampaignSound
      OBVIOUS
    <2>1. LockIsHeld
      <3> SUFFICES ASSUME lock # None PROVE proc = "up" /\ pc[lock] \in {"write", "replace"}
        BY DEF LockIsHeld
      <3>1. proc = "up" /\ lock \in Model
        BY DEF IInv, TypeOK
      <3>2. LaneInv(lock)
        BY <3>1 DEF IInv
      <3> QED
        BY <3>1, <3>2 DEF LaneInv
    <2> QED
      BY <2>1 DEF IInv, CampaignSound
  <1> QED
    BY <1>1, Invariance, PTL

-----------------------------------------------------------------------------
(* Runs in vain.                                                           *)

Vain(r, m, t) == r[m][t]["INFRA_INVALID"]

Budget == MaxCycles * InfraThreshold

\* The runs in vain that all starts so far allow a task.
Granted == starts * Budget

\* What the lane has used up of this start's budget for its current task.
Used(m) ==
  cycles[m] * InfraThreshold + streak[m]
    + (IF pc[m] \in {"write", "replace"} /\ got[m] \in INFRA THEN 1 ELSE 0)

\* A task that the lane has not come to has used up nothing of this start's
\* budget; the current one what the counters say.
LaneTries(m) ==
  /\ pc[m] = "start" =>
       /\ cycles[m] = 0 /\ streak[m] = 0
       /\ \A t \in Task : Vain(rows, m, t) <= Granted - Budget
  /\ pc[m] \in {"run", "save", "write", "replace"} =>
       \A t \in pending[m] :
         Vain(rows, m, t) <= Granted - Budget + (IF Current(m, t) THEN Used(m) ELSE 0)

TryInv ==
  /\ \A m \in Model, t \in Task : Vain(rows, m, t) <= Granted /\ Vain(file, m, t) <= Granted
  /\ proc = "up" => \A m \in Model : LaneTries(m)

\* The budget of one start, and how the cycles of a lane fit into it.
LEMMA BudgetFacts ==
  ASSUME TypeOK
  PROVE  /\ Budget \in Nat /\ Granted \in Nat
         /\ (starts + 1) * Budget = Granted + Budget
         /\ \A k \in 0 .. MaxCycles :
              /\ k * InfraThreshold \in Nat
              /\ (k + 1) * InfraThreshold = k * InfraThreshold + InfraThreshold
              /\ k < MaxCycles => k * InfraThreshold + InfraThreshold <= Budget
  <1>1. InfraThreshold \in Nat /\ MaxCycles \in Nat /\ starts \in Nat
    BY StratAssumption DEF TypeOK
  <1>2. Budget \in Nat /\ Granted \in Nat
    BY <1>1 DEF Budget, Granted
  <1>3. (starts + 1) * Budget = Granted + Budget
    BY <1>1, <1>2 DEF Granted
  <1>4. ASSUME NEW k \in 0 .. MaxCycles
        PROVE  /\ k * InfraThreshold \in Nat
               /\ (k + 1) * InfraThreshold = k * InfraThreshold + InfraThreshold
               /\ k < MaxCycles => k * InfraThreshold + InfraThreshold <= Budget
    <2>1. k * InfraThreshold \in Nat /\ (k + 1) * InfraThreshold = k * InfraThreshold + InfraThreshold
      BY <1>1
    <2>2. ASSUME k < MaxCycles PROVE (k + 1) * InfraThreshold <= Budget
      <3>1. PICK j \in Nat : MaxCycles = k + 1 + j
        <4>1. MaxCycles - (k + 1) \in Nat /\ MaxCycles = k + 1 + (MaxCycles - (k + 1))
          BY <1>1, <2>2
        <4> QED
          BY <4>1
      <3>2. Budget = (k + 1) * InfraThreshold + j * InfraThreshold
        BY <1>1, <3>1 DEF Budget
      <3>3. j * InfraThreshold \in Nat
        BY <1>1
      <3> QED
        BY <1>1, <2>1, <3>2, <3>3
    <2> QED
      BY <2>1, <2>2
  <1> QED
    BY <1>2, <1>3, <1>4

\* Counts of rows are numbers.
LEMMA VainType ==
  ASSUME TypeOK, NEW m \in Model, NEW t \in Task
  PROVE  Vain(rows, m, t) \in Nat /\ Vain(file, m, t) \in Nat
  BY DEF TypeOK, Rows, Vain, Class, INFRA

\* What a lane that has not given up has used is a number that leaves a run.
LEMMA UsedFits ==
  ASSUME TypeOK, NEW m \in Model, streak[m] < InfraThreshold, cycles[m] < MaxCycles
  PROVE  /\ cycles[m] * InfraThreshold \in Nat /\ streak[m] \in Nat /\ InfraThreshold \in Nat
         /\ cycles[m] * InfraThreshold + streak[m] + 1 <= Budget
         /\ Used(m) \in Nat /\ Used(m) <= Budget
  <1>1. cycles[m] \in 0 .. MaxCycles /\ streak[m] \in Nat /\ InfraThreshold \in Nat
    BY StratAssumption DEF TypeOK
  <1>2. /\ cycles[m] * InfraThreshold \in Nat /\ Budget \in Nat
        /\ cycles[m] * InfraThreshold + InfraThreshold <= Budget
    BY <1>1, BudgetFacts
  <1>3. cycles[m] * InfraThreshold + streak[m] + 1 <= Budget
    BY <1>1, <1>2
  <1>4. Used(m) \in Nat /\ Used(m) <= Budget
    BY <1>1, <1>2, <1>3 DEF Used
  <1> QED
    BY <1>1, <1>2, <1>3, <1>4

\* A lane that a step leaves alone.
LEMMA TriesKept ==
  ASSUME NEW k \in Model, LaneTries(k), starts' = starts, rows'[k] = rows[k],
         pc'[k] = pc[k], pending'[k] = pending[k], got'[k] = got[k],
         streak'[k] = streak[k], cycles'[k] = cycles[k]
  PROVE  LaneTries(k)'
  <1>1. Used(k)' = Used(k) /\ Granted' = Granted
    BY DEF Used, Granted
  <1>2. \A t : Current(k, t)' <=> Current(k, t)
    BY DEF Current
  <1>3. \A t : Vain(rows, k, t)' = Vain(rows, k, t)
    BY DEF Vain
  <1> QED
    BY <1>1, <1>2, <1>3 DEF LaneTries

\* A start finds the counts of the file and grants every task one more budget.
LEMMA StartTries == ASSUME IInv, TryInv, NEW c \in Config, Start(c) PROVE TryInv'
  <1>1. TypeOK /\ starts' = starts + 1 /\ rows' = file /\ file' = file
    BY DEF IInv, Start, Loaded
  <1>2. Granted' = Granted + Budget /\ Granted \in Nat /\ Budget \in Nat
    BY <1>1, BudgetFacts DEF Granted
  <1>3. \A m \in Model, t \in Task :
          Vain(rows, m, t)' = Vain(file, m, t) /\ Vain(file, m, t)' = Vain(file, m, t)
    BY <1>1 DEF Vain
  <1>4. \A m \in Model, t \in Task : Vain(file, m, t) \in Nat /\ Vain(file, m, t) <= Granted
    BY <1>1, VainType DEF TryInv
  <1>5. ASSUME NEW m \in Model PROVE LaneTries(m)'
    <2>1. cycles'[m] = 0 /\ streak'[m] = 0 /\ pc'[m] = "start"
      BY DEF Start
    <2>2. \A t \in Task : Vain(rows, m, t)' <= (Granted - Budget)'
      BY <1>2, <1>3, <1>4 DEF Budget
    <2> QED
      BY <2>1, <2>2 DEF LaneTries
  <1>6. \A m \in Model, t \in Task : Vain(rows, m, t)' <= Granted' /\ Vain(file, m, t)' <= Granted'
    BY <1>2, <1>3, <1>4
  <1> QED
    BY <1>5, <1>6 DEF TryInv

\* Steps that leave the rows and the file alone keep the counts.
LEMMA CountsKept ==
  ASSUME TryInv, UNCHANGED <<rows, file, starts>>
  PROVE  /\ Granted' = Granted
         /\ \A m \in Model, t \in Task :
              /\ Vain(rows, m, t)' = Vain(rows, m, t)
              /\ Vain(rows, m, t)' <= Granted' /\ Vain(file, m, t)' <= Granted'
  <1>1. Granted' = Granted
    BY DEF Granted
  <1>2. \A m \in Model, t \in Task :
          Vain(rows, m, t)' = Vain(rows, m, t) /\ Vain(file, m, t)' = Vain(file, m, t)
    BY DEF Vain
  <1> QED
    BY <1>1, <1>2 DEF TryInv

\* A lane starts, runs its task, writes the temporary file or fails.
LEMMA LocalTries ==
  ASSUME IInv, TryInv, NEW m \in Model,
         \/ LaneStart(m) \/ (\E c \in Class : Run(m, c)) \/ WriteTmp(m)
         \/ Raise(m) \/ NoteError(m)
  PROVE  TryInv'
  <1>1. /\ TypeOK /\ proc = "up" /\ proc' = "up"
        /\ UNCHANGED <<rows, file, starts, streak, cycles>>
        /\ \A k \in Model : LaneTries(k) /\ LaneInv(k)
    BY DEF IInv, TryInv, LaneStart, Run, WriteTmp, Raise, NoteError, At
  <1>2. ASSUME NEW k \in Model \ {m} PROVE LaneTries(k)'
    <2>1. pc'[k] = pc[k] /\ pending'[k] = pending[k] /\ got'[k] = got[k]
      BY <1>1 DEF TypeOK, LaneStart, Run, WriteTmp, Raise, NoteError, Goto
    <2> QED
      BY <1>1, <2>1, TriesKept
  <1>3. LaneTries(m)'
    <2>0. /\ Granted' = Granted /\ Budget' = Budget
          /\ \A t \in Task : Vain(rows, m, t)' = Vain(rows, m, t) /\ Vain(rows, m, t) \in Nat
          /\ Granted \in Nat /\ Budget \in Nat
      BY <1>1, CountsKept, VainType, BudgetFacts DEF Budget
    <2>1. CASE LaneStart(m)
      <3>1. pc[m] = "start" /\ pc'[m] \in {"run", "done"} /\ pending'[m] \subseteq Task
        BY <1>1, <2>1 DEF LaneStart, At, Goto, Left, TypeOK
      <3>2. cycles'[m] = 0 /\ streak'[m] = 0 /\ \A t \in Task : Vain(rows, m, t) <= Granted - Budget
        BY <1>1, <3>1 DEF LaneTries
      <3>3. Used(m)' = 0
        <4>1. 0 * InfraThreshold = 0
          BY StratAssumption
        <4> QED
          BY <3>1, <3>2, <4>1 DEF Used
      <3>4. \A t \in Task : Vain(rows, m, t)' <= Granted' - Budget' + 0
        BY <2>0, <3>2
      <3> QED
        BY <3>1, <3>3, <3>4 DEF LaneTries
    <2>2. CASE (\E c \in Class : Run(m, c)) \/ WriteTmp(m)
      <3>1. /\ pending' = pending /\ pending[m] \subseteq Task
            /\ \/ pc[m] = "run" /\ pc'[m] = "save"
               \/ pc[m] = "write" /\ pc'[m] = "replace" /\ got' = got
        BY <1>1, <2>2 DEF Run, WriteTmp, At, Goto, TypeOK
      <3>2. Used(m)' = Used(m)
        BY <1>1, <3>1 DEF Used
      <3>3. \A t \in pending[m] :
              Vain(rows, m, t) <= Granted - Budget + (IF Current(m, t) THEN Used(m) ELSE 0)
        BY <1>1, <3>1 DEF LaneTries
      <3>4. \A t \in Task : Current(m, t)' <=> Current(m, t)
        BY <3>1 DEF Current
      <3> QED
        BY <2>0, <3>1, <3>2, <3>3, <3>4 DEF LaneTries
    <2>3. CASE Raise(m) \/ NoteError(m)
      <3>1. pc'[m] \in {"raised", "failed"}
        BY <1>1, <2>3 DEF Raise, NoteError, Goto, TypeOK
      <3> QED
        BY <3>1 DEF LaneTries
    <2> QED
      BY <2>1, <2>2, <2>3
  <1> QED
    BY <1>1, <1>2, <1>3, CountsKept DEF TryInv

\* save counts one more run for the current task.
LEMMA BeginSaveTries == ASSUME IInv, TryInv, NEW m \in Model, BeginSave(m) PROVE TryInv'
  <1>1. /\ TypeOK /\ proc = "up" /\ proc' = "up" /\ got[m] \in Class
        /\ UNCHANGED <<file, starts, streak, cycles, pending, got>>
        /\ pc[m] = "save" /\ pc' = [pc EXCEPT ![m] = "write"]
        /\ \A k \in Model : LaneTries(k) /\ LaneInv(k)
    BY DEF IInv, TypeOK, TryInv, BeginSave, At, Goto
  <1>2. PICK t \in Task : Current(m, t) /\ rows' = [rows EXCEPT ![m][t][got[m]] = @ + 1]
    BY DEF BeginSave
  <1>3. rows \in [Model -> TaskRows] /\ "INFRA_INVALID" \in Class
    BY <1>1, RowsType DEF TypeOK, Class, INFRA
  <1>4. rows'[m] = [rows[m] EXCEPT ![t][got[m]] = @ + 1] /\ \A k \in Model \ {m} : rows'[k] = rows[k]
    BY <1>2, <1>3
  <1>5. PlusOne(rows[m], [rows[m] EXCEPT ![t][got[m]] = @ + 1], t, got[m])
    BY <1>1, <1>3, PlusOneRow
  <1>6. \A u \in Task : Vain(rows, m, u)' =
          Vain(rows, m, u) + (IF u = t /\ got[m] \in INFRA THEN 1 ELSE 0)
    <2>1. \A u \in Task : Vain(rows, m, u) \in Nat
      BY <1>1, VainType
    <2> QED
      BY <1>3, <1>4, <1>5, <2>1 DEF PlusOne, Vain, INFRA
  <1>7. streak[m] < InfraThreshold /\ cycles[m] < MaxCycles /\ pending[m] \subseteq Task
    BY <1>1 DEF LaneInv, TypeOK
  <1>8. /\ Granted' = Granted /\ Budget' = Budget /\ Granted \in Nat /\ Budget \in Nat
        /\ \A u \in Task : Vain(rows, m, u) \in Nat /\ (Current(m, u)' <=> Current(m, u))
    BY <1>1, BudgetFacts, VainType DEF Granted, Budget, Current
  <1> DEFINE c == cycles[m] * InfraThreshold
  <1>9. /\ c \in Nat /\ streak[m] \in Nat /\ c + streak[m] + 1 <= Budget
        /\ Used(m) = c + streak[m]
        /\ Used(m)' = c + streak[m] + (IF got[m] \in INFRA THEN 1 ELSE 0)
    <2>1. pc'[m] = "write"
      BY <1>1 DEF TypeOK
    <2>2. c \in Nat /\ streak[m] \in Nat /\ c + streak[m] + 1 <= Budget
      BY <1>1, <1>7, UsedFits
    <2>3. Used(m) = c + streak[m] + 0
      BY <1>1 DEF Used
    <2>4. Used(m)' = c + streak[m] + (IF got[m] \in INFRA THEN 1 ELSE 0)
      BY <1>1, <2>1 DEF Used
    <2> QED
      BY <2>2, <2>3, <2>4
  <1>10. \A u \in pending[m] :
           Vain(rows, m, u) <= Granted - Budget + (IF Current(m, u) THEN c + streak[m] ELSE 0)
    BY <1>1, <1>9 DEF LaneTries
  <1>11. \A u \in Task : Current(m, u) => u = t /\ t \in pending[m]
    BY <1>2, <1>7 DEF Current, Task
  <1>12. LaneTries(m)'
    <2>1. ASSUME NEW u \in pending[m]
          PROVE  Vain(rows, m, u)' <= Granted - Budget + (IF Current(m, u) THEN Used(m)' ELSE 0)
      <3>1. CASE u = t
        <4>1. u \in Task /\ Current(m, u)
          BY <1>2, <1>7, <3>1
        <4>2. Vain(rows, m, u) <= Granted - Budget + (c + streak[m])
          BY <1>10, <4>1
        <4>3. Vain(rows, m, u) \in Nat /\ Granted \in Nat /\ Budget \in Nat
          BY <1>8, <4>1
        <4>4. Vain(rows, m, u)' = Vain(rows, m, u) + (IF got[m] \in INFRA THEN 1 ELSE 0)
          BY <1>6, <3>1, <4>1
        <4> HIDE DEF c
        <4>5. Vain(rows, m, u)' <= Granted - Budget + Used(m)'
          BY <1>9, <4>2, <4>3, <4>4
        <4> QED
          BY <4>1, <4>5
      <3>2. CASE u # t
        <4>1. ~Current(m, u)
          BY <1>7, <1>11, <3>2
        <4> QED
          BY <1>6, <1>7, <1>8, <1>10, <3>2, <4>1
      <3> QED
        BY <3>1, <3>2
    <2>2. pc'[m] = "write" /\ pending'[m] = pending[m]
      BY <1>1 DEF TypeOK
    <2> QED
      BY <1>7, <1>8, <2>1, <2>2 DEF LaneTries
  <1>13. ASSUME NEW k \in Model \ {m} PROVE LaneTries(k)'
    BY <1>1, <1>4, TriesKept DEF TypeOK
  <1>14. \A u \in Task : Vain(rows, m, u)' <= Granted
    <2>1. ASSUME NEW u \in Task PROVE Vain(rows, m, u)' <= Granted
      <3>1. Vain(rows, m, u) \in Nat /\ Vain(rows, m, u) <= Granted
        BY <1>8 DEF TryInv
      <3>2. CASE u = t /\ got[m] \in INFRA
        <4>1. Vain(rows, m, t) <= Granted - Budget + (c + streak[m])
          BY <1>2, <1>10, <1>11
        <4> QED
          BY <1>6, <1>8, <1>9, <3>1, <3>2, <4>1
      <3>3. CASE ~(u = t /\ got[m] \in INFRA)
        BY <1>6, <3>1, <3>3
      <3> QED
        BY <3>2, <3>3
    <2> QED
      BY <2>1
  <1>15. \A k \in Model, u \in Task : Vain(rows, k, u)' <= Granted' /\ Vain(file, k, u)' <= Granted'
    <2>1. \A k \in Model \ {m}, u \in Task : Vain(rows, k, u)' = Vain(rows, k, u)
      BY <1>4 DEF Vain
    <2>2. \A k \in Model, u \in Task : Vain(file, k, u)' = Vain(file, k, u)
      BY <1>1 DEF Vain
    <2> QED
      BY <1>8, <1>14, <2>1, <2>2 DEF TryInv
  <1> QED
    BY <1>1, <1>12, <1>13, <1>15 DEF TryInv

\* The counters move with what has been counted: a verdict starts them anew for
\* a task that has used up nothing, a run in vain moves from the row to them.
LEMMA ReplaceTries == ASSUME IInv, TryInv, NEW m \in Model, Replace(m) PROVE TryInv'
  <1>1. /\ TypeOK /\ proc = "up" /\ proc' = "up" /\ got[m] \in Class
        /\ UNCHANGED <<rows, starts, got>> /\ pc[m] = "replace"
        /\ tmp = rows /\ file' = rows
        /\ \A k \in Model : LaneTries(k) /\ LaneInv(k)
    BY DEF IInv, TypeOK, TryInv, Replace, At, LaneInv
  <1>2. /\ Granted' = Granted /\ Budget' = Budget /\ Granted \in Nat /\ Budget \in Nat
        /\ \A k \in Model, u \in Task :
             /\ Vain(rows, k, u) \in Nat /\ Vain(rows, k, u)' = Vain(rows, k, u)
             /\ Vain(file, k, u)' = Vain(rows, k, u)
    BY <1>1, BudgetFacts, VainType DEF Granted, Budget, Vain
  <1>3. ASSUME NEW k \in Model \ {m} PROVE LaneTries(k)'
    <2>1. /\ pc'[k] = pc[k] /\ pending'[k] = pending[k]
          /\ streak'[k] = streak[k] /\ cycles'[k] = cycles[k]
      BY <1>1 DEF TypeOK, Replace, Evidence, Retry, CircuitOpens, Goto
    <2> QED
      BY <1>1, <2>1, TriesKept
  <1> DEFINE c == cycles[m] * InfraThreshold
  <1>4. streak[m] < InfraThreshold /\ cycles[m] < MaxCycles /\ pending[m] \subseteq Task
    BY <1>1 DEF LaneInv, TypeOK
  <1>5. /\ c \in Nat /\ streak[m] \in Nat /\ InfraThreshold \in Nat /\ cycles[m] \in 0 .. MaxCycles
        /\ Used(m) = c + streak[m] + (IF got[m] \in INFRA THEN 1 ELSE 0)
    <2>1. c \in Nat /\ streak[m] \in Nat /\ InfraThreshold \in Nat
      BY <1>1, <1>4, UsedFits
    <2> QED
      BY <1>1, <2>1 DEF Used, TypeOK
  <1>6. \A u \in pending[m] :
          Vain(rows, m, u) <= Granted - Budget + (IF Current(m, u) THEN Used(m) ELSE 0)
    BY <1>1 DEF LaneTries
  <1>7. LaneTries(m)'
    <2>1. CASE Evidence(m)
      <3>1. /\ pc'[m] \in {"run", "done"} /\ streak'[m] = 0 /\ cycles'[m] = 0
            /\ pending'[m] = {u \in pending[m] : ~Current(m, u)}
        BY <1>1, <2>1 DEF Evidence, Goto, Left, TypeOK
      <3>2. Used(m)' = 0
        <4>1. 0 * InfraThreshold = 0
          BY <1>5
        <4> QED
          BY <3>1, <4>1 DEF Used
      <3>3. \A u \in pending'[m] : Vain(rows, m, u)' <= Granted' - Budget' + 0
        BY <1>2, <1>4, <1>6, <3>1
      <3>4. \A u \in pending'[m] :
              Vain(rows, m, u)' <= Granted' - Budget' + (IF Current(m, u)' THEN Used(m)' ELSE 0)
        BY <3>2, <3>3
      <3> QED
        BY <3>1, <3>4 DEF LaneTries
    <2>2. CASE Retry(m) \/ CircuitOpens(m)
      <3>1. got[m] \in INFRA /\ pending' = pending /\ pc'[m] \in {"run", "raised"}
        BY <1>1, <2>2 DEF Retry, CircuitOpens, Goto, TypeOK
      <3>2. CASE pc'[m] = "raised"
        BY <3>2 DEF LaneTries
      <3>3. CASE pc'[m] = "run"
        <4>1. Used(m)' = cycles'[m] * InfraThreshold + streak'[m] + 0
          BY <1>1, <3>3 DEF Used
        <4>2. CASE Retry(m)
          <5>1. cycles'[m] = cycles[m] /\ streak'[m] = streak[m] + 1
            BY <1>1, <4>2 DEF Retry, TypeOK
          <5>2. Used(m)' = c + (streak[m] + 1) + 0
            BY <4>1, <5>1
          <5> QED
            BY <1>2, <1>4, <1>5, <1>6, <3>1, <3>3, <5>2 DEF LaneTries, Current
        <4>3. CASE CircuitOpens(m)
          <5>1. ~LastCycle(m)
            BY <1>1, <3>3, <4>3 DEF CircuitOpens, Goto, TypeOK
          <5>2. /\ cycles'[m] = cycles[m] + 1 /\ streak'[m] = 0
                /\ streak[m] + 1 >= InfraThreshold
            BY <1>1, <4>3, <5>1 DEF CircuitOpens, TypeOK
          <5>3. (cycles[m] + 1) * InfraThreshold = c + InfraThreshold
            BY <1>1, <1>5, BudgetFacts
          <5>4. Used(m)' = c + InfraThreshold
            BY <1>5, <4>1, <5>2, <5>3
          <5>5. Used(m)' = Used(m)
            BY <1>4, <1>5, <3>1, <5>2, <5>4
          <5> QED
            BY <1>2, <1>4, <1>6, <3>1, <3>3, <5>5 DEF LaneTries, Current
        <4> QED
          BY <2>2, <4>2, <4>3
      <3> QED
        BY <3>1, <3>2, <3>3
    <2> QED
      BY <2>1, <2>2 DEF Replace
  <1>8. \A k \in Model, u \in Task : Vain(rows, k, u)' <= Granted' /\ Vain(file, k, u)' <= Granted'
    BY <1>2 DEF TryInv
  <1> QED
    BY <1>1, <1>3, <1>7, <1>8 DEF TryInv

\* Infrastructure failures are repeated, but no task of any panel is run in vain
\* more often than the limits of the starts allow together.
THEOREM RetriesAreBounded == Spec => []RetriesBounded
  <1>1. Init => TryInv
    <2> SUFFICES ASSUME Init PROVE TryInv
      OBVIOUS
    <2>1. Granted = 0
      BY StratAssumption DEF Init, Granted, Budget
    <2>2. \A m \in Model, t \in Task : Vain(rows, m, t) = 0 /\ Vain(file, m, t) = 0
      BY DEF Init, NoRows, Vain, Class, INFRA
    <2> QED
      BY <2>1, <2>2 DEF Init, TryInv
  <1>2. IInv /\ TryInv /\ [Next]_vars => TryInv'
    <2> SUFFICES ASSUME IInv, TryInv, [Next]_vars PROVE TryInv'
      OBVIOUS
    <2>1. CASE Crash \/ Join
      <3>1. UNCHANGED <<rows, file, starts>> /\ proc' # "up"
        BY <2>1 DEF Crash, Join, VerdictOf
      <3> QED
        BY <3>1, CountsKept DEF TryInv
    <2>2. CASE UNCHANGED vars
      <3>1. UNCHANGED <<rows, file, starts, pc, pending, got, streak, cycles, proc>>
        BY <2>2 DEF vars, laneVars
      <3> QED
        BY <3>1, CountsKept, TriesKept DEF TryInv
    <2> QED
      BY <2>1, <2>2, StartTries, LocalTries, BeginSaveTries, ReplaceTries DEF Next, Lane
  <1>3. IInv /\ TryInv => RetriesBounded
    <2> SUFFICES ASSUME IInv, TryInv, NEW m \in Model, NEW t \in Task
                 PROVE  rows[m][t]["INFRA_INVALID"] <= starts * MaxCycles * InfraThreshold
      BY DEF RetriesBounded
    <2>1. starts \in Nat /\ MaxCycles \in Nat /\ InfraThreshold \in Nat
      BY StratAssumption DEF IInv, TypeOK
    <2>2. Granted = starts * MaxCycles * InfraThreshold
      BY <2>1 DEF Granted, Budget
    <2> QED
      BY <2>2 DEF TryInv, Vain
  <1> QED
    BY <1>1, <1>2, <1>3, Invariance, PTL DEF Spec

-----------------------------------------------------------------------------
(* Progress of a lane.                                                     *)

\* No step of a started lane leaves it where it was: each uses up a task, a
\* cycle, a try or a step of the run.
THEOREM EveryLaneSpends == Spec => LaneSpends
  <1>1. IInv /\ [Next]_vars =>
          [\A m \in Model : pc'[m] # pc[m] /\ proc = "up" /\ proc' = "up" => Spends(m)]_vars
    <2> SUFFICES ASSUME IInv, Next, NEW m \in Model, pc'[m] # pc[m], proc = "up", proc' = "up"
                 PROVE  Spends(m)
      BY DEF vars
    <2>0. TypeOK /\ LaneInv(m)
      BY DEF IInv
    <2>1. PICK k \in Model : Lane(k)
      BY DEF Next, Start, Crash, Join, laneVars
    <2>2. k = m
      BY <2>0, <2>1 DEF TypeOK, Lane, LaneStart, Run, BeginSave, WriteTmp, Replace, Raise,
                        NoteError, Evidence, Retry, CircuitOpens, Goto
    <2>3. CASE LaneStart(m)
      BY <2>3 DEF LaneStart, At, Spends
    <2>4. CASE (\E c \in Class : Run(m, c)) \/ BeginSave(m) \/ WriteTmp(m) \/ Raise(m) \/ NoteError(m)
      <3>1. UNCHANGED <<pending, cycles, streak>>
        BY <2>4 DEF Run, BeginSave, WriteTmp, Raise, NoteError
      <3>2. \/ pc[m] = "run" /\ pc'[m] = "save"
            \/ pc[m] = "save" /\ pc'[m] = "write"
            \/ pc[m] = "write" /\ pc'[m] = "replace"
            \/ pc[m] \in {"run", "write", "replace"} /\ pc'[m] = "raised"
            \/ pc[m] = "raised" /\ pc'[m] = "failed"
        BY <2>0, <2>4 DEF Run, BeginSave, WriteTmp, Raise, NoteError, At, Goto, TypeOK
      <3>3. Place(pc'[m]) > Place(pc[m])
        BY <3>2 DEF Place
      <3> QED
        BY <3>1, <3>3 DEF Spends, Same
    <2>5. CASE Replace(m)
      <3>1. PICK t \in Task : Adds(m, t, got[m])
        BY <2>0, <2>5 DEF LaneInv, Replace, At
      <3>2. pending[m] = Task \ DoneIn(file, m)
        BY <2>0, <2>5 DEF LaneInv, Replace, At
      <3>3. CASE Evidence(m)
        <4>1. pending'[m] = {u \in pending[m] : ~Current(m, u)} /\ Current(m, t)
          BY <2>0, <3>1, <3>2, <3>3 DEF Evidence, TypeOK, Adds, Current
        <4> QED
          BY <4>1 DEF Spends, Current
      <3>4. CASE Retry(m)
        BY <2>0, <3>4 DEF Retry, Spends, Same, TypeOK
      <3>5. CASE CircuitOpens(m)
        <4>1. cycles'[m] = cycles[m] + 1 /\ pending' = pending /\ cycles[m] \in Nat
          BY <2>0, <3>5 DEF CircuitOpens, TypeOK
        <4> QED
          BY <4>1 DEF Spends, Same
      <3> QED
        BY <2>5, <3>3, <3>4, <3>5 DEF Replace
    <2> QED
      BY <2>1, <2>2, <2>3, <2>4, <2>5 DEF Lane
  <1> QED
    BY <1>1, Invariance, PTL DEF Spec, LaneSpends

-----------------------------------------------------------------------------
(* The scoreboard.                                                         *)

Bar == [m \in Model |-> [t \in Task |-> ScoreOf(m, t)]]

\* The tasks that the scoreboard has no verdict for.
LEMMA BarUnscored ==
  ASSUME TypeOK, NEW m \in Model
  PROVE  {t \in Task : Bar[m][t] = "none"} = Task \ DoneIn(file, m)
  BY DEF Bar, ScoreOf, DoneIn, VALID

\* What a saved row does to its model's scores.
LEMMA BarOfRow ==
  ASSUME IInv, NEW m \in Model, NEW t \in Task, NEW c \in Class, Adds(m, t, c),
         file' = rows
  PROVE  IF c \in VALID THEN Bar'[m] = [Bar[m] EXCEPT ![t] = c] ELSE Bar'[m] = Bar[m]
  <1>1. PlusOne(file[m], rows[m], t, c) /\ NoVerdict(file[m], t)
    BY AddsEffect DEF IInv
  <1>2. \A u \in Task, d \in Class : file[m][u][d] \in Nat
    BY DEF IInv, TypeOK, Rows
  <1>3. VALID \subseteq Class /\ {"SOLVED", "GENUINE_FAIL"} = VALID
    BY DEF VALID, Class
  <1>4. \A d \in VALID : file[m][t][d] = 0
    BY <1>1, <1>2, <1>3 DEF NoVerdict
  <1>5. \A u \in Task \ {t} : ScoreOf(m, u)' = ScoreOf(m, u)
    BY <1>1, <1>2, <1>3 DEF PlusOne, ScoreOf
  <1>6. ScoreOf(m, t)' = IF c \in VALID THEN c ELSE ScoreOf(m, t)
    <2>1. \A d \in VALID : rows[m][t][d] = IF d = c THEN 1 ELSE 0
      BY <1>1, <1>3, <1>4 DEF PlusOne
    <2> QED
      BY <1>3, <1>4, <2>1 DEF ScoreOf, VALID, Class
  <1>7. Bar'[m] = [u \in Task |-> ScoreOf(m, u)'] /\ Bar[m] = [u \in Task |-> ScoreOf(m, u)]
    BY DEF Bar
  <1>8. CASE c \in VALID
    BY <1>5, <1>6, <1>7, <1>8
  <1>9. CASE c \notin VALID
    BY <1>5, <1>6, <1>7, <1>9
  <1> QED
    BY <1>8, <1>9

\* A save gives some models the verdict of their next task and nothing else.
LEMMA SaveScores ==
  ASSUME IInv, NEW m \in Model, Replace(m)
  PROVE  \A k \in Model :
           \/ Bar'[k] = Bar[k]
           \/ \E t \in Task, v \in VALID :
                /\ t \in Task \ DoneIn(file, k)
                /\ \A u \in Task \ DoneIn(file, k) : t <= u
                /\ Bar'[k] = [Bar[k] EXCEPT ![t] = v]
  <1>1. file' = rows /\ \A k \in Model : LaneInv(k)
    BY DEF IInv, Replace, At, LaneInv
  <1> SUFFICES ASSUME NEW k \in Model
               PROVE  \/ Bar'[k] = Bar[k]
                      \/ \E t \in Task, v \in VALID :
                           /\ t \in Task \ DoneIn(file, k)
                           /\ \A u \in Task \ DoneIn(file, k) : t <= u
                           /\ Bar'[k] = [Bar[k] EXCEPT ![t] = v]
    OBVIOUS
  <1>2. rows[k] = file[k] \/ \E t \in Task, c \in Class : Adds(k, t, c)
    BY <1>1 DEF LaneInv, IInv, TypeOK
  <1>3. CASE rows[k] = file[k]
    BY <1>1, <1>3 DEF Bar, ScoreOf
  <1>4. ASSUME NEW t \in Task, NEW c \in Class, Adds(k, t, c)
        PROVE  \/ Bar'[k] = Bar[k]
               \/ \E u \in Task, v \in VALID :
                    /\ u \in Task \ DoneIn(file, k)
                    /\ \A w \in Task \ DoneIn(file, k) : u <= w
                    /\ Bar'[k] = [Bar[k] EXCEPT ![u] = v]
    <2>1. CASE c \in VALID
      <3>1. Bar'[k] = [Bar[k] EXCEPT ![t] = c]
        BY <1>1, <1>4, <2>1, BarOfRow
      <3>2. t \in Task \ DoneIn(file, k) /\ \A w \in Task \ DoneIn(file, k) : t <= w
        BY <1>4 DEF Adds
      <3> QED
        BY <2>1, <3>1, <3>2
    <2>2. CASE c \notin VALID
      BY <1>1, <1>4, <2>2, BarOfRow
    <2> QED
      BY <2>1, <2>2
  <1> QED
    BY <1>2, <1>3, <1>4

\* Every step of the campaign is a step of the scoreboard or leaves it alone.
LEMMA ScoreboardStep ==
  ASSUME IInv, [Next]_vars
  PROVE  [Board!Next]_<<Bar, proc = "complete">>
  <1>1. TypeOK
    BY DEF IInv
  <1>2. ASSUME file' = file PROVE Bar' = Bar
    BY <1>2 DEF Bar, ScoreOf
  <1>3. ASSUME NEW c \in Config, Start(c) PROVE Board!Reopen
    BY <1>2, <1>3 DEF Start, Board!Reopen, Bar
  <1>4. CASE Crash
    <2>1. Board!Reopen
      BY <1>2, <1>4 DEF Crash, Board!Reopen, Bar
    <2> QED
      BY <2>1 DEF Board!Next
  <1>5. CASE Join
    <2>1. UNCHANGED Bar
      BY <1>2, <1>5 DEF Join
    <2>2. CASE proc' = "complete"
      <3>1. \A m \in Model : DoneIn(file, m) = Task
        BY <1>5, <2>2 DEF Join, VerdictOf, IInv, LaneInv
      <3>2. \A m \in Model : {t \in Task : Bar[m][t] = "none"} = {}
        BY <1>1, <3>1, BarUnscored
      <3>3. Board!Announce
        BY <2>1, <2>2, <3>2 DEF Board!Announce, Board!Unscored, Bar
      <3> QED
        BY <3>3 DEF Board!Next
    <2>3. CASE proc' # "complete"
      <3>1. Board!Reopen
        BY <2>1, <2>3 DEF Board!Reopen, Bar
      <3> QED
        BY <3>1 DEF Board!Next
    <2> QED
      BY <2>2, <2>3
  <1>6. ASSUME NEW m \in Model,
               \/ LaneStart(m) \/ (\E c \in Class : Run(m, c)) \/ BeginSave(m)
               \/ WriteTmp(m) \/ Raise(m) \/ NoteError(m) \/ UNCHANGED vars
        PROVE  UNCHANGED <<Bar, proc = "complete">>
    <2>1. UNCHANGED <<file, proc>>
      BY <1>6 DEF LaneStart, Run, BeginSave, WriteTmp, Raise, NoteError, vars
    <2> QED
      BY <1>2, <2>1
  <1>7. ASSUME NEW m \in Model, Replace(m) PROVE Board!Score
    <2>1. \A k \in Model : {t \in Task : Bar[k][t] = "none"} = Task \ DoneIn(file, k)
      BY <1>1, BarUnscored
    <2>2. proc # "complete" /\ proc' = proc
      BY <1>7 DEF Replace, At
    <2>3. \A k \in Model :
            \/ Bar'[k] = Bar[k]
            \/ \E t \in Task, v \in VALID :
                 /\ t \in {u \in Task : Bar[k][u] = "none"}
                 /\ \A u \in {w \in Task : Bar[k][w] = "none"} : t <= u
                 /\ Bar'[k] = [Bar[k] EXCEPT ![t] = v]
      BY <1>7, <2>1, SaveScores
    <2>4. Bar' = [k \in Model |-> Bar'[k]]
      BY DEF Bar
    <2>5. \A k \in Model, t \in Task :
            Board!IsNext(k, t) <=>
              /\ t \in {u \in Task : Bar[k][u] = "none"}
              /\ \A u \in {w \in Task : Bar[k][w] = "none"} : t <= u
      BY DEF Board!IsNext, Board!Unscored, Bar
    <2>6. \A k \in Model :
            \/ Bar'[k] = Bar[k]
            \/ \E t \in Task, v \in VALID :
                 Board!IsNext(k, t) /\ Bar'[k] = [Bar[k] EXCEPT ![t] = v]
      BY <2>3, <2>5
    <2>7. (proc = "complete") = FALSE /\ UNCHANGED (proc = "complete")
      BY <2>2
    <2> QED
      BY <2>4, <2>6, <2>7, Zenon DEF Board!Score, Bar
  <1>8. CASE UNCHANGED vars
    BY <1>2, <1>8 DEF vars
  <1> QED
    BY <1>3, <1>4, <1>5, <1>6, <1>7, <1>8 DEF Next, Lane, Board!Next

\* The campaign implements the scoreboard: with crashes, failed saves and
\* restarts at any step, each model's tasks get their verdicts in the order of
\* the panel, once, and the campaign completes only with all of them.
THEOREM Refinement == Spec => ImplementsScoreboard
  <1>1. Init => Board!Init
    <2> SUFFICES ASSUME Init PROVE Board!Init
      OBVIOUS
    <2>1. \A m \in Model, t \in Task : ScoreOf(m, t) = "none"
      BY DEF Init, NoRows, ScoreOf, Class, VALID
    <2> QED
      BY <2>1 DEF Init, Board!Init
  <1>2. IInv /\ [Next]_vars => [Board!Next]_<<Bar, proc = "complete">>
    BY ScoreboardStep
  <1> QED
    BY <1>1, <1>2, Invariance, PTL DEF Spec, ImplementsScoreboard, Board!Spec, Bar
=============================================================================
