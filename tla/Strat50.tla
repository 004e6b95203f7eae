------------------------------- MODULE Strat50 -------------------------------
(***************************************************************************)
(* The campaign of scripts/run_strat50.py: one lane per model runs the     *)
(* panel's tasks in order, one scored run (ScoredTask) after the other,    *)
(* appends a row for each and saves all rows to results.json.  A run that  *)
(* was no evidence is repeated, up to a limit that ends the lane.  The     *)
(* campaign may be killed at any step and started again on what it saved.  *)
(***************************************************************************)
EXTENDS Naturals, FiniteSets

CONSTANTS
  Model,          \* args.models
  Size,           \* the number of tasks of the panel (50)
  Config,         \* the settings that cohort.json records
  InfraThreshold, \* args.infra_threshold
  MaxCycles,      \* args.max_recovery_cycles
  None,           \* no lane, no cohort
  Torn,           \* the content of a file that is being written
  MaxStarts       \* bound: how often the campaign is started

ASSUME StratAssumption ==
  /\ {Size, InfraThreshold, MaxCycles} \subseteq Nat \ {0}
  /\ MaxStarts \in Nat
  /\ None \notin Model \cup Config
  /\ Torn \notin [Model -> [1 .. Size -> [{"SOLVED", "GENUINE_FAIL", "INFRA_INVALID"} -> Nat]]]

VARIABLES
  proc,     \* "down", "up", "failed", "complete"
  starts,   \* how often the campaign was started
  cohort,   \* cohort.json
  file,     \* results.json: how many rows each model's task has of each class
  tmp,      \* results.json.tmp
  rows,     \* the list in memory
  lock,     \* the lane in save
  pc,       \* lane: "start", "run", "save", "write", "replace", "raised", ...
  pending,  \* lane: the tasks that are not done; the least one is current
  got,      \* lane: the class of the last run
  streak,   \* lane: consecutive runs that were no evidence
  cycles,   \* lane: recovery_cycles
  authors   \* history: the settings under which rows were made

laneVars == <<pc, pending, got, streak, cycles>>

vars == <<proc, starts, cohort, file, tmp, rows, lock, laneVars, authors>>

Task == 1 .. Size

VALID == {"SOLVED", "GENUINE_FAIL"}

INFRA == {"INFRA_INVALID"}

Class == VALID \cup INFRA

NoRows == [m \in Model |-> [t \in Task |-> [c \in Class |-> 0]]]

Init ==
  /\ proc = "down"
  /\ starts = 0
  /\ cohort = None
  /\ file = NoRows
  /\ tmp = Torn
  /\ rows = NoRows
  /\ lock = None
  /\ pc = [m \in Model |-> "start"]
  /\ pending = [m \in Model |-> {}]
  /\ got = [m \in Model |-> "INFRA_INVALID"]
  /\ streak = [m \in Model |-> 0]
  /\ cycles = [m \in Model |-> 0]
  /\ authors = {}

-----------------------------------------------------------------------------
(* The campaign.                                                           *)

Compatible(c) == cohort \in {c, None} /\ (file # NoRows => cohort # None)

LoadedMutant == NoRows

\* The rows that a start reads; a missing file has none.
Loaded == file

\* main, up to the start of the lanes.
Start(c) ==
  /\ proc # "up" /\ starts < MaxStarts
  /\ Compatible(c) /\ file # Torn
  /\ proc' = "up"
  /\ starts' = starts + 1
  /\ cohort' = c
  /\ rows' = Loaded
  /\ pc' = [m \in Model |-> "start"]
  /\ streak' = [m \in Model |-> 0]
  /\ cycles' = [m \in Model |-> 0]
  /\ UNCHANGED <<file, tmp, lock, pending, got, authors>>

\* The campaign is killed: what is in memory is lost.
Crash ==
  /\ proc = "up"
  /\ proc' = "down"
  /\ lock' = None
  /\ UNCHANGED <<starts, cohort, file, tmp, rows, laneVars, authors>>

VerdictOf(failed) == IF failed = {} THEN "complete" ELSE "failed"

\* All lanes have ended; one that failed makes the campaign fail.
Join ==
  /\ proc = "up"
  /\ \A m \in Model : pc[m] \in {"done", "failed"}
  /\ proc' = VerdictOf({m \in Model : pc[m] = "failed"})
  /\ UNCHANGED <<starts, cohort, file, tmp, rows, lock, laneVars, authors>>

-----------------------------------------------------------------------------
(* A lane.                                                                 *)

At(m, p) == proc = "up" /\ pc[m] = p

Goto(m, p) == pc' = [pc EXCEPT ![m] = p]

DoneMutant(m) == {t \in Task : rows[m][t]["SOLVED"] > 0}

\* The tasks of model m that have a verdict.
Done(m) == {t \in Task : \E c \in VALID : rows[m][t][c] > 0}

\* Whether t is the task that the lane runs.
Current(m, t) == t \in pending[m] /\ \A u \in pending[m] : t <= u

Left(m) == IF pending'[m] = {} THEN "done" ELSE "run"

LaneStart(m) ==
  /\ At(m, "start") /\ lock = None
  /\ pending' = [pending EXCEPT ![m] = Task \ Done(m)]
  /\ Goto(m, Left(m))
  /\ UNCHANGED <<proc, starts, cohort, file, tmp, rows, lock, got, streak, cycles,
                 authors>>

\* harness.cli run-task; a run that times out or leaves no run.json is
\* INFRA_INVALID.
Run(m, c) ==
  /\ At(m, "run")
  /\ got' = [got EXCEPT ![m] = c]
  /\ Goto(m, "save")
  /\ UNCHANGED <<proc, starts, cohort, file, tmp, rows, lock, pending, streak, cycles,
                 authors>>

\* save: the row is appended and the temporary file opened.
BeginSave(m) ==
  /\ At(m, "save") /\ lock = None
  /\ lock' = m
  /\ \E t \in Task :
       Current(m, t) /\ rows' = [rows EXCEPT ![m][t][got[m]] = @ + 1]
  /\ tmp' = Torn
  /\ authors' = authors \cup {cohort}
  /\ Goto(m, "write")
  /\ UNCHANGED <<proc, starts, cohort, file, pending, got, streak, cycles>>

WriteTmp(m) ==
  /\ At(m, "write")
  /\ tmp' = rows
  /\ Goto(m, "replace")
  /\ UNCHANGED <<proc, starts, cohort, file, rows, lock, pending, got, streak, cycles,
                 authors>>

EvidenceMutant(m) ==
  /\ got[m] \notin INFRA
  /\ streak' = [streak EXCEPT ![m] = 0]
  /\ cycles' = [cycles EXCEPT ![m] = 0]
  /\ UNCHANGED pending
  /\ Goto(m, Left(m))

Evidence(m) ==
  /\ got[m] \notin INFRA
  /\ streak' = [streak EXCEPT ![m] = 0]
  /\ cycles' = [cycles EXCEPT ![m] = 0]
  /\ pending' = [pending EXCEPT ![m] = {t \in @ : ~Current(m, t)}]
  /\ Goto(m, Left(m))

Retry(m) ==
  /\ got[m] \in INFRA /\ streak[m] + 1 < InfraThreshold
  /\ streak' = [streak EXCEPT ![m] = @ + 1]
  /\ Goto(m, "run")
  /\ UNCHANGED <<pending, cycles>>

LastCycleMutant(m) == cycles[m] > MaxCycles

\* Whether the circuit has now opened as often as it may.
LastCycle(m) == cycles[m] + 1 >= MaxCycles

\* The circuit opens: the lane waits and probes the task again, or gives up.
CircuitOpens(m) ==
  /\ got[m] \in INFRA /\ streak[m] + 1 >= InfraThreshold
  /\ cycles' = [cycles EXCEPT ![m] = @ + 1]
  /\ streak' = [streak EXCEPT ![m] = IF LastCycle(m) THEN @ + 1 ELSE 0]
  /\ Goto(m, IF LastCycle(m) THEN "raised" ELSE "run")
  /\ UNCHANGED pending

\* The end of save, and what the lane does with the class of the run.
Replace(m) ==
  /\ At(m, "replace")
  /\ file' = tmp
  /\ tmp' = Torn
  /\ lock' = None
  /\ Evidence(m) \/ Retry(m) \/ CircuitOpens(m)
  /\ UNCHANGED <<proc, starts, cohort, rows, got, authors>>

UnlockMutant(m) == lock

Unlock(m) == IF lock = m THEN None ELSE lock

\* An exception in the run or while saving: the row stays in memory.
Raise(m) ==
  /\ \E p \in {"run", "write", "replace"} : At(m, p)
  /\ lock' = Unlock(m)
  /\ Goto(m, "raised")
  /\ UNCHANGED <<proc, starts, cohort, file, tmp, rows, pending, got, streak, cycles,
                 authors>>

\* guarded_lane notes the exception, under the lock.
NoteError(m) ==
  /\ At(m, "raised") /\ lock = None
  /\ Goto(m, "failed")
  /\ UNCHANGED <<proc, starts, cohort, file, tmp, rows, lock, pending, got, streak,
                 cycles, authors>>

Lane(m) ==
  \/ LaneStart(m)
  \/ \E c \in Class : Run(m, c)
  \/ BeginSave(m)
  \/ WriteTmp(m)
  \/ Replace(m)
  \/ Raise(m)
  \/ NoteError(m)

Next ==
  \/ \E c \in Config : Start(c)
  \/ Crash
  \/ Join
  \/ \E m \in Model : Lane(m)

Spec == Init /\ [][Next]_vars

-----------------------------------------------------------------------------
(* Properties.                                                             *)

Rows == [Model -> [Task -> [Class -> Nat]]]

TypeOK ==
  /\ proc \in {"down", "up", "failed", "complete"}
  /\ starts \in 0 .. MaxStarts
  /\ cohort \in Config \cup {None}
  /\ file \in Rows
  /\ tmp \in Rows \cup {Torn}
  /\ rows \in Rows
  /\ lock \in Model \cup {None}
  /\ pc \in [Model -> {"start", "run", "save", "write", "replace", "raised",
                       "done", "failed"}]
  /\ pending \in [Model -> SUBSET Task]
  /\ got \in [Model -> Class]
  /\ streak \in [Model -> 0 .. InfraThreshold]
  /\ cycles \in [Model -> 0 .. MaxCycles]
  /\ authors \subseteq Config

\* A model has one try at a task: no crash, restart, failed save or retry gives
\* a task two verdicts, whatever the first one was.
OneVerdict ==
  \A m \in Model, t \in Task, c, d \in VALID :
    rows[m][t][c] + (IF c = d THEN 0 ELSE rows[m][t][d]) <= 1

\* Infrastructure failures are retried, but not for ever: a task is run in vain
\* at most MaxCycles * InfraThreshold times per start of the campaign.
RetriesBounded ==
  \A m \in Model, t \in Task :
    rows[m][t]["INFRA_INVALID"] <= starts * MaxCycles * InfraThreshold

\* "output directory belongs to an incompatible cohort": all rows of a results
\* file were made under the settings that cohort.json records.
OneCohort == authors \subseteq {cohort}

\* The lock around save belongs to a lane that is in save: one that fails there
\* gives it back before guarded_lane takes it again to note the error.
LockIsHeld == lock # None => proc = "up" /\ pc[lock] \in {"write", "replace"}

\* results.json can be read at every moment, holds the rows of one cohort, and
\* no lane waits for a lock that nobody is going to release.
CampaignSound == TypeOK /\ OneCohort /\ LockIsHeld

\* The places of a lane in the order of one run.
Place(p) ==
  CASE p = "start" -> 0 [] p = "run" -> 1 [] p = "save" -> 2 [] p = "write" -> 3
    [] p = "replace" -> 4 [] p = "raised" -> 5 [] OTHER -> 6

Same(f, m) == f'[m] = f[m]

\* Settling a task comes before opening the circuit, which comes before one more
\* run, which comes before the next step of the run.
Spends(m) ==
  \/ pc[m] = "start"
  \/ pending'[m] # pending[m] /\ pending'[m] \subseteq pending[m]
  \/ Same(pending, m) /\ cycles'[m] > cycles[m]
  \/ Same(pending, m) /\ Same(cycles, m) /\ streak'[m] > streak[m]
  \/ /\ Same(pending, m) /\ Same(cycles, m) /\ Same(streak, m)
     /\ Place(pc'[m]) > Place(pc[m])

\* No lane goes round for nothing, whatever its runs and its saves come to: each
\* step of a started lane uses up a task, a recovery cycle, a try or a step of the
\* run, which the code bounds each.  With a scheduler that runs every thread, a
\* campaign therefore ends.
LaneSpends ==
  [][\A m \in Model : pc'[m] # pc[m] /\ proc = "up" /\ proc' = "up" => Spends(m)]_vars

\* The verdict of a task in results.json.
ScoreOf(m, t) ==
  IF file[m][t]["SOLVED"] > 0 THEN "SOLVED"
  ELSE IF file[m][t]["GENUINE_FAIL"] > 0 THEN "GENUINE_FAIL" ELSE "none"

Board == INSTANCE Scoreboard WITH
  Verdict <- VALID,
  score <- [m \in Model |-> [t \in Task |-> ScoreOf(m, t)]],
  announced <- proc = "complete"

\* results.json is the scoreboard of the panel: "Run tasks sequentially per
\* model", "Publish only after 50 distinct terminal verifier verdicts", and no
\* verdict that was saved is ever lost or changed.
ImplementsScoreboard == Board!Spec
=============================================================================
