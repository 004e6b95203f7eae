-------------------------------- MODULE Cascade --------------------------------
(***************************************************************************)
(* The MiniMax complement cascade (scripts/run_minimax_complement_cascade  *)
(* .py) and its supervisor (scripts/supervise_minimax_complement_cascade   *)
(* .sh).  A runner takes the budget profiles in order and runs, in a pool  *)
(* of threads, every task that no cheaper profile solved and that has no   *)
(* row yet; it saves all rows after each task by overwriting one file.     *)
(* The supervisor starts a runner whenever none is alive, first without    *)
(* --execute and then with it, until the saved rows look complete.         *)
(*                                                                         *)
(* A row is "solved", "unsolved" (the model was asked) or "blank" (neither *)
(* a request nor a pass, which is_valid_model_row refuses).                *)
(***************************************************************************)
EXTENDS Naturals, FiniteSets

CONSTANTS
  Task,        \* complement_tasks()
  Profiles,    \* number of budget profiles, in the order of PROFILES
  Options,     \* settings of the runners: records of jobs (--jobs) and forever
               \* (--retry-forever)
  Retries,     \* --retries
  KillMax      \* bound: runners that are killed

ASSUME CascadeAssumption ==
  /\ Profiles \in Nat \ {0}
  /\ Options \subseteq [jobs : Nat \ {0}, forever : BOOLEAN]
  /\ Retries \in Nat /\ KillMax \in Nat

Key == (1 .. Profiles) \X Task

Valid == {"solved", "unsolved"}

VARIABLES
  file,      \* cascade_results.json: "absent", "whole", or "torn" while written
  saved,     \* the rows last written to it
  logs,      \* the run that <task>.stdout.txt of a profile points to
  reports,   \* the rows of the summary, events and combined files
  rows,      \* rows in the memory of the runner
  pc,        \* where the runner's main thread is
  execute,   \* whether it was started with --execute
  at,        \* the profile it is in
  work,      \* what its pool does with each task
  attempt,   \* runner_attempts of each task
  result,    \* the row that run_one_task builds
  sup,       \* the supervisor
  options,   \* the settings it gives to the runners
  kills      \* history: runners killed

runnerVars == <<rows, at, work, attempt, result>>

diskVars == <<file, saved, logs, reports>>

cascadeVars == <<diskVars, runnerVars, pc, execute, sup, options, kills>>

NoRows == [k \in Key |-> "none"]

NoReports == [k \in Key |-> "no file"]

Idle == [t \in Task |-> "idle"]

Init ==
  /\ file = "absent" /\ saved = NoRows /\ logs = NoRows /\ reports = NoReports
  /\ rows = NoRows /\ pc = "down" /\ execute = FALSE /\ at = 1
  /\ work = Idle
  /\ attempt = [t \in Task |-> 1]
  /\ result = [t \in Task |-> "none"]
  /\ sup = "watching"
  /\ options \in Options
  /\ kills = 0

HasBlank(table) == \E k \in Key : table[k] = "blank"

Solved(table, t) == \E p \in 1 .. Profiles : table[<<p, t>>] = "solved"

-----------------------------------------------------------------------------
(* The runner's main thread.                                               *)

\* The process is gone, with its pool.
Exit ==
  /\ pc' = "down"
  /\ work' = Idle
  /\ rows' = NoRows
  /\ UNCHANGED <<at, attempt, result>>

\* preflight_provider.
Preflight ==
  /\ pc = "preflight"
  /\ \/ pc' = "recover" /\ UNCHANGED runnerVars
     \/ Exit
  /\ UNCHANGED <<diskVars, execute, sup, options, kills>>

RecoveredMutant == saved

\* recover_rows: runs that were logged but not saved, then the saved rows.
Recovered ==
  [k \in Key |-> IF saved[k] # "none" THEN saved[k]
                 ELSE IF logs[k] \in Valid THEN logs[k] ELSE "none"]

\* A torn file cannot be parsed; a blank row stops the resume.
Recover ==
  /\ pc = "recover"
  /\ IF file = "torn" \/ HasBlank(Recovered) THEN Exit
     ELSE /\ rows' = Recovered
          /\ pc' = "profile"
          /\ at' = 1
          /\ UNCHANGED <<work, attempt, result>>
  /\ UNCHANGED <<diskVars, execute, sup, options, kills>>

PendingMutant == {t \in Task : rows[<<at, t>>] = "none"}

Pending ==
  {t \in Task : /\ \A p \in 1 .. at - 1 : rows[<<p, t>>] # "solved"
                /\ rows[<<at, t>>] = "none"}

OpenProfile ==
  /\ pc = "profile"
  /\ IF execute /\ Pending # {}
     THEN /\ work' = [t \in Task |-> IF t \in Pending THEN "queued" ELSE "idle"]
          /\ pc' = "pool"
     ELSE pc' = "save" /\ UNCHANGED work
  /\ UNCHANGED <<diskVars, rows, at, attempt, result, execute, sup, options, kills>>

\* as_completed gives the next row, which is saved with all the others.
Collect(t) ==
  /\ pc = "pool" /\ work[t] = "returned"
  /\ rows' = [rows EXCEPT ![<<at, t>>] = result[t]]
  /\ work' = [work EXCEPT ![t] = "idle"]
  /\ file' = "torn"
  /\ pc' = "saving"
  /\ UNCHANGED <<saved, logs, reports, at, attempt, result, execute, sup, options, kills>>

Saved ==
  /\ pc = "saving"
  /\ saved' = rows /\ file' = "whole"
  /\ pc' = "pool"
  /\ UNCHANGED <<logs, reports, runnerVars, execute, sup, options, kills>>

\* future.result() raises what the worker raised; leaving the pool still waits
\* for every task that was submitted, and drops what these return.  With one
\* job there is no pool and the rest is not run.
Raise(t) ==
  /\ pc = "pool" /\ work[t] = "raised"
  /\ IF options.jobs = 1 THEN Exit ELSE pc' = "draining" /\ UNCHANGED runnerVars
  /\ UNCHANGED <<diskVars, execute, sup, options, kills>>

InPool == {t \in Task : work[t] \in {"queued", "running"}}

Drained ==
  /\ pc = "draining" /\ InPool = {}
  /\ Exit
  /\ UNCHANGED <<diskVars, execute, sup, options, kills>>

PoolEnds ==
  /\ pc = "pool" /\ work = Idle
  /\ pc' = "save"
  /\ UNCHANGED <<diskVars, runnerVars, execute, sup, options, kills>>

\* The end of a profile: the rows once more ...
SaveProfile ==
  /\ pc = "save"
  /\ file' = "torn"
  /\ pc' = "saving profile"
  /\ UNCHANGED <<saved, logs, reports, runnerVars, execute, sup, options, kills>>

ProfileSaved ==
  /\ pc = "saving profile"
  /\ saved' = rows /\ file' = "whole"
  /\ pc' = "report"
  /\ UNCHANGED <<logs, reports, runnerVars, execute, sup, options, kills>>

\* ... then write_summary, write_events and write_combined, for all profiles.
Report ==
  /\ pc = "report"
  /\ reports' = rows
  /\ IF at < Profiles
     THEN at' = at + 1 /\ pc' = "profile" /\ UNCHANGED <<rows, work, attempt, result>>
     ELSE Exit
  /\ UNCHANGED <<file, saved, logs, execute, sup, options, kills>>

-----------------------------------------------------------------------------
(* run_one_task, in a thread of the pool.                                  *)

mainVars == <<rows, pc, at, execute, sup, options, kills>>

\* A worker takes the next task as long as the pool is open.
StartTask(t) ==
  /\ pc # "down" /\ work[t] = "queued"
  /\ Cardinality({u \in Task : work[u] = "running"}) < options.jobs
  /\ options.jobs = 1 => \A u \in Task : work[u] \notin {"returned", "raised"} /\ pc = "pool"
  /\ work' = [work EXCEPT ![t] = "running"]
  /\ attempt' = [attempt EXCEPT ![t] = 1]
  /\ result' = [result EXCEPT ![t] = "blank"]
  /\ UNCHANGED <<diskVars, mainVars>>

\* The logs of all attempts are written before the row is returned; the last
\* run directory in them is the one of the last attempt that printed one.
Return(t, row, seen) ==
  /\ work' = [work EXCEPT ![t] = "returned"]
  /\ result' = [result EXCEPT ![t] = row]
  /\ logs' = [logs EXCEPT ![<<at, t>>] = seen]
  /\ UNCHANGED <<attempt, file, saved, reports, mainVars>>

\* The run left a result that is not to be retried.
Answered(t, row) ==
  /\ work[t] = "running"
  /\ Return(t, row, row)

RetriesLeft(t) == attempt[t] <= Retries

\* The attempt is repeated; the row keeps what the last run directory said.
Again(t, row) ==
  /\ attempt' = [attempt EXCEPT ![t] = IF @ > Retries THEN @ ELSE @ + 1]
  /\ result' = [result EXCEPT ![t] = row]
  /\ UNCHANGED <<work, diskVars, mainVars>>

\* A retryable failure of harness or provider, with a run directory (row) or
\* without one (the row so far).
Retryable(t, row) ==
  /\ work[t] = "running"
  /\ IF options.forever \/ RetriesLeft(t) THEN Again(t, row) ELSE Return(t, row, row)

\* No run directory and no known reason.
Unexplained(t) ==
  /\ work[t] = "running"
  /\ IF RetriesLeft(t) THEN Again(t, result[t]) ELSE Return(t, result[t], result[t])

\* FatalProviderSetupError, before the logs are written.
SetupError(t) ==
  /\ work[t] = "running"
  /\ work' = [work EXCEPT ![t] = "raised"]
  /\ UNCHANGED <<attempt, result, diskVars, mainVars>>

AttemptEnds(t) ==
  \/ \E row \in {"solved", "unsolved", "blank"} : Answered(t, row) \/ Retryable(t, row)
  \/ Retryable(t, result[t])
  \/ Unexplained(t)
  \/ SetupError(t)

\* The runner is killed; the harness processes of its pool have sessions of
\* their own and run on, but nobody collects what they print.
Kill ==
  /\ pc # "down" /\ kills < KillMax
  /\ kills' = kills + 1
  /\ Exit
  /\ UNCHANGED <<diskVars, execute, sup, options>>

-----------------------------------------------------------------------------
(* The supervisor.                                                         *)

\* Only rows of the last profile count.
CompleteMutant ==
  /\ file = "whole"
  /\ ~HasBlank(saved)
  /\ \A t \in Task : saved[<<Profiles, t>>] # "none"

\* is_complete; the summary, once there, always has a line for every profile.
Complete ==
  /\ file = "whole" /\ reports # NoReports
  /\ ~HasBlank(saved)
  /\ \A t \in Task : Solved(saved, t) \/ saved[<<Profiles, t>>] # "none"

StartRunner(executing) ==
  /\ pc' = "preflight"
  /\ execute' = executing

Watch ==
  /\ sup = "watching"
  /\ IF Complete THEN sup' = "done" /\ UNCHANGED <<pc, execute>>
     ELSE /\ pc = "down"
          /\ StartRunner(FALSE)
          /\ sup' = "starting"
  /\ UNCHANGED <<diskVars, runnerVars, options, kills>>

\* The run without --execute is over, however it ended.
Launch ==
  /\ sup = "starting" /\ pc = "down"
  /\ StartRunner(TRUE)
  /\ sup' = "watching"
  /\ UNCHANGED <<diskVars, runnerVars, options, kills>>

RunnerStep ==
  \/ Preflight \/ Recover \/ OpenProfile \/ Saved \/ Drained \/ PoolEnds
  \/ SaveProfile \/ ProfileSaved \/ Report
  \/ \E t \in Task : Collect(t) \/ Raise(t) \/ StartTask(t)

Next ==
  \/ RunnerStep \/ Kill \/ Watch \/ Launch
  \/ \E t \in Task : AttemptEnds(t)

Spec == Init /\ [][Next]_cascadeVars

\* The provider answers eventually: a preflight that is tried again and again
\* passes at last, and so does every task.
FairSpec ==
  /\ Spec
  /\ WF_cascadeVars(RunnerStep) /\ WF_cascadeVars(Watch) /\ WF_cascadeVars(Launch)
  /\ SF_cascadeVars(execute /\ Preflight /\ pc' = "recover")
  /\ \A t \in Task : SF_cascadeVars(\E row \in Valid : Answered(t, row))

-----------------------------------------------------------------------------
(* Properties.                                                             *)

Table == [Key -> {"none", "solved", "unsolved", "blank"}]

TypeOK ==
  /\ file \in {"absent", "whole", "torn"}
  /\ saved \in Table /\ logs \in Table /\ rows \in Table
  /\ reports \in Table \cup {NoReports}
  /\ pc \in {"down", "preflight", "recover", "profile", "pool", "saving", "draining",
             "save", "saving profile", "report"}
  /\ execute \in BOOLEAN /\ at \in 1 .. Profiles
  /\ work \in [Task -> {"idle", "queued", "running", "returned", "raised"}]
  /\ attempt \in [Task -> 1 .. Retries + 1]
  /\ result \in [Task -> {"none", "solved", "unsolved", "blank"}]
  /\ sup \in {"watching", "starting", "done"}
  /\ options \in Options
  /\ kills \in 0 .. KillMax

\* A saved row is never lost or changed by a later runner, whatever was killed
\* and whether or not it executes: every writer has read all of them.
RowsNeverLost ==
  [][\A k \in Key : saved[k] # "none" => saved'[k] = saved[k]]_cascadeVars

Starts(t) == work[t] = "queued" /\ work'[t] = "running"

\* A run that was paid for is not repeated: a task is never started in a profile
\* where it has a saved row or the log of a run that counts, also when the
\* runner was killed between log and row or another task ended the pool.
EvidenceNotRepeated ==
  [][\A t \in Task : Starts(t) =>
       saved[<<at, t>>] = "none" /\ logs[<<at, t>>] \notin Valid]_cascadeVars

\* Budgets are tried from the cheapest on, across restarts: a task only runs in
\* a profile if every cheaper one has a saved row that does not solve it.
CheapestFirst ==
  \A t \in Task : work[t] = "running" =>
    \A p \in 1 .. at - 1 : saved[<<p, t>>] \in {"unsolved", "blank"}

\* What is paid for stays: rows survive every later writer, and no run whose
\* log or row counts is made again (recover_rows, as_completed, the supervisor).
EvidenceKept == RowsNeverLost /\ EvidenceNotRepeated

\* When the supervisor leaves, no task is waiting or running, and unless a
\* runner was killed the reports are, once the runner is gone, those of the
\* saved rows.
DoneIsDone ==
  sup = "done" => /\ InPool = {}
                  /\ pc = "down" /\ kills = 0 => reports = saved

\* Profiles, pools and restarts follow the order of the budgets, and the
\* supervisor leaves nothing behind (execute, is_complete).
CascadeInOrder == TypeOK /\ CheapestFirst /\ DoneIsDone

\* The cascade completes, except that a saved row without any evidence or a
\* results file that a kill left half written stops every later runner.
CascadeEnds == <>[](sup = "done" \/ HasBlank(saved) \/ file = "torn")
=============================================================================
