---------------------------- MODULE Cascade_proofs ----------------------------
(***************************************************************************)
(* Proofs about Cascade for any tasks, profiles, options and kills: saved  *)
(* rows are never lost, no run that counts is repeated, budgets are tried  *)
(* from the cheapest on, and the supervisor leaves nothing behind.  The    *)
(* heart is how three copies of the truth are related, the rows in memory, *)
(* the rows in the file and the logs: once a runner has recovered, memory  *)
(* has what the file has, a log that counts is in memory or about to be,   *)
(* and whatever exists for a profile rests on saved rows of all cheaper    *)
(* ones.                                                                   *)
(***************************************************************************)
EXTENDS Cascade, TLAPS

Profile == 1 .. Profiles

\* The runner has recovered its rows.
Past == {"profile", "pool", "saving", "draining", "save", "saving profile", "report"}

Failed == {"unsolved", "blank"}

\* No task is left to run, as far as the saved rows say.
Covered == \A t \in Task : Solved(saved, t) \/ saved[<<Profiles, t>>] # "none"

\* A task that is in the pool has no row in this profile and failed in all
\* cheaper ones that have a row.
PoolInv ==
  \A t \in Task :
    /\ work[t] # "idle" =>
         /\ pc \in {"pool", "saving", "draining"} /\ execute
         /\ rows[<<at, t>>] = "none"
         /\ \A q \in 1 .. at - 1 : rows[<<q, t>>] # "solved"
    /\ work[t] \in {"running", "returned"} => result[t] # "none"

\* The rows in memory contain those of the file, and agree with it on the
\* profiles that are over.
MemoryInv ==
  /\ pc \in Past => \A k \in Key : saved[k] # "none" => rows[k] = saved[k]
  /\ pc \in Past => \A p \in 1 .. at - 1, t \in Task : saved[<<p, t>>] = rows[<<p, t>>]
  /\ pc = "report" => saved = rows

\* A run that was logged and counts has a row, or is about to be collected.
LogInv ==
  pc \in Past =>
    \A p \in Profile, t \in Task :
      logs[<<p, t>>] \in Valid => rows[<<p, t>>] # "none" \/ (p = at /\ work[t] = "returned")

\* Every task has a row in profile p, or a cheaper one solved it.
Settled(p, t) == rows[<<p, t>>] # "none" \/ \E q \in 1 .. p - 1 : rows[<<q, t>>] = "solved"

\* The profiles that are over are settled, the current one except for the pool.
ProfileInv ==
  pc \in Past /\ execute =>
    \A t \in Task :
      /\ \A p \in 1 .. at - 1 : Settled(p, t)
      /\ pc \in {"save", "saving profile", "report"} => Settled(at, t)
      /\ pc \in {"pool", "saving"} /\ work[t] = "idle" => Settled(at, t)

\* What exists for a profile rests on the saved failures of all cheaper ones.
OrderInv ==
  \A p \in Profile, t \in Task :
    \/ logs[<<p, t>>] # "none" \/ saved[<<p, t>>] # "none"
    \/ pc \in Past /\ rows[<<p, t>>] # "none"
    => \A q \in 1 .. p - 1 : saved[<<q, t>>] \in Failed

\* The supervisor's verdict stays true; a runner that ends without a report
\* does so before it changed a row or with a task that has none.
SupervisorInv ==
  /\ sup = "done" => Covered /\ work = Idle
  /\ pc \in {"down", "preflight", "recover"} /\ kills = 0 /\ Covered => reports = saved
  /\ pc = "draining" => \E t \in Task : work[t] = "raised"

IInv ==
  /\ TypeOK
  /\ PoolInv /\ MemoryInv /\ LogInv /\ ProfileInv /\ OrderInv /\ SupervisorInv

-----------------------------------------------------------------------------
(* Type correctness.                                                       *)

\* The rows, logs and reports are tables with one cell per profile and task.
LEMMA Cells ==
  /\ \A p \in Profile, t \in Task : <<p, t>> \in Key
  /\ NoRows \in Table
  BY DEF Key, Profile, Table, NoRows

\* Writing a cell leaves a table.
LEMMA SetCell ==
  ASSUME NEW f \in Table, NEW p \in Profile, NEW t \in Task,
         NEW v \in {"none", "solved", "unsolved", "blank"}
  PROVE  [f EXCEPT ![<<p, t>>] = v] \in Table
  BY Cells DEF Table

\* What Recover reads.
LEMMA RecoveredType == ASSUME TypeOK PROVE Recovered \in Table
  BY DEF Recovered, TypeOK, Table, Valid

\* The counters and their bounds.
LEMMA Numbers ==
  ASSUME TypeOK
  PROVE  /\ Retries \in Nat /\ attempt \in [Task -> 1 .. Retries + 1]
         /\ KillMax \in Nat /\ kills \in 0 .. KillMax
         /\ Profiles \in Nat /\ Profiles >= 1 /\ at \in Profile
  <1>1. Retries \in Nat /\ KillMax \in Nat /\ Profiles \in Nat /\ Profiles # 0
    BY CascadeAssumption
  <1>2. /\ attempt \in [Task -> 1 .. Retries + 1] /\ kills \in 0 .. KillMax
        /\ at \in Profile
    BY DEF TypeOK, Profile
  <1> QED
    BY <1>1, <1>2

\* The profiles below one.
LEMMA Below ==
  ASSUME TypeOK
  PROVE  \A p \in Profile :
           /\ 1 .. p - 1 \subseteq Profile /\ p \notin 1 .. p - 1
           /\ \A q \in 1 .. p - 1 : 1 .. q - 1 \subseteq 1 .. p - 1
  <1>1. Profiles \in Nat
    BY Numbers
  <1> SUFFICES ASSUME NEW p \in Profile
               PROVE  /\ 1 .. p - 1 \subseteq Profile /\ p \notin 1 .. p - 1
                      /\ \A q \in 1 .. p - 1 : 1 .. q - 1 \subseteq 1 .. p - 1
    OBVIOUS
  <1>2. p \in Nat /\ p <= Profiles
    BY <1>1 DEF Profile
  <1> QED
    BY <1>1, <1>2 DEF Profile

\* One more attempt, or the first of a task.
LEMMA AttemptType ==
  ASSUME Retries \in Nat, attempt \in [Task -> 1 .. Retries + 1], NEW t \in Task
  PROVE  /\ [attempt EXCEPT ![t] = 1] \in [Task -> 1 .. Retries + 1]
         /\ [attempt EXCEPT ![t] = IF @ > Retries THEN @ ELSE @ + 1] \in [Task -> 1 .. Retries + 1]
  OBVIOUS

\* One more kill.
LEMMA KillType ==
  ASSUME KillMax \in Nat, kills \in 0 .. KillMax, kills < KillMax
  PROVE  kills + 1 \in 0 .. KillMax
  OBVIOUS

\* Every step keeps the types.
LEMMA TypeStep == ASSUME TypeOK, [Next]_cascadeVars PROVE TypeOK'
  <1> USE CascadeAssumption DEF TypeOK
  <1>0. at \in Profile
    BY DEF Profile
  <1>1. ASSUME Exit,
               UNCHANGED <<diskVars, execute, sup, options>>,
               kills' \in 0 .. KillMax
        PROVE  TypeOK'
    BY <1>1, Cells DEF Exit, diskVars, Idle
  <1>2. CASE Preflight
    <2>1. CASE Exit
      BY <1>1, <1>2, <2>1 DEF Preflight
    <2>2. CASE pc' = "recover" /\ UNCHANGED runnerVars
      BY <1>2, <2>2 DEF Preflight, runnerVars, diskVars
    <2> QED
      BY <1>2, <2>1, <2>2 DEF Preflight
  <1>3. CASE Recover
    <2>1. CASE Exit
      BY <1>1, <1>3, <2>1 DEF Recover
    <2>2. CASE ~(file = "torn" \/ HasBlank(Recovered))
      BY <1>3, <2>2, RecoveredType DEF Recover, diskVars
    <2> QED
      BY <1>3, <2>1, <2>2 DEF Recover
  <1>4. CASE OpenProfile \/ Saved \/ PoolEnds \/ SaveProfile \/ ProfileSaved
    BY <1>4 DEF OpenProfile, Saved, PoolEnds, SaveProfile, ProfileSaved, runnerVars,
                diskVars
  <1>5. CASE Report
    <2>1. CASE at < Profiles
      BY <1>5, <2>1 DEF Report
    <2>2. CASE ~(at < Profiles)
      BY <1>5, <2>2, Cells DEF Report, Exit, Idle
    <2> QED
      BY <2>1, <2>2
  <1>6. CASE Drained
    BY <1>1, <1>6 DEF Drained
  <1>7. ASSUME NEW t \in Task, Collect(t) PROVE TypeOK'
    <2>1. rows' \in Table
      BY <1>0, <1>7, SetCell DEF Collect
    <2> QED
      BY <1>7, <2>1 DEF Collect
  <1>8. ASSUME NEW t \in Task, Raise(t) PROVE TypeOK'
    <2>1. CASE options.jobs = 1
      BY <1>1, <1>8, <2>1 DEF Raise
    <2>2. CASE options.jobs # 1
      <3>1. pc' = "draining" /\ UNCHANGED runnerVars /\ UNCHANGED <<diskVars, execute, sup, options, kills>>
        BY <1>8, <2>2 DEF Raise
      <3> QED
        BY <3>1 DEF diskVars, runnerVars
    <2> QED
      BY <2>1, <2>2
  <1>9. ASSUME NEW t \in Task, StartTask(t) PROVE TypeOK'
    <2>1. /\ UNCHANGED <<diskVars, mainVars>>
          /\ work' = [work EXCEPT ![t] = "running"]
          /\ attempt' = [attempt EXCEPT ![t] = 1]
          /\ result' = [result EXCEPT ![t] = "blank"]
      BY <1>9 DEF StartTask
    <2>2. attempt' \in [Task -> 1 .. Retries + 1]
      BY <2>1, Numbers, AttemptType
    <2> QED
      BY <2>1, <2>2 DEF diskVars, mainVars
  <1>10. ASSUME NEW t \in Task, AttemptEnds(t) PROVE TypeOK'
    <2>1. ASSUME NEW row \in {"none", "solved", "unsolved", "blank"}, Return(t, row, row) PROVE TypeOK'
      <3>1. logs' \in Table
        BY <1>0, <2>1, SetCell DEF Return
      <3> QED
        BY <2>1, <3>1 DEF Return, mainVars
    <2>2. ASSUME NEW row \in {"none", "solved", "unsolved", "blank"}, Again(t, row) PROVE TypeOK'
      <3>1. /\ UNCHANGED <<work, diskVars, mainVars>>
            /\ attempt' = [attempt EXCEPT ![t] = IF @ > Retries THEN @ ELSE @ + 1]
            /\ result' = [result EXCEPT ![t] = row]
        BY <2>2 DEF Again
      <3>2. attempt' \in [Task -> 1 .. Retries + 1]
        BY <3>1, Numbers, AttemptType
      <3> QED
        BY <3>1, <3>2 DEF mainVars, diskVars
    <2>3. CASE SetupError(t)
      BY <2>3 DEF SetupError, mainVars, diskVars
    <2> QED
      BY <1>10, <2>1, <2>2, <2>3 DEF AttemptEnds, Answered, Retryable, Unexplained
  <1>11. CASE Kill
    <2>1. kills' \in 0 .. KillMax
      BY <1>11, Numbers, KillType DEF Kill
    <2> QED
      BY <1>1, <1>11, <2>1 DEF Kill
  <1>12. CASE Watch \/ Launch
    BY <1>12 DEF Watch, Launch, StartRunner, diskVars, runnerVars
  <1>13. CASE UNCHANGED cascadeVars
    BY <1>13 DEF cascadeVars, diskVars, runnerVars
  <1> QED
    BY <1>2, <1>3, <1>4, <1>5, <1>6, <1>7, <1>8, <1>9, <1>10, <1>11, <1>12, <1>13
       DEF Next, RunnerStep

-----------------------------------------------------------------------------
(* What is settled stays settled.                                          *)

\* A task that may still run has no saved row that makes it complete.
LEMMA OpenIsUncovered ==
  ASSUME TypeOK, MemoryInv, OrderInv, pc \in Past, NEW t \in Task,
         rows[<<at, t>>] = "none", \A q \in 1 .. at - 1 : rows[<<q, t>>] # "solved"
  PROVE  ~Covered
  <1>1. Profiles \in Nat /\ at \in Nat /\ 1 <= at /\ at <= Profiles
    BY Numbers DEF Profile
  <1>2. saved[<<at, t>>] = "none"
    BY <1>1, Cells DEF MemoryInv, Profile
  <1>3. ASSUME NEW p \in Profile, p > at PROVE saved[<<p, t>>] = "none"
    <2>1. at \in 1 .. p - 1
      BY <1>1, <1>3 DEF Profile
    <2> QED
      BY <1>2, <2>1 DEF OrderInv, Failed
  <1>4. ASSUME NEW p \in 1 .. at - 1 PROVE saved[<<p, t>>] # "solved"
    BY DEF MemoryInv
  <1>5. \A p \in Profile : p > at \/ p = at \/ p \in 1 .. at - 1
    BY <1>1 DEF Profile
  <1>6. ~Solved(saved, t)
    BY <1>2, <1>3, <1>4, <1>5 DEF Solved, Profile
  <1>7. saved[<<Profiles, t>>] = "none"
    BY <1>1, <1>2, <1>3 DEF Profile
  <1> QED
    BY <1>6, <1>7 DEF Covered

\* A runner writes what it has read, and more.
LEMMA CoveredKept ==
  ASSUME Covered, \A k \in Key : saved[k] # "none" => saved'[k] = saved[k], TypeOK
  PROVE  Covered'
  <1>1. ASSUME NEW t \in Task PROVE (Solved(saved, t) \/ saved[<<Profiles, t>>] # "none")'
    <2>1. Solved(saved, t) \/ saved[<<Profiles, t>>] # "none"
      BY DEF Covered
    <2>2. Profiles \in Profile
      BY Numbers DEF Profile
    <2>3. \A p \in Profile : saved[<<p, t>>] # "none" => saved'[<<p, t>>] = saved[<<p, t>>]
      BY Cells
    <2> QED
      BY <2>1, <2>2, <2>3 DEF Solved, Profile
  <1> QED
    BY <1>1 DEF Covered

-----------------------------------------------------------------------------
(* The runner comes and goes.                                              *)

\* The runner ends, with the reports of what it saved unless it did not save
\* anything, was killed or leaves a task behind.
LEMMA ExitStep ==
  ASSUME IInv, TypeOK', pc' = "down", work' = Idle, UNCHANGED <<saved, logs, sup>>,
         kills' = 0 /\ Covered => reports' = saved
  PROVE  IInv'
  <1>1. Covered' <=> Covered
    BY DEF Covered, Solved
  <1>2. PoolInv'
    BY DEF PoolInv, Idle
  <1>3. MemoryInv' /\ LogInv' /\ ProfileInv'
    BY DEF MemoryInv, LogInv, ProfileInv, Past
  <1>4. OrderInv'
    BY DEF IInv, OrderInv, Past
  <1>5. SupervisorInv'
    BY <1>1 DEF IInv, SupervisorInv
  <1> QED
    BY <1>2, <1>3, <1>4, <1>5 DEF IInv

\* Before the rows are recovered, nothing but the place changes.
LEMMA EarlyStep ==
  ASSUME IInv, [Next]_cascadeVars, UNCHANGED <<diskVars, runnerVars, kills>>,
         pc \in {"down", "preflight"}, pc' \in {"preflight", "recover"},
         sup' = "done" => sup = "done"
  PROVE  IInv'
  <1>1. TypeOK' /\ UNCHANGED <<saved, logs, reports, rows, work, at, result, kills>>
    BY TypeStep DEF IInv, diskVars, runnerVars
  <1>2. Covered' <=> Covered
    BY <1>1 DEF Covered, Solved
  <1>3. \A t \in Task : work[t] = "idle"
    BY DEF IInv, PoolInv, TypeOK
  <1>4. PoolInv'
    BY <1>1, <1>3 DEF PoolInv
  <1>5. MemoryInv' /\ LogInv' /\ ProfileInv'
    BY DEF MemoryInv, LogInv, ProfileInv, Past
  <1>6. OrderInv'
    BY <1>1 DEF IInv, OrderInv, Past
  <1>7. SupervisorInv'
    BY <1>1, <1>2 DEF IInv, SupervisorInv
  <1> QED
    BY <1>1, <1>4, <1>5, <1>6, <1>7 DEF IInv

\* The supervisor finds the saved rows complete: no runner has anything to run.
LEMMA WatchStep == ASSUME IInv, Watch PROVE IInv'
  <1>1. CASE ~Complete
    <2>1. /\ pc = "down" /\ pc' = "preflight" /\ sup' = "starting"
          /\ UNCHANGED <<diskVars, runnerVars, kills>>
      BY <1>1 DEF Watch, StartRunner
    <2> QED
      BY <2>1, EarlyStep DEF Next
  <1>2. CASE Complete
    <2>1. /\ TypeOK /\ TypeOK' /\ sup' = "done" /\ Covered
          /\ UNCHANGED <<pc, execute, saved, logs, reports, rows, work, at, result, kills>>
      BY <1>2, TypeStep DEF IInv, Next, Watch, Complete, Covered, diskVars, runnerVars
    <2>2. \A t \in Task : work[t] = "idle"
      <3>1. ASSUME NEW t \in Task, work[t] # "idle" PROVE FALSE
        <4>1. /\ pc \in Past /\ rows[<<at, t>>] = "none"
              /\ \A q \in 1 .. at - 1 : rows[<<q, t>>] # "solved"
          BY <3>1 DEF IInv, PoolInv, Past
        <4> QED
          BY <2>1, <4>1, OpenIsUncovered DEF IInv
      <3> QED
        BY <3>1
    <2>3. work' = Idle
      BY <2>1, <2>2 DEF TypeOK, Idle
    <2>4. PoolInv' /\ MemoryInv' /\ LogInv' /\ OrderInv'
      BY <2>1 DEF IInv, PoolInv, MemoryInv, LogInv, OrderInv
    <2>5. ProfileInv'
      BY <2>1 DEF IInv, ProfileInv, Settled
    <2>6. Covered'
      BY <2>1 DEF Covered, Solved
    <2>7. SupervisorInv'
      BY <2>1, <2>3, <2>6 DEF IInv, SupervisorInv
    <2> QED
      BY <2>1, <2>4, <2>5, <2>7 DEF IInv
  <1> QED
    BY <1>1, <1>2

\* preflight_provider passes or ends the runner, and so does recover_rows, which
\* takes every saved row and every log that counts.
LEMMA RecoverStep == ASSUME IInv, Preflight \/ Recover PROVE IInv'
  <1>1. TypeOK /\ TypeOK'
    BY TypeStep DEF IInv, Next, RunnerStep
  <1>2. CASE Exit
    <2>1. /\ pc' = "down" /\ work' = Idle /\ UNCHANGED <<saved, logs, reports, sup, kills>>
          /\ pc \in {"preflight", "recover"}
      BY <1>2 DEF Exit, Preflight, Recover, diskVars
    <2> QED
      BY <1>1, <2>1, ExitStep DEF IInv, SupervisorInv
  <1>3. CASE Preflight /\ pc' = "recover" /\ UNCHANGED runnerVars
    <2>1. pc = "preflight" /\ UNCHANGED <<diskVars, runnerVars, kills, sup>>
      BY <1>3 DEF Preflight
    <2> QED
      BY <1>3, <2>1, EarlyStep DEF Next, RunnerStep
  <1>4. CASE Recover /\ rows' = Recovered /\ pc' = "profile" /\ at' = 1
    <2>1. pc = "recover" /\ UNCHANGED <<saved, logs, reports, sup, kills, work, result>>
      BY <1>4 DEF Recover, Exit, diskVars
    <2>2. \A t \in Task : work[t] = "idle"
      BY <1>1, <2>1 DEF IInv, PoolInv, TypeOK
    <2>3. \A k \in Key :
            /\ rows'[k] \in {saved[k], logs[k], "none"}
            /\ saved[k] # "none" => rows'[k] = saved[k]
            /\ logs[k] \in Valid => rows'[k] # "none"
      BY <1>4 DEF Recovered, Valid
    <2>4. PoolInv' /\ MemoryInv' /\ ProfileInv'
      <3>1. PoolInv'
        BY <2>1, <2>2 DEF PoolInv
      <3>2. 1 .. at' - 1 = {}
        BY <1>4
      <3>3. MemoryInv'
        BY <1>4, <2>1, <2>3, <3>2 DEF MemoryInv
      <3>4. ProfileInv'
        BY <1>4, <2>1, <3>2 DEF ProfileInv
      <3> QED
        BY <3>1, <3>3, <3>4
    <2>5. LogInv'
      BY <1>4, <2>1, <2>3, Cells DEF LogInv
    <2>6. OrderInv'
      BY <2>1, <2>3, Cells DEF IInv, OrderInv
    <2>7. Covered' <=> Covered
      BY <2>1 DEF Covered, Solved
    <2>8. SupervisorInv'
      BY <1>4, <2>1, <2>7 DEF IInv, SupervisorInv
    <2> QED
      BY <1>1, <2>4, <2>5, <2>6, <2>8 DEF IInv
  <1> QED
    BY <1>2, <1>3, <1>4 DEF Preflight, Recover

-----------------------------------------------------------------------------
(* A profile.                                                              *)

\* A profile is opened with every task that no cheaper profile solved.
LEMMA OpenStep == ASSUME IInv, OpenProfile PROVE IInv'
  <1>1. /\ TypeOK /\ TypeOK' /\ pc = "profile" /\ pc \in Past /\ pc' \in Past
        /\ UNCHANGED <<saved, logs, reports, rows, at, result, execute, sup, kills>>
    BY TypeStep DEF IInv, Next, RunnerStep, OpenProfile, diskVars, Past
  <1>2. MemoryInv' /\ OrderInv'
    <2>1. pc' # "report"
      BY DEF OpenProfile
    <2> QED
      BY <1>1, <2>1 DEF IInv, MemoryInv, OrderInv
  <1>3. \A t \in Task : work[t] = "idle"
    BY <1>1 DEF IInv, PoolInv, TypeOK
  <1>4. LogInv'
    BY <1>1, <1>3 DEF IInv, LogInv
  <1>5. \A t \in Task : t \notin Pending => Settled(at, t)
    BY <1>1 DEF Pending, Settled
  <1>6. (\A t \in Task : Settled(at, t))' <=> \A t \in Task : Settled(at, t)
    BY <1>1 DEF Settled
  <1>7. CASE execute /\ Pending # {}
    <2>1. pc' = "pool" /\ work' = [t \in Task |-> IF t \in Pending THEN "queued" ELSE "idle"]
      BY <1>7 DEF OpenProfile
    <2>2. PICK t \in Task : t \in Pending
      BY <1>7 DEF Pending
    <2>3. ~Covered
      BY <1>1, <2>2, OpenIsUncovered DEF IInv, Pending
    <2>4. PoolInv'
      BY <1>1, <1>7, <2>1 DEF PoolInv, Pending
    <2>5. ProfileInv'
      BY <1>1, <1>5, <2>1 DEF IInv, ProfileInv, Settled
    <2>6. SupervisorInv'
      BY <1>1, <2>1, <2>3 DEF IInv, SupervisorInv
    <2> QED
      BY <1>1, <1>2, <1>4, <2>4, <2>5, <2>6 DEF IInv
  <1>8. CASE ~(execute /\ Pending # {})
    <2>1. pc' = "save" /\ work' = work
      BY <1>8 DEF OpenProfile
    <2>2. PoolInv'
      BY <1>1, <1>3, <2>1 DEF PoolInv
    <2>3. ProfileInv'
      BY <1>1, <1>5, <1>8, <2>1 DEF IInv, ProfileInv, Settled
    <2>4. Covered' <=> Covered
      BY <1>1 DEF Covered, Solved
    <2>5. SupervisorInv'
      BY <1>1, <2>1, <2>4 DEF IInv, SupervisorInv
    <2> QED
      BY <1>1, <1>2, <1>4, <2>2, <2>3, <2>5 DEF IInv
  <1> QED
    BY <1>7, <1>8

\* A row is collected: it takes the place of none.
LEMMA CollectStep == ASSUME IInv, NEW t \in Task, Collect(t) PROVE IInv'
  <1>1. /\ TypeOK /\ TypeOK' /\ pc = "pool" /\ pc' = "saving" /\ pc \in Past /\ pc' \in Past
        /\ UNCHANGED <<saved, logs, reports, at, result, execute, sup, kills>>
        /\ work[t] = "returned" /\ work' = [work EXCEPT ![t] = "idle"] /\ execute
    BY TypeStep DEF IInv, Next, RunnerStep, Collect, Past, PoolInv
  <1>2. /\ at \in Profile /\ result[t] \in {"solved", "unsolved", "blank"}
        /\ rows[<<at, t>>] = "none" /\ \A q \in 1 .. at - 1 : rows[<<q, t>>] # "solved"
    BY <1>1, Numbers DEF IInv, PoolInv, TypeOK
  <1>3. \A p \in Profile, u \in Task :
          rows'[<<p, u>>] = IF p = at /\ u = t THEN result[t] ELSE rows[<<p, u>>]
    <2>1. rows' = [rows EXCEPT ![<<at, t>>] = result[t]] /\ rows \in Table
      BY <1>1 DEF TypeOK, Collect
    <2>2. result[t] \in {"none", "solved", "unsolved", "blank"}
      BY <1>2
    <2> QED
      BY <1>2, <2>1, Cells DEF Table
  <1>4. \A p \in Profile : 1 .. p - 1 \subseteq Profile /\ p \notin 1 .. p - 1
    BY <1>1, Below
  <1>5. \A q \in 1 .. at - 1, u \in Task : rows'[<<q, u>>] = rows[<<q, u>>]
    BY <1>2, <1>3, <1>4
  <1>6. PoolInv'
    <2>1. ASSUME NEW u \in Task, work'[u] # "idle" PROVE u # t /\ work[u] = work'[u]
      BY <1>1, <2>1 DEF TypeOK
    <2>2. \A u \in Task : u # t => rows'[<<at, u>>] = rows[<<at, u>>]
      BY <1>2, <1>3
    <2>3. ASSUME NEW u \in Task, work'[u] # "idle"
          PROVE  rows'[<<at, u>>] = "none" /\ \A q \in 1 .. at - 1 : rows'[<<q, u>>] # "solved"
      BY <1>5, <2>1, <2>2, <2>3 DEF IInv, PoolInv
    <2> QED
      BY <1>1, <2>1, <2>3 DEF IInv, PoolInv
  <1>7. MemoryInv'
    <2>1. \A q \in 1 .. at - 1, u \in Task : saved[<<q, u>>] = rows[<<q, u>>]
      BY <1>1 DEF IInv, MemoryInv
    <2>2. ASSUME NEW k \in Key, saved[k] # "none" PROVE rows'[k] = saved[k]
      <3>1. rows[k] = saved[k] /\ k # <<at, t>>
        BY <1>1, <1>2, <2>2 DEF IInv, MemoryInv
      <3>2. PICK p \in Profile, u \in Task : k = <<p, u>>
        BY DEF Key, Profile
      <3> QED
        BY <1>3, <3>1, <3>2
    <2> QED
      BY <1>1, <1>5, <2>1, <2>2 DEF MemoryInv
  <1>8. LogInv'
    <2>1. ASSUME NEW p \in Profile, NEW u \in Task, logs[<<p, u>>] \in Valid
          PROVE  rows'[<<p, u>>] # "none" \/ (p = at /\ work'[u] = "returned")
      <3>1. rows[<<p, u>>] # "none" \/ (p = at /\ work[u] = "returned")
        BY <1>1, <2>1 DEF IInv, LogInv
      <3> QED
        BY <1>1, <1>2, <1>3, <3>1 DEF TypeOK
    <2> QED
      BY <1>1, <2>1 DEF LogInv
  <1>9. ProfileInv'
    <2>1. ASSUME NEW u \in Task, NEW p \in Profile, Settled(p, u)
          PROVE  rows'[<<p, u>>] # "none" \/ \E q \in 1 .. p - 1 : rows'[<<q, u>>] = "solved"
      BY <1>2, <1>3, <1>4, <2>1 DEF Settled
    <2>2. \A u \in Task, p \in 1 .. at - 1 : Settled(p, u)
      BY <1>1 DEF IInv, ProfileInv
    <2>3. \A u \in Task : work[u] = "idle" => Settled(at, u)
      BY <1>1 DEF IInv, ProfileInv
    <2>4. rows'[<<at, t>>] # "none"
      BY <1>2, <1>3
    <2>5. \A u \in Task : work'[u] = "idle" => u = t \/ work[u] = "idle"
      BY <1>1 DEF TypeOK
    <2>6. \A u \in Task, p \in 1 .. at - 1 :
            rows'[<<p, u>>] # "none" \/ \E q \in 1 .. p - 1 : rows'[<<q, u>>] = "solved"
      BY <1>2, <1>4, <2>1, <2>2
    <2>7. \A u \in Task : work'[u] = "idle" =>
            rows'[<<at, u>>] # "none" \/ \E q \in 1 .. at - 1 : rows'[<<q, u>>] = "solved"
      BY <1>2, <2>1, <2>3, <2>4, <2>5
    <2> QED
      BY <1>1, <2>6, <2>7 DEF ProfileInv, Settled
  <1>10. OrderInv'
    <2>1. \A q \in 1 .. at - 1 : saved[<<q, t>>] \in Failed
      <3> SUFFICES ASSUME NEW q \in 1 .. at - 1 PROVE saved[<<q, t>>] \in Failed
        OBVIOUS
      <3>1. saved[<<q, t>>] = rows[<<q, t>>] /\ Settled(q, t)
        BY <1>1 DEF IInv, MemoryInv, ProfileInv
      <3>2. 1 .. q - 1 \subseteq 1 .. at - 1
        BY <1>1, <1>2, Below
      <3>3. rows[<<q, t>>] # "none" /\ rows[<<q, t>>] # "solved"
        BY <1>2, <3>1, <3>2 DEF Settled
      <3>4. rows[<<q, t>>] \in {"none", "solved", "unsolved", "blank"}
        BY <1>1, <1>2, <1>4, Cells DEF TypeOK, Table
      <3> QED
        BY <3>1, <3>3, <3>4 DEF Failed
    <2>2. ASSUME NEW p \in Profile, NEW u \in Task,
                 logs[<<p, u>>] # "none" \/ saved[<<p, u>>] # "none" \/ rows'[<<p, u>>] # "none"
          PROVE  \A q \in 1 .. p - 1 : saved[<<q, u>>] \in Failed
      <3>1. CASE p = at /\ u = t
        BY <2>1, <3>1
      <3>2. CASE ~(p = at /\ u = t)
        BY <1>1, <1>3, <2>2, <3>2 DEF IInv, OrderInv
      <3> QED
        BY <3>1, <3>2
    <2> QED
      BY <1>1, <2>2 DEF OrderInv
  <1>11. SupervisorInv'
    <2>1. sup # "done"
      BY <1>1 DEF IInv, SupervisorInv, Idle
    <2> QED
      BY <1>1, <2>1 DEF SupervisorInv
  <1> QED
    BY <1>1, <1>6, <1>7, <1>8, <1>9, <1>10, <1>11 DEF IInv

\* The file gets the rows in memory, which contain its own.
LEMMA SaveStep == ASSUME IInv, Saved \/ ProfileSaved PROVE IInv'
  <1>1. /\ TypeOK /\ TypeOK' /\ pc \in Past /\ pc' \in Past /\ saved' = rows
        /\ \/ pc = "saving" /\ pc' = "pool"
           \/ pc = "saving profile" /\ pc' = "report"
        /\ UNCHANGED <<logs, reports, rows, at, work, result, execute, sup, kills>>
    BY TypeStep DEF IInv, Next, RunnerStep, Saved, ProfileSaved, runnerVars, Past
  <1>2. \A k \in Key : saved[k] # "none" => saved'[k] = saved[k]
    BY <1>1 DEF IInv, MemoryInv
  <1>3. PoolInv'
    <2>1. pc = "saving profile" => \A t \in Task : work[t] = "idle"
      BY <1>1 DEF IInv, PoolInv
    <2> QED
      BY <1>1, <2>1 DEF IInv, PoolInv
  <1>4. MemoryInv'
    BY <1>1 DEF IInv, MemoryInv
  <1>5. LogInv'
    BY <1>1 DEF IInv, LogInv
  <1>6. ProfileInv'
    BY <1>1 DEF IInv, ProfileInv, Settled
  <1>7. OrderInv'
    <2>1. \A q \in Profile, t \in Task : saved[<<q, t>>] \in Failed => saved'[<<q, t>>] = saved[<<q, t>>]
      BY <1>2, Cells DEF Failed
    <2>2. \A p \in Profile : 1 .. p - 1 \subseteq Profile
      BY <1>1, Below
    <2> QED
      BY <1>1, <2>1, <2>2 DEF IInv, OrderInv
  <1>8. SupervisorInv'
    <2>1. Covered => Covered'
      BY <1>1, <1>2, CoveredKept
    <2> QED
      BY <1>1, <2>1 DEF IInv, SupervisorInv
  <1> QED
    BY <1>1, <1>3, <1>4, <1>5, <1>6, <1>7, <1>8 DEF IInv

\* The pool is empty, or the file is opened for the last time in this profile.
LEMMA ProfileEndStep == ASSUME IInv, PoolEnds \/ SaveProfile PROVE IInv'
  <1>1. /\ TypeOK /\ TypeOK' /\ pc \in Past /\ pc' \in Past
        /\ \/ pc = "pool" /\ pc' = "save" /\ work = Idle
           \/ pc = "save" /\ pc' = "saving profile"
        /\ UNCHANGED <<saved, logs, reports, rows, at, work, result, execute, sup, kills>>
    BY TypeStep DEF IInv, Next, RunnerStep, PoolEnds, SaveProfile, runnerVars, diskVars, Past
  <1>2. \A t \in Task : work[t] = "idle"
    BY <1>1 DEF IInv, PoolInv, Idle
  <1>3. PoolInv'
    BY <1>1, <1>2 DEF PoolInv
  <1>4. MemoryInv' /\ OrderInv'
    BY <1>1 DEF IInv, MemoryInv, OrderInv
  <1>5. LogInv'
    BY <1>1 DEF IInv, LogInv
  <1>6. ProfileInv'
    BY <1>1, <1>2 DEF IInv, ProfileInv, Settled
  <1>7. SupervisorInv'
    <2>1. Covered' <=> Covered
      BY <1>1 DEF Covered, Solved
    <2> QED
      BY <1>1, <2>1 DEF IInv, SupervisorInv
  <1> QED
    BY <1>1, <1>3, <1>4, <1>5, <1>6, <1>7 DEF IInv

\* The end of a profile: the next one, or the end of the runner with reports of
\* what is saved.
LEMMA ReportStep == ASSUME IInv, Report PROVE IInv'
  <1>1. /\ TypeOK /\ TypeOK' /\ pc = "report" /\ pc \in Past /\ reports' = rows /\ saved = rows
        /\ UNCHANGED <<saved, logs, execute, sup, kills>>
    BY TypeStep DEF IInv, Next, RunnerStep, Report, MemoryInv, Past
  <1>2. CASE Exit
    <2>1. pc' = "down" /\ work' = Idle
      BY <1>2 DEF Exit
    <2> QED
      BY <1>1, <2>1, ExitStep
  <1>3. CASE at' = at + 1 /\ pc' = "profile" /\ UNCHANGED <<rows, work, attempt, result>>
    <2>1. \A t \in Task : work[t] = "idle"
      BY <1>1 DEF IInv, PoolInv
    <2>2. \A q \in 1 .. at' - 1 : q = at \/ q \in 1 .. at - 1
      BY <1>1, <1>3, Numbers DEF Profile
    <2>3. PoolInv'
      BY <1>3, <2>1 DEF PoolInv
    <2>4. MemoryInv' /\ OrderInv'
      BY <1>1, <1>3 DEF IInv, MemoryInv, OrderInv, Past
    <2>5. LogInv'
      BY <1>1, <1>3, <2>1 DEF IInv, LogInv
    <2>6. ProfileInv'
      <3>1. execute => \A t \in Task, p \in 1 .. at' - 1 : Settled(p, t)
        BY <1>1, <2>2 DEF IInv, ProfileInv
      <3>2. execute => \A t \in Task, p \in 1 .. at' - 1 : Settled(p, t)'
        BY <1>3, <3>1 DEF Settled
      <3> QED
        BY <1>1, <1>3, <3>2 DEF ProfileInv
    <2>7. Covered' <=> Covered
      BY <1>1 DEF Covered, Solved
    <2>8. SupervisorInv'
      BY <1>1, <1>3, <2>7 DEF IInv, SupervisorInv
    <2> QED
      BY <1>1, <2>3, <2>4, <2>5, <2>6, <2>8 DEF IInv
  <1> QED
    BY <1>2, <1>3 DEF Report

\* A worker raised: the runner ends, at once or when its pool is empty, and
\* leaves a task without a row.
LEMMA RaiseStep == ASSUME IInv, Drained \/ \E t \in Task : Raise(t) PROVE IInv'
  <1>1. TypeOK /\ TypeOK' /\ UNCHANGED <<saved, logs, reports, sup, kills, execute>>
    BY TypeStep DEF IInv, Next, RunnerStep, Drained, Raise, diskVars
  <1>2. PICK t \in Task : work[t] = "raised" /\ pc \in {"pool", "draining"}
    BY DEF IInv, SupervisorInv, Drained, Raise
  <1>3. ~Covered
    <2>1. pc \in Past /\ rows[<<at, t>>] = "none" /\ \A q \in 1 .. at - 1 : rows[<<q, t>>] # "solved"
      BY <1>2 DEF IInv, PoolInv, Past
    <2> QED
      BY <1>1, <2>1, OpenIsUncovered DEF IInv
  <1>4. CASE Exit
    <2>1. pc' = "down" /\ work' = Idle
      BY <1>4 DEF Exit
    <2> QED
      BY <1>1, <1>3, <2>1, ExitStep
  <1>5. CASE pc = "pool" /\ pc' = "draining" /\ UNCHANGED runnerVars
    <2>1. UNCHANGED <<rows, at, work, result>>
      BY <1>5 DEF runnerVars
    <2>2. PoolInv' /\ MemoryInv' /\ OrderInv'
      BY <1>1, <1>5, <2>1 DEF IInv, PoolInv, MemoryInv, OrderInv, Past
    <2>3. LogInv' /\ ProfileInv'
      BY <1>1, <1>5, <2>1, ZenonT(40) DEF IInv, LogInv, ProfileInv, Settled, Past
    <2>4. SupervisorInv'
      BY <1>1, <1>2, <1>3, <1>5, <2>1 DEF IInv, SupervisorInv
    <2> QED
      BY <1>1, <2>2, <2>3, <2>4 DEF IInv
  <1> QED
    BY <1>4, <1>5 DEF Drained, Raise

-----------------------------------------------------------------------------
(* A task in the pool.                                                     *)

\* A step of one worker that leaves all rows alone.
LEMMA WorkerStep ==
  ASSUME IInv, TypeOK', NEW t \in Task, work[t] # "idle", work'[t] # "idle",
         \A u \in Task : u # t => work'[u] = work[u] /\ result'[u] = result[u],
         work'[t] \in {"running", "returned"} => result'[t] # "none",
         UNCHANGED <<saved, reports, rows, pc, at, execute, sup, kills>>,
         work[t] # "raised", work[t] # "returned",
         logs' = logs \/ (work'[t] = "returned" /\ \E v : logs' = [logs EXCEPT ![<<at, t>>] = v])
  PROVE  IInv'
  <1>1. /\ TypeOK /\ pc \in {"pool", "saving", "draining"} /\ pc \in Past /\ execute
        /\ at \in Profile
    BY Numbers DEF IInv, PoolInv, Past
  <1>2. \A p \in Profile, u \in Task :
          logs'[<<p, u>>] = logs[<<p, u>>] \/ (p = at /\ u = t /\ work'[t] = "returned")
    <2>1. ASSUME NEW v, logs' = [logs EXCEPT ![<<at, t>>] = v]
          PROVE  \A p \in Profile, u \in Task :
                   logs'[<<p, u>>] = logs[<<p, u>>] \/ (p = at /\ u = t)
      <3>1. DOMAIN logs = Key
        BY <1>1 DEF TypeOK, Table
      <3> QED
        BY <2>1, <3>1, Cells
    <2> QED
      BY <2>1
  <1>3. PoolInv'
    BY DEF IInv, PoolInv
  <1>4. MemoryInv'
    BY <1>1 DEF IInv, MemoryInv
  <1>5. LogInv'
    <2> SUFFICES ASSUME NEW p \in Profile, NEW u \in Task, logs'[<<p, u>>] \in Valid
                 PROVE  rows[<<p, u>>] # "none" \/ (p = at /\ work'[u] = "returned")
      BY DEF LogInv
    <2>1. CASE logs'[<<p, u>>] = logs[<<p, u>>]
      <3>1. rows[<<p, u>>] # "none" \/ (p = at /\ work[u] = "returned")
        BY <1>1, <2>1 DEF IInv, LogInv
      <3> QED
        BY <3>1
    <2>2. CASE logs'[<<p, u>>] # logs[<<p, u>>]
      BY <1>2, <2>2
    <2> QED
      BY <2>1, <2>2
  <1>6. ProfileInv'
    <2>1. \A u \in Task : work'[u] = "idle" => work[u] = "idle"
      OBVIOUS
    <2> QED
      BY <1>1, <2>1, ZenonT(40) DEF IInv, ProfileInv, Settled
  <1>7. OrderInv'
    <2>1. \A q \in 1 .. at - 1 : saved[<<q, t>>] \in Failed
      <3> SUFFICES ASSUME NEW q \in 1 .. at - 1 PROVE saved[<<q, t>>] \in Failed
        OBVIOUS
      <3>1. saved[<<q, t>>] = rows[<<q, t>>] /\ Settled(q, t) /\ rows[<<q, t>>] # "solved"
        BY <1>1 DEF IInv, MemoryInv, ProfileInv, PoolInv
      <3>2. 1 .. q - 1 \subseteq 1 .. at - 1 /\ q \in Profile
        BY <1>1, Below
      <3>3. rows[<<q, t>>] # "none"
        BY <3>1, <3>2 DEF Settled, IInv, PoolInv
      <3>4. rows[<<q, t>>] \in {"none", "solved", "unsolved", "blank"}
        BY <1>1, <3>2, Cells DEF TypeOK, Table
      <3> QED
        BY <3>1, <3>3, <3>4 DEF Failed
    <2>2. ASSUME NEW p \in Profile, NEW u \in Task,
                 \/ logs'[<<p, u>>] # "none" \/ saved[<<p, u>>] # "none"
                 \/ pc \in Past /\ rows[<<p, u>>] # "none"
          PROVE  \A q \in 1 .. p - 1 : saved[<<q, u>>] \in Failed
      <3>1. CASE p = at /\ u = t
        BY <2>1, <3>1
      <3>2. CASE ~(p = at /\ u = t)
        <4>1. logs'[<<p, u>>] = logs[<<p, u>>]
          BY <1>2, <3>2
        <4> QED
          BY <2>2, <4>1 DEF IInv, OrderInv
      <3> QED
        BY <3>1, <3>2
    <2> QED
      BY <2>2 DEF OrderInv
  <1>8. SupervisorInv'
    <2>1. sup # "done"
      BY DEF IInv, SupervisorInv, Idle
    <2>2. \A u \in Task : work[u] = "raised" => work'[u] = "raised"
      OBVIOUS
    <2> QED
      BY <1>1, <2>1, <2>2 DEF IInv, SupervisorInv
  <1> QED
    BY <1>3, <1>4, <1>5, <1>6, <1>7, <1>8 DEF IInv

\* A task is started, tried again, answered or given up.
LEMMA TaskStep == ASSUME IInv, NEW t \in Task, StartTask(t) \/ AttemptEnds(t) PROVE IInv'
  <1>1. TypeOK /\ TypeOK'
    BY TypeStep DEF IInv, Next, RunnerStep
  <1>2. CASE StartTask(t)
    <2>1. /\ work[t] = "queued" /\ work' = [work EXCEPT ![t] = "running"]
          /\ result' = [result EXCEPT ![t] = "blank"] /\ UNCHANGED <<diskVars, mainVars>>
      BY <1>2 DEF StartTask
    <2>2. /\ work'[t] = "running" /\ result'[t] = "blank"
          /\ \A u \in Task : u # t => work'[u] = work[u] /\ result'[u] = result[u]
      BY <1>1, <2>1 DEF TypeOK
    <2> QED
      BY <1>1, <2>1, <2>2, WorkerStep DEF diskVars, mainVars
  <1>3. CASE AttemptEnds(t)
    <2>1. work[t] = "running" /\ result[t] # "none"
      BY <1>3 DEF AttemptEnds, Answered, Retryable, Unexplained, SetupError, IInv, PoolInv
    <2>2. ASSUME NEW row, row # "none", Return(t, row, row) PROVE IInv'
      <3>1. /\ work' = [work EXCEPT ![t] = "returned"] /\ result' = [result EXCEPT ![t] = row]
            /\ logs' = [logs EXCEPT ![<<at, t>>] = row]
            /\ UNCHANGED <<saved, reports, mainVars>>
        BY <2>2 DEF Return
      <3>2. /\ work'[t] = "returned" /\ result'[t] = row
            /\ \A u \in Task : u # t => work'[u] = work[u] /\ result'[u] = result[u]
        BY <1>1, <3>1 DEF TypeOK
      <3> QED
        BY <1>1, <2>1, <2>2, <3>1, <3>2, WorkerStep DEF mainVars
    <2>3. ASSUME NEW row, row # "none", Again(t, row) PROVE IInv'
      <3>1. /\ work' = work /\ result' = [result EXCEPT ![t] = row]
            /\ UNCHANGED <<diskVars, mainVars>>
        BY <2>3 DEF Again
      <3>2. result'[t] = row /\ \A u \in Task : u # t => result'[u] = result[u]
        BY <1>1, <3>1 DEF TypeOK
      <3> QED
        BY <1>1, <2>1, <2>3, <3>1, <3>2, WorkerStep DEF mainVars, diskVars
    <2>4. CASE SetupError(t)
      <3>1. work' = [work EXCEPT ![t] = "raised"] /\ UNCHANGED <<result, diskVars, mainVars>>
        BY <2>4 DEF SetupError
      <3>2. work'[t] = "raised" /\ \A u \in Task : u # t => work'[u] = work[u]
        BY <1>1, <3>1 DEF TypeOK
      <3> QED
        BY <1>1, <2>1, <3>1, <3>2, WorkerStep DEF mainVars, diskVars
    <2> QED
      BY <1>3, <2>1, <2>2, <2>3, <2>4 DEF AttemptEnds, Answered, Retryable, Unexplained
  <1> QED
    BY <1>2, <1>3

-----------------------------------------------------------------------------
(* The invariant, and what follows from it.                                *)

\* The invariant holds in every reachable state.
THEOREM Invariance == Spec => []IInv
  <1>1. Init => IInv
    <2> SUFFICES ASSUME Init PROVE IInv
      OBVIOUS
    <2>1. TypeOK
      <3>1. 1 \in 1 .. Retries + 1 /\ 0 \in 0 .. KillMax /\ 1 \in 1 .. Profiles
        <4>1. Retries \in Nat /\ KillMax \in Nat /\ Profiles \in Nat /\ Profiles # 0
          BY CascadeAssumption
        <4> QED
          BY <4>1
      <3> QED
        BY <3>1, Cells DEF Init, TypeOK, Idle
    <2>2. PoolInv /\ MemoryInv /\ LogInv /\ ProfileInv
      BY DEF Init, Idle, Past, PoolInv, MemoryInv, LogInv, ProfileInv
    <2>3. \A k \in Key : saved[k] = "none" /\ logs[k] = "none"
      BY DEF Init, NoRows
    <2>4. OrderInv
      BY <2>3, Cells DEF Init, OrderInv, Past
    <2>5. SupervisorInv
      <3>1. ASSUME NEW t \in Task PROVE ~Covered
        <4>1. \A p \in Profile : saved[<<p, t>>] = "none"
          BY <2>3, Cells
        <4>2. Profiles \in Profile
          BY <2>1, Numbers DEF Profile
        <4> QED
          BY <4>1, <4>2 DEF Covered, Solved, Profile
      <3>2. (\A t \in Task : FALSE) => Key = {}
        BY DEF Key
      <3>3. Key = {} => reports = saved
        BY DEF Init, NoRows, NoReports
      <3>4. Covered => reports = saved
        BY <3>1, <3>2, <3>3
      <3> QED
        BY <3>4 DEF Init, SupervisorInv
    <2> QED
      BY <2>1, <2>2, <2>4, <2>5 DEF IInv
  <1>2. IInv /\ [Next]_cascadeVars => IInv'
    <2> SUFFICES ASSUME IInv, [Next]_cascadeVars PROVE IInv'
      OBVIOUS
    <2>1. CASE Kill
      <3>1. /\ pc' = "down" /\ work' = Idle /\ UNCHANGED <<saved, logs, sup>> /\ kills' # 0
            /\ TypeOK'
        <4>1. kills' = kills + 1 /\ kills \in Nat
          BY <2>1, Numbers DEF Kill, IInv
        <4> QED
          BY <2>1, <4>1, TypeStep DEF Kill, Exit, diskVars, IInv
      <3> QED
        BY <3>1, ExitStep
    <2>2. CASE Launch
      <3>1. /\ pc = "down" /\ pc' = "preflight" /\ sup' = "watching"
            /\ UNCHANGED <<diskVars, runnerVars, kills>>
        BY <2>2 DEF Launch, StartRunner
      <3> QED
        BY <3>1, EarlyStep
    <2>3. CASE UNCHANGED cascadeVars
      <3>1. TypeOK' /\ UNCHANGED <<saved, logs, reports, rows, pc, at, work, result, execute, sup, kills>>
        BY <2>3, TypeStep DEF IInv, cascadeVars, diskVars, runnerVars
      <3>2. PoolInv' /\ MemoryInv' /\ LogInv' /\ OrderInv'
        BY <3>1 DEF IInv, PoolInv, MemoryInv, LogInv, OrderInv
      <3>3. ProfileInv' /\ SupervisorInv'
        BY <3>1 DEF IInv, ProfileInv, Settled, SupervisorInv, Covered, Solved
      <3> QED
        BY <3>1, <3>2, <3>3 DEF IInv
    <2> QED
      BY <2>1, <2>2, <2>3, WatchStep, RecoverStep, OpenStep, CollectStep, SaveStep, ProfileEndStep,
         ReportStep, RaiseStep, TaskStep DEF Next, RunnerStep
  <1> QED
    BY <1>1, <1>2, PTL DEF Spec

\* Budgets are tried from the cheapest on, across restarts, and a supervisor
\* that leaves has everything run, saved and, without kills, reported.
THEOREM OrderIsKept == Spec => []CascadeInOrder
  <1>1. IInv => CheapestFirst
    <2> SUFFICES ASSUME IInv, NEW t \in Task, work[t] = "running", NEW p \in 1 .. at - 1
                 PROVE  saved[<<p, t>>] \in Failed
      BY DEF CheapestFirst, Failed
    <2>1. /\ TypeOK /\ pc \in Past /\ execute /\ at \in Profile
          /\ \A q \in 1 .. at - 1 : rows[<<q, t>>] # "solved"
      BY Numbers DEF IInv, PoolInv, Past
    <2>2. saved[<<p, t>>] = rows[<<p, t>>] /\ Settled(p, t)
      BY <2>1 DEF IInv, MemoryInv, ProfileInv
    <2>3. 1 .. p - 1 \subseteq 1 .. at - 1 /\ p \in Profile
      BY <2>1, Below
    <2>4. rows[<<p, t>>] \in {"none", "solved", "unsolved", "blank"}
      BY <2>1, <2>3, Cells DEF TypeOK, Table
    <2> QED
      BY <2>1, <2>2, <2>3, <2>4 DEF Settled, Failed
  <1>2. IInv => DoneIsDone
    BY DEF IInv, SupervisorInv, DoneIsDone, InPool, Idle
  <1>3. IInv => TypeOK
    BY DEF IInv
  <1> QED
    BY <1>1, <1>2, <1>3, Invariance, PTL DEF CascadeInOrder

\* No saved row is ever lost or changed, and no run that has a saved row or a
\* log that counts is made again.
THEOREM EvidenceIsKept == Spec => EvidenceKept
  <1>1. IInv /\ [Next]_cascadeVars =>
          [\A k \in Key : saved[k] # "none" => saved'[k] = saved[k]]_cascadeVars
    <2> SUFFICES ASSUME IInv, Next, NEW k \in Key, saved[k] # "none" PROVE saved'[k] = saved[k]
      BY DEF cascadeVars
    <2>1. CASE Saved \/ ProfileSaved
      BY <2>1 DEF IInv, MemoryInv, Past, Saved, ProfileSaved
    <2>2. CASE ~(Saved \/ ProfileSaved)
      <3>1. UNCHANGED saved
        BY <2>2 DEF Next, RunnerStep, Kill, Watch, Launch, Preflight, Recover, OpenProfile, Drained,
                    PoolEnds, SaveProfile, Report, Collect, Raise, StartTask, AttemptEnds, Answered,
                    Retryable, Unexplained, SetupError, Return, Again, diskVars, runnerVars
      <3> QED
        BY <3>1
    <2> QED
      BY <2>1, <2>2
  <1>2. IInv /\ [Next]_cascadeVars =>
          [\A t \in Task : Starts(t) =>
             saved[<<at, t>>] = "none" /\ logs[<<at, t>>] \notin Valid]_cascadeVars
    <2> SUFFICES ASSUME IInv, NEW t \in Task, Starts(t)
                 PROVE  saved[<<at, t>>] = "none" /\ logs[<<at, t>>] \notin Valid
      BY DEF cascadeVars
    <2>1. /\ TypeOK /\ work[t] = "queued" /\ pc \in Past /\ rows[<<at, t>>] = "none"
          /\ at \in Profile
      BY Numbers DEF Starts, IInv, PoolInv, Past
    <2>2. <<at, t>> \in Key
      BY <2>1, Cells
    <2> QED
      BY <2>1, <2>2 DEF IInv, MemoryInv, LogInv
  <1> QED
    BY <1>1, <1>2, Invariance, PTL DEF Spec, EvidenceKept, RowsNeverLost, EvidenceNotRepeated
===============================================================================
