----------------------------- MODULE VerifyLease -----------------------------
(***************************************************************************)
(* The cross-process lease of harness/verify_lease.py and its callers: the *)
(* scored verifier (verifier._run), the in-loop Lean check                 *)
(* (lean_check._run_lean_command), the dependency warm and the clone of    *)
(* the build cache (workspace_builder).  A lease is an exclusive flock on  *)
(* one of Cap slot files; a caller polls the slots until a deadline and    *)
(* then falls open.  The scored verifier alone refuses to run without one. *)
(*                                                                         *)
(* Time is not a number here: a poll that finds every slot taken either    *)
(* passes the deadline or sleeps, and after MaxPolls sleeps the deadline   *)
(* has passed.                                                             *)
(***************************************************************************)
EXTENDS Integers, FiniteSets

CONSTANTS
  Proc,        \* runner processes, each with the one thread that leases
  NoProc,      \* the owner of a free slot
  Job,         \* the kinds of leased sections that are run
  Cap,         \* DEFAULT_HARNESS_VERIFY_CONCURRENCY; 0 turns leasing off
  HasFcntl,    \* whether the platform has fcntl.flock
  DirMayFail,  \* whether the lease directory or a slot file may be unusable
  MaxPolls,    \* bound: sleeps that fit before the deadline
  MaxNest,     \* bound: depth of re-entrant sections
  MaxCrashes   \* bound: process deaths in a behaviour

ASSUME LeaseAssumption ==
  /\ NoProc \notin Proc
  /\ Job \subseteq {"verifier", "lean_check", "warm", "clone"}
  /\ Cap \in Nat
  /\ HasFcntl \in BOOLEAN
  /\ DirMayFail \in BOOLEAN
  /\ MaxPolls \in Nat
  /\ MaxNest \in Nat
  /\ MaxCrashes \in Nat

VARIABLES
  pc,       \* where each process stands in verify_lease
  job,      \* the section the process wants or runs
  next,     \* the slot the process tries next
  polls,    \* how often the process slept since it began to wait
  reason,   \* what the context manager yielded
  owner,    \* which process has the flock of each slot file
  held,     \* the thread-local re-entrancy flag
  nested,   \* how many re-entrant sections are open inside the body
  work,     \* the command that the body runs
  orphans,  \* commands that outlived the section that started them
  crashes   \* process deaths so far

vars == <<pc, job, next, polls, reason, owner, held, nested, work, orphans, crashes>>

Slot == 0 .. Cap - 1

\* The reasons that verify_lease yields (the docstring lists them).
Reason == {"acquired", "disabled", "no_fcntl", "no_lease_dir", "timeout"}

Init ==
  /\ pc = [p \in Proc |-> "idle"]
  /\ job = [p \in Proc |-> "none"]
  /\ next = [p \in Proc |-> 0]
  /\ polls = [p \in Proc |-> 0]
  /\ reason = [p \in Proc |-> "none"]
  /\ owner = [s \in Slot |-> NoProc]
  /\ held = [p \in Proc |-> FALSE]
  /\ nested = [p \in Proc |-> 0]
  /\ work = [p \in Proc |-> "none"]
  /\ orphans = {}
  /\ crashes = 0

-----------------------------------------------------------------------------
(* Asking for the lease.                                                   *)

\* The body starts with reason r; the variables of the poll loop are dead.
Yield(p, r) ==
  /\ pc' = [pc EXCEPT ![p] = "body"]
  /\ reason' = [reason EXCEPT ![p] = r]
  /\ next' = [next EXCEPT ![p] = 0]
  /\ polls' = [polls EXCEPT ![p] = 0]

\* Why a call may fall open before any slot is tried.
OpenReasons ==
  IF Cap = 0 THEN {"disabled"}
  ELSE IF ~HasFcntl THEN {"no_fcntl"}
  ELSE IF DirMayFail THEN {"no_lease_dir"} ELSE {}

EnterOpen(p, j) ==
  /\ pc[p] = "idle"
  /\ \E r \in OpenReasons : Yield(p, r)
  /\ job' = [job EXCEPT ![p] = j]
  /\ UNCHANGED <<owner, held, nested, work, orphans, crashes>>

\* _held(): the thread is inside a section that has a slot.
PassesThrough(p) == held[p]

\* The slot files are open: the deadline is set and the polling starts.
Enter(p, j) ==
  /\ pc[p] = "idle" \/ (pc[p] = "body" /\ reason[p] = "acquired")
  /\ ~PassesThrough(p)
  /\ Cap > 0 /\ HasFcntl
  /\ pc' = [pc EXCEPT ![p] = "scan"]
  /\ job' = [job EXCEPT ![p] = j]
  /\ next' = [next EXCEPT ![p] = 0]
  /\ polls' = [polls EXCEPT ![p] = 0]
  /\ UNCHANGED <<reason, owner, held, nested, work, orphans, crashes>>

\* A call from inside a section that has a slot: "reentrant".
EnterNested(p) ==
  /\ pc[p] = "body" /\ nested[p] < MaxNest
  /\ PassesThrough(p)
  /\ nested' = [nested EXCEPT ![p] = @ + 1]
  /\ UNCHANGED <<pc, job, next, polls, reason, owner, held, work, orphans, crashes>>

ExitNested(p) ==
  /\ nested[p] > 0
  /\ nested' = [nested EXCEPT ![p] = @ - 1]
  /\ UNCHANGED <<pc, job, next, polls, reason, owner, held, work, orphans, crashes>>

\* flock(LOCK_EX | LOCK_NB) succeeds on a file that nobody has locked.
LocksMutant(p, s) == TRUE

Locks(p, s) == owner[s] = NoProc

Acquire(p) ==
  /\ pc[p] = "scan" /\ next[p] < Cap
  /\ Locks(p, next[p])
  /\ owner' = [owner EXCEPT ![next[p]] = p]
  /\ held' = [held EXCEPT ![p] = TRUE]
  /\ Yield(p, "acquired")
  /\ UNCHANGED <<job, nested, work, orphans, crashes>>

SlotTaken(p) ==
  /\ pc[p] = "scan" /\ next[p] < Cap
  /\ ~Locks(p, next[p])
  /\ next' = [next EXCEPT ![p] = @ + 1]
  /\ UNCHANGED <<pc, job, polls, reason, owner, held, nested, work, orphans, crashes>>

\* Every slot was taken and the clock has passed the deadline.
DeadlineMutant(p) == FALSE

Deadline(p) == TRUE

TimeOut(p) ==
  /\ pc[p] = "scan" /\ next[p] = Cap
  /\ Deadline(p)
  /\ Yield(p, "timeout")
  /\ UNCHANGED <<job, owner, held, nested, work, orphans, crashes>>

\* Every slot was taken before the deadline: sleep(poll), then try them again.
Sleep(p) ==
  /\ pc[p] = "scan" /\ next[p] = Cap
  /\ polls[p] < MaxPolls
  /\ polls' = [polls EXCEPT ![p] = @ + 1]
  /\ next' = [next EXCEPT ![p] = 0]
  /\ UNCHANGED <<pc, job, reason, owner, held, nested, work, orphans, crashes>>

-----------------------------------------------------------------------------
(* The body of the section.                                                *)

\* verifier._run runs only with a slot; every other section runs regardless.
MayRunMutant(p) == TRUE

MayRun(p) == job[p] = "verifier" => reason[p] = "acquired"

Start(p) ==
  /\ pc[p] = "body" /\ work[p] = "none"
  /\ MayRun(p)
  /\ work' = [work EXCEPT ![p] = "running"]
  /\ UNCHANGED <<pc, job, next, polls, reason, owner, held, nested, orphans, crashes>>

\* The verifier returns code 125 and its section ends.
Refuse(p) ==
  /\ pc[p] = "body" /\ work[p] = "none"
  /\ ~MayRun(p)
  /\ work' = [work EXCEPT ![p] = "refused"]
  /\ UNCHANGED <<pc, job, next, polls, reason, owner, held, nested, orphans, crashes>>

Finish(p) ==
  /\ work[p] = "running"
  /\ work' = [work EXCEPT ![p] = "done"]
  /\ UNCHANGED <<pc, job, next, polls, reason, owner, held, nested, orphans, crashes>>

\* The command's own timeout.  The check and the warm kill the command's
\* process group.  The verifier's subprocess.run kills the direct child only,
\* so the lean processes that lake started may survive it.
CommandTimesOut(p) ==
  /\ work[p] = "running" /\ job[p] # "clone"
  /\ work' = [work EXCEPT ![p] = "done"]
  /\ \/ UNCHANGED orphans
     \/ job[p] = "verifier" /\ orphans' = orphans \cup {<<p, "verifier">>}
  /\ UNCHANGED <<pc, job, next, polls, reason, owner, held, nested, crashes>>

\* The slot of p, if it has one, is unlocked.
Unlocked(p) == [s \in Slot |-> IF owner[s] = p THEN NoProc ELSE owner[s]]

\* p is back outside of every section.
Leave(p) ==
  /\ pc' = [pc EXCEPT ![p] = "idle"]
  /\ job' = [job EXCEPT ![p] = "none"]
  /\ reason' = [reason EXCEPT ![p] = "none"]
  /\ work' = [work EXCEPT ![p] = "none"]
  /\ held' = [held EXCEPT ![p] = FALSE]
  /\ next' = [next EXCEPT ![p] = 0]
  /\ polls' = [polls EXCEPT ![p] = 0]

Exit(p) ==
  /\ pc[p] = "body" /\ nested[p] = 0
  /\ work[p] \in {"done", "refused"}
  /\ owner' = Unlocked(p)
  /\ Leave(p)
  /\ UNCHANGED <<nested, orphans, crashes>>

\* The process is killed: the kernel drops its flocks, but a command that it
\* was running (in a session of its own) goes on.  A new process takes over.
Crash(p) ==
  /\ pc[p] # "idle" /\ crashes < MaxCrashes
  /\ crashes' = crashes + 1
  /\ owner' = [s \in Slot |-> IF owner[s] = p THEN NoProc ELSE owner[s]]
  /\ orphans' = orphans \cup (IF work[p] = "running" THEN {<<p, job[p]>>} ELSE {})
  /\ nested' = [nested EXCEPT ![p] = 0]
  /\ Leave(p)

OrphanEnds(o) ==
  /\ orphans' = orphans \ {o}
  /\ UNCHANGED <<pc, job, next, polls, reason, owner, held, nested, work, crashes>>

-----------------------------------------------------------------------------
Waits(p) == SlotTaken(p) \/ Acquire(p) \/ TimeOut(p) \/ Sleep(p)

RunsBody(p) == Start(p) \/ Refuse(p) \/ Finish(p) \/ CommandTimesOut(p)

Step(p) ==
  \/ \E j \in Job : EnterOpen(p, j) \/ Enter(p, j)
  \/ Waits(p)
  \/ RunsBody(p)
  \/ EnterNested(p) \/ ExitNested(p)
  \/ Exit(p)
  \/ Crash(p)

Next ==
  \/ \E p \in Proc : Step(p)
  \/ \E o \in orphans : OrphanEnds(o)

Spec == Init /\ [][Next]_vars

\* A poll loop never stops by itself; the bodies get no fairness at all.
WaitFairness == \A p \in Proc : WF_vars(Waits(p))

WaitFairSpec == Spec /\ WaitFairness

\* Every command of the process ends (it has a timeout, cp is finite), nested
\* sections close, and a section is left after finitely many of them: a
\* hypothesis of EveryCallReturns only.
BodyFairness(p) ==
  WF_vars(RunsBody(p)) /\ WF_vars(ExitNested(p)) /\ SF_vars(Exit(p))

-----------------------------------------------------------------------------
(* Properties.                                                             *)

HoldsSlot(p) == \E s \in Slot : owner[s] = p

TypeOK ==
  /\ pc \in [Proc -> {"idle", "scan", "body"}]
  /\ job \in [Proc -> Job \cup {"none"}]
  /\ next \in [Proc -> 0 .. Cap]
  /\ polls \in [Proc -> 0 .. MaxPolls]
  /\ reason \in [Proc -> Reason \cup {"none"}]
  /\ owner \in [Slot -> Proc \cup {NoProc}]
  /\ held \in [Proc -> BOOLEAN]
  /\ nested \in [Proc -> 0 .. MaxNest]
  /\ work \in [Proc -> {"none", "running", "done", "refused"}]
  /\ orphans \subseteq Proc \X Job
  /\ crashes \in 0 .. MaxCrashes

\* No slot leaks and none is lost: a slot is locked by p exactly while p is
\* inside a section that acquired it, the re-entrancy flag of p says the same,
\* and p never has two slots (verify_lease's finally blocks, a crash, and every
\* way to fall open, in any order).
NoLeakedSlot ==
  \A p \in Proc :
    /\ held[p] <=> HoldsSlot(p)
    /\ held[p] <=> pc[p] = "body" /\ reason[p] = "acquired"
    /\ \A s, t \in Slot : owner[s] = p /\ owner[t] = p => s = t

\* "a thread that already holds the lease passes straight through": no process
\* polls for a slot that it has locked itself.
NoSelfWait == \A p \in Proc : pc[p] = "scan" => ~HoldsSlot(p)

ScoredRunning == {p \in Proc : job[p] = "verifier" /\ work[p] = "running"}

\* verifier._run is "the concurrency correctness boundary": whatever the other
\* callers do without a slot, at most Cap scored verifications run at a time.
ScoredWithinCap == Cardinality(ScoredRunning) <= Cap

\* What the slot files promise at every moment, with crashes, nested sections and
\* every way to fall open in any order: none leaks, nobody waits for itself, and
\* the scored verifications stay within the cap (verify_lease, verifier._run).
SlotsAccounted == TypeOK /\ NoLeakedSlot /\ NoSelfWait /\ ScoredWithinCap

Holders == {p \in Proc : HoldsSlot(p)}

Semaphore == INSTANCE CountingSemaphore
               WITH holders <- Holders, free <- Cap - Cardinality(Holders)

\* The slot files implement one counting semaphore for all processes.
ImplementsSemaphore == Semaphore!Spec

\* The lease never blocks real work: whoever waits stops waiting, even if the
\* holders of the slots never leave their sections.
LeaseNeverBlocks == \A p \in Proc : pc[p] = "scan" ~> pc[p] # "scan"

\* A call whose own body ends comes back to its caller, with its command run or
\* refused, whatever the others do with the slots.
EveryCallReturns ==
  \A p \in Proc : BodyFairness(p) => (pc[p] # "idle" ~> pc[p] = "idle")

=============================================================================
