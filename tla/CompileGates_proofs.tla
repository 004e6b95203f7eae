------------------------- MODULE CompileGates_proofs -------------------------
(***************************************************************************)
(* Proofs about the two gates before a compilation: VerifyLease, for any   *)
(* set of processes, any number of slots and any bounds, and CiValidation, *)
(* for any cases, modules, imports and bounds.  The two share no variable. *)
(*                                                                         *)
(* The inductive invariant of the lease adds to TypeOK and NoLeakedSlot    *)
(* what a process may be running: only a process in a body runs a command, *)
(* and a scored command only with a slot.  Without it neither              *)
(* ScoredWithinCap nor the type of the orphans is inductive.               *)
(*                                                                         *)
(* That of the workflow says of each live run that its plan has every      *)
(* affected case that the routing can see in hand (Visible), or asked for  *)
(* everything (Sound), and of a live debt of main that main's run knows    *)
(* its base and has the case before it (Owes).  That a plan is sound rests *)
(* on AffectedIsSelected: a case whose inputs differ has, in the closure   *)
(* of its imports, a module that differs, or else the two closures would   *)
(* be the same (ClosureKept, by induction over the steps of the closure).  *)
(***************************************************************************)
EXTENDS VerifyLease, CiValidation, FiniteSetTheorems, NaturalsInduction,
        WellFoundedInduction, TLAPS


BodyInv ==
  \A p \in Proc :
    /\ pc[p] # "body" => work[p] = "none"
    /\ pc[p] # "idle" => job[p] \in Job
    /\ job[p] = "verifier" /\ work[p] = "running" => reason[p] = "acquired"

IInv == TypeOK /\ NoLeakedSlot /\ BodyInv

-----------------------------------------------------------------------------
\* The initial states satisfy the inductive invariant.
LEMMA InitInv == Init => IInv
  <1> SUFFICES ASSUME Init PROVE IInv
    OBVIOUS
  <1>1. TypeOK
    BY LeaseAssumption DEF Init, TypeOK, Slot, Reason
  <1>2. NoLeakedSlot
    BY LeaseAssumption DEF Init, NoLeakedSlot, HoldsSlot
  <1>3. BodyInv
    BY DEF Init, BodyInv
  <1> QED
    BY <1>1, <1>2, <1>3 DEF IInv

\* Every step, whichever process takes it, preserves the types.
LEMMA TypeStep == IInv /\ [Next]_vars => TypeOK'
  <1> SUFFICES ASSUME IInv, [Next]_vars PROVE TypeOK'
    OBVIOUS
  <1> USE LeaseAssumption DEF IInv, TypeOK
  <1>1. ASSUME NEW p \in Proc, NEW j \in Job, EnterOpen(p, j) PROVE TypeOK'
    BY <1>1 DEF EnterOpen, OpenReasons, Yield, Reason
  <1>2. ASSUME NEW p \in Proc, NEW j \in Job, Enter(p, j) PROVE TypeOK'
    BY <1>2 DEF Enter
  <1>3. ASSUME NEW p \in Proc, EnterNested(p) PROVE TypeOK'
    BY <1>3 DEF EnterNested
  <1>4. ASSUME NEW p \in Proc, ExitNested(p) PROVE TypeOK'
    BY <1>4 DEF ExitNested
  <1>5. ASSUME NEW p \in Proc, Acquire(p) PROVE TypeOK'
    BY <1>5 DEF Acquire, Yield, Reason, Slot
  <1>6. ASSUME NEW p \in Proc, SlotTaken(p) PROVE TypeOK'
    BY <1>6 DEF SlotTaken
  <1>7. ASSUME NEW p \in Proc, TimeOut(p) PROVE TypeOK'
    BY <1>7 DEF TimeOut, Yield, Reason
  <1>8. ASSUME NEW p \in Proc, Sleep(p) PROVE TypeOK'
    BY <1>8 DEF Sleep
  <1>9. ASSUME NEW p \in Proc, Start(p) \/ Refuse(p) \/ Finish(p) PROVE TypeOK'
    BY <1>9 DEF Start, Refuse, Finish
  <1>10. ASSUME NEW p \in Proc, CommandTimesOut(p) PROVE TypeOK'
    <2>1. pc[p] = "body" /\ job[p] \in Job
      BY <1>10 DEF CommandTimesOut, BodyInv
    <2> QED
      BY <1>10, <2>1 DEF CommandTimesOut
  <1>11. ASSUME NEW p \in Proc, Exit(p) PROVE TypeOK'
    BY <1>11 DEF Exit, Leave, Unlocked
  <1>12. ASSUME NEW p \in Proc, Crash(p) PROVE TypeOK'
    <2>1. work[p] = "running" => job[p] \in Job
      BY DEF BodyInv
    <2>2. orphans' \subseteq Proc \X Job
      BY <1>12, <2>1 DEF Crash
    <2>3. crashes' \in 0 .. MaxCrashes
      BY <1>12 DEF Crash
    <2> QED
      BY <1>12, <2>2, <2>3 DEF Crash, Leave
  <1>13. ASSUME NEW o \in orphans, OrphanEnds(o) PROVE TypeOK'
    BY <1>13 DEF OrphanEnds
  <1>14. CASE UNCHANGED vars
    BY <1>14 DEF vars
  <1> QED
    BY <1>1, <1>2, <1>3, <1>4, <1>5, <1>6, <1>7, <1>8, <1>9, <1>10, <1>11,
       <1>12, <1>13, <1>14 DEF Next, Step, Waits, RunsBody

\* Every step keeps the slots, the flags and the sections in agreement.
LEMMA SlotStep == IInv /\ [Next]_vars => NoLeakedSlot'
  <1> SUFFICES ASSUME IInv, [Next]_vars PROVE NoLeakedSlot'
    OBVIOUS
  <1> USE LeaseAssumption DEF IInv, TypeOK, NoLeakedSlot, HoldsSlot
  <1>1. ASSUME NEW p \in Proc, NEW j \in Job, EnterOpen(p, j) PROVE NoLeakedSlot'
    BY <1>1 DEF EnterOpen, OpenReasons, Yield
  <1>2. ASSUME NEW p \in Proc, NEW j \in Job, Enter(p, j) PROVE NoLeakedSlot'
    BY <1>2 DEF Enter, PassesThrough
  <1>3. ASSUME NEW p \in Proc, EnterNested(p) PROVE NoLeakedSlot'
    BY <1>3 DEF EnterNested
  <1>4. ASSUME NEW p \in Proc, ExitNested(p) PROVE NoLeakedSlot'
    BY <1>4 DEF ExitNested
  <1>5. ASSUME NEW p \in Proc, Acquire(p) PROVE NoLeakedSlot'
    <2>1. next[p] \in Slot /\ owner[next[p]] = NoProc
      BY <1>5 DEF Acquire, Locks, Slot
    <2>2. ~held[p] /\ \A s \in Slot : owner[s] # p
      BY <1>5 DEF Acquire
    <2> QED
      BY <1>5, <2>1, <2>2 DEF Acquire, Yield
  <1>6. ASSUME NEW p \in Proc, SlotTaken(p) PROVE NoLeakedSlot'
    BY <1>6 DEF SlotTaken
  <1>7. ASSUME NEW p \in Proc, TimeOut(p) PROVE NoLeakedSlot'
    BY <1>7 DEF TimeOut, Yield
  <1>8. ASSUME NEW p \in Proc, Sleep(p) PROVE NoLeakedSlot'
    BY <1>8 DEF Sleep
  <1>9. ASSUME NEW p \in Proc, RunsBody(p) PROVE NoLeakedSlot'
    BY <1>9 DEF RunsBody, Start, Refuse, Finish, CommandTimesOut
  <1>10. ASSUME NEW p \in Proc, Exit(p) PROVE NoLeakedSlot'
    BY <1>10 DEF Exit, Leave, Unlocked
  <1>11. ASSUME NEW p \in Proc, Crash(p) PROVE NoLeakedSlot'
    BY <1>11 DEF Crash, Leave
  <1>12. ASSUME NEW o \in orphans, OrphanEnds(o) PROVE NoLeakedSlot'
    BY <1>12 DEF OrphanEnds
  <1>13. CASE UNCHANGED vars
    BY <1>13 DEF vars
  <1> QED
    BY <1>1, <1>2, <1>3, <1>4, <1>5, <1>6, <1>7, <1>8, <1>9, <1>10, <1>11,
       <1>12, <1>13 DEF Next, Step, Waits

\* Every step runs commands only in bodies, scored ones only with a slot.
LEMMA BodyStep == IInv /\ [Next]_vars => BodyInv'
  <1> SUFFICES ASSUME IInv, [Next]_vars PROVE BodyInv'
    OBVIOUS
  <1> USE LeaseAssumption DEF IInv, TypeOK, BodyInv
  <1>1. ASSUME NEW p \in Proc, NEW j \in Job, EnterOpen(p, j) PROVE BodyInv'
    BY <1>1 DEF EnterOpen, OpenReasons, Yield
  <1>2. ASSUME NEW p \in Proc, NEW j \in Job, Enter(p, j) PROVE BodyInv'
    BY <1>2 DEF Enter, PassesThrough, NoLeakedSlot
  <1>3. ASSUME NEW p \in Proc, EnterNested(p) \/ ExitNested(p) PROVE BodyInv'
    BY <1>3 DEF EnterNested, ExitNested
  <1>4. ASSUME NEW p \in Proc, Acquire(p) PROVE BodyInv'
    BY <1>4 DEF Acquire, Yield
  <1>5. ASSUME NEW p \in Proc, SlotTaken(p) \/ Sleep(p) PROVE BodyInv'
    BY <1>5 DEF SlotTaken, Sleep
  <1>6. ASSUME NEW p \in Proc, TimeOut(p) PROVE BodyInv'
    BY <1>6 DEF TimeOut, Yield
  <1>7. ASSUME NEW p \in Proc, Start(p) PROVE BodyInv'
    BY <1>7 DEF Start, MayRun
  <1>8. ASSUME NEW p \in Proc, Refuse(p) PROVE BodyInv'
    BY <1>8 DEF Refuse
  <1>9. ASSUME NEW p \in Proc, Finish(p) \/ CommandTimesOut(p) PROVE BodyInv'
    BY <1>9 DEF Finish, CommandTimesOut
  <1>10. ASSUME NEW p \in Proc, Exit(p) \/ Crash(p) PROVE BodyInv'
    BY <1>10 DEF Exit, Crash, Leave
  <1>11. ASSUME NEW o \in orphans, OrphanEnds(o) PROVE BodyInv'
    BY <1>11 DEF OrphanEnds
  <1>12. CASE UNCHANGED vars
    BY <1>12 DEF vars
  <1> QED
    BY <1>1, <1>2, <1>3, <1>4, <1>5, <1>6, <1>7, <1>8, <1>9, <1>10, <1>11,
       <1>12 DEF Next, Step, Waits, RunsBody

\* The inductive invariant holds in every reachable state.
THEOREM Invariance == Spec => []IInv
  <1>1. IInv /\ [Next]_vars => IInv'
    BY TypeStep, SlotStep, BodyStep DEF IInv
  <1> QED
    BY InitInv, <1>1, PTL DEF Spec

\* The lease's state keeps its types (verify_lease and its callers).
THEOREM TypeCorrect == Spec => []TypeOK
  BY Invariance, PTL DEF IInv

\* No slot file stays locked after its section, none is locked twice by a
\* process, and the thread-local flag agrees with the flocks.
THEOREM SlotsDoNotLeak == Spec => []NoLeakedSlot
  BY Invariance, PTL DEF IInv

\* A process that polls has no slot, so it never waits for itself.
THEOREM NoSelfDeadlock == Spec => []NoSelfWait
  <1>1. IInv => NoSelfWait
    BY DEF IInv, NoLeakedSlot, NoSelfWait
  <1> QED
    BY Invariance, <1>1, PTL

-----------------------------------------------------------------------------
(* Counting.                                                               *)

\* A set whose members each own a slot of their own among S is no larger
\* than S.
LEMMA OwnersBounded ==
  ASSUME NEW S \in SUBSET Slot, NEW P \in SUBSET Proc,
         \A p \in P : \E s \in S : owner[s] = p
  PROVE  IsFiniteSet(P) /\ Cardinality(P) <= Cardinality(S) /\ IsFiniteSet(S)
  <1> DEFINE slotOf == [p \in P |-> CHOOSE s \in S : owner[s] = p]
  <1>1. \A p \in P : slotOf[p] \in S /\ owner[slotOf[p]] = p
    OBVIOUS
  <1>2. slotOf \in Injection(P, S)
    BY <1>1, Zenon DEF Injection, IsInjective
  <1>3. IsFiniteSet(S)
    <2>1. IsFiniteSet(Slot)
      BY FS_Interval, LeaseAssumption DEF Slot
    <2> QED
      BY <2>1, FS_Subset
  <1> QED
    BY <1>2, <1>3, FS_Injection

LEMMA SlotCount == IsFiniteSet(Slot) /\ Cardinality(Slot) = Cap
  BY FS_Interval, LeaseAssumption DEF Slot

\* At most Cap scored verifications run at a time, however many processes
\* fall open around them.
THEOREM ScoredBounded == Spec => []ScoredWithinCap
  <1>1. IInv => ScoredWithinCap
    <2> SUFFICES ASSUME IInv PROVE ScoredWithinCap
      OBVIOUS
    <2>1. \A p \in ScoredRunning : \E s \in Slot : owner[s] = p
      <3> SUFFICES ASSUME NEW p \in ScoredRunning PROVE HoldsSlot(p)
        BY DEF HoldsSlot
      <3>1. p \in Proc /\ reason[p] = "acquired" /\ pc[p] = "body"
        BY DEF IInv, BodyInv, TypeOK, ScoredRunning
      <3> QED
        BY <3>1 DEF IInv, NoLeakedSlot
    <2>2. ScoredRunning \in SUBSET Proc
      BY DEF ScoredRunning
    <2> QED
      BY <2>1, <2>2, OwnersBounded, SlotCount DEF ScoredWithinCap
  <1> QED
    BY Invariance, <1>1, PTL

\* The lease keeps its whole promise, for any processes, slots and bounds: no
\* slot leaks, nobody waits for itself, scored verifications stay within Cap.
THEOREM SlotsAreAccounted == Spec => []SlotsAccounted
  BY TypeCorrect, SlotsDoNotLeak, NoSelfDeadlock, ScoredBounded, PTL
     DEF SlotsAccounted

-----------------------------------------------------------------------------
(* Refinement.                                                             *)

\* The process that locks a slot file becomes a holder of the semaphore, and
\* a permit was left: the other holders own the other slots.
LEMMA AcquireRefines ==
  ASSUME IInv, NEW p \in Proc, Acquire(p)
  PROVE  Semaphore!Acquire(p)
  <1> USE LeaseAssumption DEF IInv, TypeOK
  <1>1. next[p] \in Slot /\ owner[next[p]] = NoProc
    BY DEF Acquire, Locks, Slot
  <1>2. p \notin Holders
    BY DEF Acquire, NoLeakedSlot, Holders
  <1>3. Cardinality(Holders) \in Nat /\ IsFiniteSet(Holders) /\ Cardinality(Holders) < Cap
    <2> DEFINE taken == next[p]
    <2>1. \A q \in Holders : \E s \in Slot \ {taken} : owner[s] = q
      BY <1>1 DEF Holders, HoldsSlot
    <2>2. Cardinality(Holders) <= Cardinality(Slot \ {taken}) /\ IsFiniteSet(Holders)
      BY <2>1, OwnersBounded DEF Holders
    <2>3. Cardinality(Slot \ {taken}) = Cap - 1
      BY <1>1, SlotCount, FS_RemoveElement
    <2>4. Cardinality(Holders) \in Nat
      BY <2>2, FS_CardinalityType
    <2> QED
      BY <2>2, <2>3, <2>4
  <1>4. Holders' = Holders \cup {p}
    <2>1. owner' = [owner EXCEPT ![next[p]] = p]
      BY DEF Acquire
    <2>2. \A q \in Proc : HoldsSlot(q)' <=> HoldsSlot(q) \/ q = p
      BY <1>1, <2>1 DEF HoldsSlot
    <2> QED
      BY <2>2 DEF Holders
  <1>5. Cardinality(Holders') = Cardinality(Holders) + 1
    BY <1>2, <1>3, <1>4, FS_AddElement
  <1> QED
    BY <1>2, <1>3, <1>4, <1>5 DEF Semaphore!Acquire

\* A process that leaves a section or dies gives its permit back if it had one.
LEMMA LeaveRefines ==
  ASSUME IInv, NEW p \in Proc, Exit(p) \/ Crash(p)
  PROVE  Semaphore!Release(p) \/ UNCHANGED Holders
  <1> USE LeaseAssumption DEF IInv, TypeOK
  <1>1. owner' = [s \in Slot |-> IF owner[s] = p THEN NoProc ELSE owner[s]]
    BY DEF Exit, Crash, Unlocked
  <1>2. \A q \in Proc : HoldsSlot(q)' <=> HoldsSlot(q) /\ q # p
    BY <1>1 DEF HoldsSlot
  <1>3. Holders' = Holders \ {p}
    BY <1>2 DEF Holders
  <1>4. IsFiniteSet(Holders) /\ Cardinality(Holders) \in Nat
    <2>1. \A q \in Holders : \E s \in Slot : owner[s] = q
      BY DEF Holders, HoldsSlot
    <2>2. IsFiniteSet(Holders)
      BY <2>1, OwnersBounded DEF Holders
    <2> QED
      BY <2>2, FS_CardinalityType
  <1>5. CASE p \in Holders
    <2>1. Cardinality(Holders') = Cardinality(Holders) - 1
      BY <1>3, <1>4, <1>5, FS_RemoveElement
    <2> QED
      BY <1>3, <1>4, <1>5, <2>1 DEF Semaphore!Release
  <1>6. CASE p \notin Holders
    BY <1>3, <1>6
  <1> QED
    BY <1>5, <1>6

\* The slot files, the flags and the poll loops implement one counting
\* semaphore with Cap permits for all the processes of the host.
THEOREM Refinement == Spec => ImplementsSemaphore
  <1> DEFINE left == Cap - Cardinality(Holders)
  <1>1. Init => Semaphore!Init
    <2> SUFFICES ASSUME Init PROVE Semaphore!Init
      OBVIOUS
    <2>1. Holders = {}
      BY LeaseAssumption DEF Init, Holders, HoldsSlot
    <2> QED
      BY <2>1, FS_EmptySet, LeaseAssumption DEF Semaphore!Init
  <1>2. IInv /\ [Next]_vars => [Semaphore!Next]_<<Holders, left>>
    <2> SUFFICES ASSUME IInv, [Next]_vars
                 PROVE  Semaphore!Next \/ UNCHANGED Holders
      OBVIOUS
    <2>1. ASSUME NEW p \in Proc, Acquire(p) PROVE Semaphore!Next
      BY <2>1, AcquireRefines DEF Semaphore!Next
    <2>2. ASSUME NEW p \in Proc, Exit(p) \/ Crash(p)
          PROVE  Semaphore!Next \/ UNCHANGED Holders
      BY <2>2, LeaveRefines DEF Semaphore!Next
    <2>3. ASSUME UNCHANGED owner PROVE UNCHANGED Holders
      BY <2>3 DEF Holders, HoldsSlot
    <2>4. ASSUME NEW p \in Proc, Step(p), ~Acquire(p), ~Exit(p), ~Crash(p)
          PROVE  UNCHANGED owner
      BY <2>4 DEF Step, Waits, RunsBody, EnterOpen, Enter, EnterNested,
                  ExitNested, SlotTaken, TimeOut, Sleep, Start, Refuse, Finish,
                  CommandTimesOut
    <2>5. ASSUME NEW o \in orphans, OrphanEnds(o) PROVE UNCHANGED owner
      BY <2>5 DEF OrphanEnds
    <2>6. CASE UNCHANGED vars
      BY <2>3, <2>6 DEF vars
    <2> QED
      BY <2>1, <2>2, <2>3, <2>4, <2>5, <2>6 DEF Next
  <1> QED
    BY <1>1, <1>2, Invariance, PTL DEF Spec, ImplementsSemaphore, Semaphore!Spec

-----------------------------------------------------------------------------
(* The closure of imports.                                                 *)

\* Induction over the naturals, for a set: it follows from the well-foundedness of
\* their order.
LEMMA SetInduction ==
  ASSUME NEW T, 0 \in T, \A n \in Nat : n \in T => n + 1 \in T
  PROVE  Nat \subseteq T
  <1> DEFINE U == Nat \ T
             R == OpToRel(<, Nat)
  <1> SUFFICES ASSUME U # {} PROVE FALSE
    OBVIOUS
  <1>1. IsWellFoundedOn(R, Nat)
    BY NatLessThanWellFounded, Zenon
  <1>2. PICK x \in U : \A y \in U : ~ (<<y, x>> \in R)
    <2> HIDE DEF R
    <2> QED
      BY <1>1, WFMin, Zenon
  <1>3. x \in Nat /\ x # 0 /\ x - 1 \in Nat /\ x - 1 < x /\ (x - 1) + 1 = x
    OBVIOUS
  <1>4. <<x - 1, x>> \in R
    BY <1>3 DEF OpToRel
  <1>5. x - 1 \in T
    BY <1>2, <1>3, <1>4
  <1> QED
    BY <1>3, <1>5

\* What is reached in one step more.
Nearby(t, S) == S \cup UNION {ImportedBy(t, m) : m \in S}

ReachedBy(t, c, r) ==
  r = [n \in 0 .. Cardinality(Module) |-> IF n = 0 THEN {Target[c]} ELSE Nearby(t, r[n - 1])]

\* The steps of the closure exist for each number of them.
LEMMA ReachIs ==
  ASSUME NEW t, NEW c
  PROVE  \E r : ReachedBy(t, c, r) /\ Closure(t, c) = r[Cardinality(Module)]
  <1> DEFINE N == Cardinality(Module)
             Body(h, n) == IF n = 0 THEN {Target[c]} ELSE Nearby(t, h[n - 1])
             IsUpto(h, k) == h = [n \in 0 .. k |-> Body(h, n)]
             upto == CHOOSE h : IsUpto(h, N)
             Built == {k \in Nat : \E h : IsUpto(h, k)}
  <1>1. N \in Nat
    BY CiAssumption, FS_CardinalityType
  <1>2. 0 \in Built
    <2>1. IsUpto([n \in 0 .. 0 |-> {Target[c]}], 0)
      OBVIOUS
    <2> QED
      BY <2>1
  <1>3. ASSUME NEW k \in Nat, k \in Built PROVE k + 1 \in Built
    <2>1. PICK h : IsUpto(h, k)
      BY <1>3
    <2> DEFINE g == [n \in 0 .. k + 1 |-> IF n = k + 1 THEN Body(h, k + 1) ELSE h[n]]
    <2>2. ASSUME NEW n \in 0 .. k + 1 PROVE g[n] = Body(g, n)
      <3>1. CASE n = k + 1
        BY <3>1
      <3>2. CASE n # k + 1
        <4>1. n \in 0 .. k /\ (n # 0 => n - 1 \in 0 .. k /\ n - 1 # k + 1)
          BY <3>2
        <4>2. h[n] = Body(h, n)
          BY <2>1, <4>1
        <4>3. g[n] = h[n] /\ (n # 0 => g[n - 1] = h[n - 1])
          BY <3>2, <4>1
        <4> QED
          BY <4>2, <4>3
      <3> QED
        BY <3>1, <3>2
    <2>3. IsUpto(g, k + 1)
      <3> DEFINE e == [n \in 0 .. k + 1 |-> Body(g, n)]
      <3>1. g = e
        BY <2>2
      <3> QED
        BY <3>1
    <2> HIDE DEF IsUpto, g
    <2> QED
      BY <2>3
  <1>4. IsUpto(upto, N)
    <2> HIDE DEF IsUpto, N
    <2>1. \E h : IsUpto(h, N)
      <3> HIDE DEF Built
      <3>1. N \in Built
        BY <1>1, <1>2, <1>3, SetInduction
      <3> QED
        BY <3>1 DEF Built
    <2> QED
      BY <2>1
  <1>5. ReachedBy(t, c, upto)
    <2> HIDE DEF upto
    <2> QED
      BY <1>4 DEF ReachedBy
  <1>6. Closure(t, c) = upto[N]
    BY Zenon DEF Closure, Nearby, upto
  <1> HIDE DEF upto
  <1> QED
    BY <1>5, <1>6

\* A file's versions are those of its kind.
Tree == {t \in [File -> 0 .. Unreadable] : \A f \in File : t[f] \in Versions(f)}

\* Only modules are imported.
LEMMA ImportsAreModules ==
  ASSUME NEW t \in Tree, NEW m \in Module
  PROVE  ImportedBy(t, m) \subseteq Module
  <1>1. Lean(m) \in File /\ Lean(m).kind = "lean"
    BY DEF Lean, File
  <1>2. t[Lean(m)] \in 0 .. VersionMax
    BY <1>1, CiAssumption DEF Tree, Versions
  <1>3. CASE t[Lean(m)] = 0
    BY <1>3 DEF ImportedBy
  <1>4. CASE t[Lean(m)] # 0
    <2>1. t[Lean(m)] \in 1 .. VersionMax /\ VersionMax \in Nat
      BY <1>2, <1>4 DEF VersionMax
    <2>2. Imports[m][t[Lean(m)]] \in SUBSET Module
      BY <2>1, CiAssumption
    <2> QED
      BY <1>4, <2>2 DEF ImportedBy
  <1> QED
    BY <1>3, <1>4

\* The closure is made of modules, and each step of it is a part of the whole.
LEMMA ReachGrows ==
  ASSUME NEW t \in Tree, NEW c \in Case, NEW r, ReachedBy(t, c, r)
  PROVE  \A n \in 0 .. Cardinality(Module) :
           r[n] \subseteq Module /\ r[n] \subseteq r[Cardinality(Module)]
  <1> DEFINE N == Cardinality(Module)
             Typed == {n \in Nat : n <= N => r[n] \subseteq Module}
             Part == {d \in Nat : d <= N => r[N - d] \subseteq r[N]}
  <1>1. N \in Nat
    BY CiAssumption, FS_CardinalityType
  <1> HIDE DEF N
  <1>2. \A n \in 0 .. N : r[n] = IF n = 0 THEN {Target[c]} ELSE Nearby(t, r[n - 1])
    BY DEF ReachedBy, N
  <1>3. 0 \in Typed
    BY <1>1, <1>2, CiAssumption
  <1>4. ASSUME NEW n \in Nat, n \in Typed PROVE n + 1 \in Typed
    <2> SUFFICES ASSUME n + 1 <= N PROVE r[n + 1] \subseteq Module
      OBVIOUS
    <2>1. r[n] \subseteq Module /\ r[n + 1] = Nearby(t, r[n])
      BY <1>1, <1>2, <1>4
    <2>2. \A m \in r[n] : ImportedBy(t, m) \subseteq Module
      BY <2>1, ImportsAreModules
    <2> QED
      BY <2>1, <2>2 DEF Nearby
  <1>5. 0 \in Part
    BY <1>1
  <1>6. ASSUME NEW d \in Nat, d \in Part PROVE d + 1 \in Part
    <2> SUFFICES ASSUME d + 1 <= N PROVE r[N - (d + 1)] \subseteq r[N]
      OBVIOUS
    <2>1. N - d \in 0 .. N /\ N - d # 0 /\ (N - d) - 1 = N - (d + 1)
      BY <1>1
    <2>2. r[N - d] = Nearby(t, r[N - (d + 1)])
      BY <1>2, <2>1
    <2>3. r[N - d] \subseteq r[N]
      BY <1>1, <1>6
    <2> QED
      BY <2>2, <2>3 DEF Nearby
  <1>7. Nat \subseteq Typed /\ Nat \subseteq Part
    <2> HIDE DEF Typed, Part
    <2> QED
      BY <1>3, <1>4, <1>5, <1>6, SetInduction
  <1> SUFFICES ASSUME NEW n \in 0 .. N PROVE r[n] \subseteq Module /\ r[n] \subseteq r[N]
    BY DEF N
  <1>8. n \in Nat /\ n <= N /\ N - n \in Nat /\ N - n <= N /\ N - (N - n) = n
    BY <1>1
  <1>9. n \in Typed /\ N - n \in Part
    BY <1>7, <1>8
  <1> QED
    BY <1>8, <1>9

LEMMA ClosureOfModules ==
  ASSUME NEW t \in Tree, NEW c \in Case PROVE Closure(t, c) \subseteq Module
  <1>1. PICK r : ReachedBy(t, c, r) /\ Closure(t, c) = r[Cardinality(Module)]
    BY ReachIs
  <1>2. Cardinality(Module) \in Nat
    BY CiAssumption, FS_CardinalityType
  <1> QED
    BY <1>1, <1>2, ReachGrows

\* A case whose modules are what they were is made of the same modules.
LEMMA ClosureKept ==
  ASSUME NEW base \in Tree, NEW head \in Tree, NEW c \in Case,
         \A m \in Closure(head, c) : base[Lean(m)] = head[Lean(m)]
  PROVE  Closure(base, c) = Closure(head, c)
  <1> DEFINE N == Cardinality(Module)
  <1>1. PICK r : ReachedBy(base, c, r) /\ Closure(base, c) = r[N]
    BY ReachIs
  <1>2. PICK s : ReachedBy(head, c, s) /\ Closure(head, c) = s[N]
    BY ReachIs
  <1>3. N \in Nat
    BY CiAssumption, FS_CardinalityType
  <1>4. \A n \in 0 .. N : s[n] \subseteq s[N]
    BY <1>2, ReachGrows
  <1> HIDE DEF N
  <1>5. \A n \in 0 .. N : /\ r[n] = IF n = 0 THEN {Target[c]} ELSE Nearby(base, r[n - 1])
                          /\ s[n] = IF n = 0 THEN {Target[c]} ELSE Nearby(head, s[n - 1])
    BY <1>1, <1>2 DEF ReachedBy, N
  <1> DEFINE Same == {n \in Nat : n <= N => r[n] = s[n]}
  <1>6. 0 \in Same
    BY <1>3, <1>5
  <1>7. ASSUME NEW n \in Nat, n \in Same PROVE n + 1 \in Same
    <2> SUFFICES ASSUME n + 1 <= N PROVE r[n + 1] = s[n + 1]
      OBVIOUS
    <2>1. r[n] = s[n] /\ r[n + 1] = Nearby(base, r[n]) /\ s[n + 1] = Nearby(head, s[n])
      BY <1>3, <1>5, <1>7
    <2>2. \A m \in s[n] : base[Lean(m)] = head[Lean(m)]
      BY <1>2, <1>3, <1>4
    <2>3. \A m \in s[n] : ImportedBy(base, m) = ImportedBy(head, m)
      BY <2>2 DEF ImportedBy
    <2>4. Nearby(base, s[n]) = Nearby(head, s[n])
      BY <2>3 DEF Nearby
    <2> QED
      BY <2>1, <2>4
  <1>8. Nat \subseteq Same
    <2> HIDE DEF Same
    <2> QED
      BY <1>6, <1>7, SetInduction
  <1> QED
    BY <1>1, <1>2, <1>3, <1>8

-----------------------------------------------------------------------------
(* The routing.                                                            *)

\* A case that the difference can affect, and that is not overlooked, is selected,
\* or the full validation is asked for.
LEMMA AffectedIsSelected ==
  ASSUME NEW base \in Tree, NEW head \in Tree, NEW copied,
         NEW c \in Visible(base, head),
         ~Selection(TRUE, base, head, copied).full
  PROVE  c \in Selection(TRUE, base, head, copied).cases
  <1> DEFINE changes == Changes(base, head, copied)
  <1>1. Readable(head)
    BY DEF Selection, Full
  <1>2. /\ Selection(TRUE, base, head, copied).cases = UNION {Selects(head, ch) : ch \in changes}
        /\ Selection(TRUE, base, head, copied).full = (\E ch \in changes : NeedsFull(head, ch))
    BY <1>1, Zenon DEF Selection
  <1>3. \A ch \in changes : ~NeedsFull(head, ch)
    BY <1>2
  <1>4. ASSUME NEW f \in File, base[f] # head[f]
        PROVE  \E ch \in changes :
                 /\ ch.file = f
                 /\ ch.status = IF head[f] = 0 THEN "D" ELSE IF base[f] = 0 THEN "A" ELSE "M"
    <2> DEFINE how == IF head[f] = 0 THEN "D" ELSE IF base[f] = 0 THEN "A" ELSE "M"
               ch == [status |-> how, file |-> f]
    <2>1. ch \in changes
      BY <1>4 DEF Changes
    <2>2. ch.file = f /\ ch.status = how
      OBVIOUS
    <2> HIDE DEF ch
    <2> QED
      BY <2>1, <2>2
  <1>5. /\ c \in Case /\ c \in Active(head)
        /\ c \in Affected(base, head) /\ c \notin Overlooked(base, head)
    BY DEF Visible, Affected, Active
  <1>6. CASE c \notin Active(base)
    <2> DEFINE f == Manifest(c)
    <2>1. f \in File /\ f.kind = "case" /\ f.name = c
      BY <1>5 DEF Manifest, File
    <2>2. head[f] # 0 /\ base[f] = 0
      BY <1>5, <1>6 DEF Active
    <2> HIDE DEF f
    <2>3. PICK ch \in changes : ch.file = f /\ ch.status = "A"
      BY <1>4, <2>1, <2>2
    <2>4. c \in Selects(head, ch)
      BY <2>1, <2>3 DEF Selects
    <2> QED
      BY <1>2, <2>4
  <1>7. CASE c \in Active(base)
    <2>1. Inputs(base, c) # Inputs(head, c)
      BY <1>5, <1>7 DEF Affected
    <2>2. \A f \in File : f.kind = "shared" => base[f] = head[f]
      <3> SUFFICES ASSUME NEW f \in File, f.kind = "shared", base[f] # head[f] PROVE FALSE
        OBVIOUS
      <3>1. PICK ch \in changes : ch.file = f
        BY <1>4
      <3> QED
        BY <1>3, <3>1 DEF NeedsFull
    <2>3. \E m \in Closure(head, c) : base[Lean(m)] # head[Lean(m)]
      <3> SUFFICES ASSUME \A m \in Closure(head, c) : base[Lean(m)] = head[Lean(m)] PROVE FALSE
        OBVIOUS
      <3>1. Closure(base, c) = Closure(head, c)
        BY <1>5, ClosureKept
      <3> DEFINE files == {Lean(m) : m \in Closure(head, c)} \cup {g \in File : g.kind = "shared"}
      <3>2. \A f \in files : base[f] = head[f]
        BY <2>2
      <3>3. /\ Inputs(base, c) = {<<f, base[f]>> : f \in files}
            /\ Inputs(head, c) = {<<f, head[f]>> : f \in files}
        BY <3>1 DEF Inputs
      <3> HIDE DEF files
      <3>4. Inputs(base, c) = Inputs(head, c)
        BY <3>2, <3>3
      <3> QED
        BY <2>1, <3>4
    <2> DEFINE changed == {f \in File : base[f] # head[f] /\ <<f, head[f]>> \in Inputs(head, c)}
    <2>4. changed # {}
      <3>1. PICK m \in Closure(head, c) : base[Lean(m)] # head[Lean(m)]
        BY <2>3
      <3>2. Lean(m) \in File
        BY <1>5, ClosureOfModules DEF Lean, File
      <3>3. <<Lean(m), head[Lean(m)]>> \in Inputs(head, c)
        BY DEF Inputs
      <3> QED
        BY <3>1, <3>2, <3>3
    <2>5. PICK f \in changed :
            f.kind # "lean" \/ f.name \in Listed(head, c) \/ Users(head, f.name) = {}
      BY <1>1, <1>5, <1>7, <2>4 DEF Overlooked
    <2>6. f \in File /\ base[f] # head[f] /\ \E m \in Closure(head, c) : f = Lean(m)
      <3>1. f \in {Lean(m) : m \in Closure(head, c)} \cup {g \in File : g.kind = "shared"}
        BY DEF Inputs
      <3> QED
        BY <2>2, <3>1
    <2>7. f.kind = "lean" /\ f.name \in Module
      BY <1>5, <2>6, ClosureOfModules DEF Lean
    <2> HIDE DEF changed
    <2>8. PICK ch \in changes :
            /\ ch.file = f
            /\ ch.status = IF head[f] = 0 THEN "D" ELSE IF base[f] = 0 THEN "A" ELSE "M"
      BY <1>4, <2>6
    <2>9. ch.status # "D" /\ Users(head, f.name) # {}
      BY <1>3, <2>7, <2>8 DEF NeedsFull
    <2>10. c \in Users(head, f.name)
      BY <1>5, <2>5, <2>7, <2>9 DEF Users
    <2>11. Selects(head, ch) = Users(head, f.name)
      BY <2>7, <2>8, <2>9 DEF Selects
    <2> QED
      BY <1>2, <2>8, <2>10, <2>11
  <1> QED
    BY <1>6, <1>7

-----------------------------------------------------------------------------
(* The runs of the workflow.                                               *)

Ended == {NoRun, Over("passed"), Over("failed")}

LiveRun == [event : {"push", "pull_request", "dispatch"}, known : BOOLEAN, base : Tree,
            head : Tree, stage : {"plan", "queued", "compile"}, full : BOOLEAN,
            todo : SUBSET Case, compiled : SUBSET Case]

\* A planned run has every affected case in hand, or asked for everything; a
\* manual request compares with nothing.
Sound(r) ==
  /\ r.event = "dispatch" => ~r.known
  /\ r.stage # "plan" =>
       r.full \/ Visible(r.base, r.head) \subseteq r.todo \cup r.compiled

GoodRun == Ended \cup {r \in LiveRun : Sound(r)}

\* The run still has to do with a change to the case.
Owes(r, c) ==
  /\ r \in LiveRun /\ r.known
  /\ c \in Visible(r.base, r.head)
  /\ r.stage = "plan" \/ c \in r.todo

MainGroup == Group("push", "main")

TreesInv ==
  /\ tip \in [Branch -> Tree] /\ fork \in Tree
  /\ open \in BOOLEAN

RunsInv == runs \in [Groups -> GoodRun]

DebtInv ==
  /\ debt \in [Case -> {"none", "live", "flagged", "lost"}]
  /\ \A c \in Case : debt[c] = "live" => Owes(runs[MainGroup], c)

CiInv == TreesInv /\ RunsInv /\ DebtInv

\* A run of a group that is not over has the fields of a run.
LEMMA RunCases ==
  ASSUME NEW r \in GoodRun
  PROVE  /\ r.stage \in {"plan", "queued", "compile"} => r \in LiveRun /\ Sound(r)
         /\ r.stage \in {"none", "plan", "queued", "compile", "passed", "failed"}
  BY DEF GoodRun, Ended, NoRun, Over, LiveRun

\* Two requests of one branch are in one group.
LEMMA GroupsAre ==
  /\ MainGroup \in Groups /\ Group("push", "codex") \in Groups
  /\ Group("pull_request", "codex") \in Groups
  /\ Group("dispatch", "main") = MainGroup
  /\ Group("push", "codex") # MainGroup /\ Group("pull_request", "codex") # MainGroup
  /\ \A g \in Groups : g.name = "main" <=> g = MainGroup
  BY DEF Group, Groups, MainGroup

\* A run that starts is sound.
LEMMA RunStarts ==
  ASSUME NEW event \in {"push", "pull_request", "dispatch"}, NEW known \in BOOLEAN,
         NEW base \in Tree, NEW head \in Tree,
         event = "dispatch" => ~known
  PROVE  LET r == Run(event, known, base, head) IN
           /\ r \in LiveRun /\ r \in GoodRun /\ (known => r.known) /\ r.base = base
           /\ r.head = head /\ r.stage = "plan"
  <1> DEFINE r == Run(event, known, base, head)
  <1>1. r = [event |-> event, known |-> known, base |-> base, head |-> head, stage |-> "plan",
             full |-> FALSE, todo |-> {}, compiled |-> {}]
    BY DEF Run
  <1> HIDE DEF r
  <1>2. r \in LiveRun
    BY <1>1 DEF LiveRun
  <1>3. /\ r.known = known /\ r.base = base /\ r.head = head /\ r.stage = "plan"
        /\ r.event = event
    BY <1>1
  <1>4. Sound(r)
    BY <1>3 DEF Sound
  <1> QED
    BY <1>2, <1>3, <1>4 DEF GoodRun, r

\* The files of a merge commit are those of one side or the other.
LEMMA MergedIsTree == ASSUME TreesInv, NEW t \in Tree PROVE Merged(t) \in Tree
  <1>1. "main" \in Branch /\ tip["main"] \in Tree
    BY DEF TreesInv, Branch
  <1>2. \A f \in File : Merged(t)[f] = t[f] \/ Merged(t)[f] = tip["main"][f]
    BY DEF Merged
  <1>3. Merged(t) = [f \in File |-> Merged(t)[f]]
    BY DEF Merged
  <1> QED
    BY <1>1, <1>2, <1>3 DEF Tree

\* An edit leaves a version that the file can have.
LEMMA EditedIsTree == ASSUME NEW t \in Tree, NEW u \in Edited(t) PROVE u \in Tree
  <1> DEFINE Once(s) == UNION {{[s EXCEPT ![f] = v] : v \in Versions(f) \ {s[f]}} : f \in File}
  <1>1. u \in Once(t) \/ \E s \in Once(t) : u \in Once(s)
    BY Zenon DEF Edited
  <1>2. ASSUME NEW s \in Tree, NEW x \in Once(s) PROVE x \in Tree
    <2>1. PICK f \in File : \E v \in Versions(f) : x = [s EXCEPT ![f] = v]
      BY <1>2
    <2>2. PICK v \in Versions(f) : x = [s EXCEPT ![f] = v]
      BY <2>1
    <2>3. v \in 0 .. Unreadable
      BY <2>2 DEF Versions, Unreadable, VersionMax
    <2> QED
      BY <2>2, <2>3 DEF Tree
  <1> HIDE DEF Once
  <1> QED
    BY <1>1, <1>2

-----------------------------------------------------------------------------
(* The steps.                                                              *)

LEMMA CiInitFacts == CiInit => CiInv
  <1> SUFFICES ASSUME CiInit PROVE CiInv
    OBVIOUS
  <1> DEFINE t == [f \in File |-> 1]
  <1>1. t \in Tree
    BY DEF Tree, Versions, Unreadable, VersionMax
  <1> HIDE DEF t
  <1>2. tip = [b \in Branch |-> t] /\ fork = t /\ open = FALSE
    BY DEF CiInit, t
  <1>3. TreesInv
    BY <1>1, <1>2 DEF TreesInv
  <1>4. RunsInv
    BY DEF CiInit, RunsInv, GoodRun, Ended
  <1>5. DebtInv
    BY DEF CiInit, DebtInv
  <1> QED
    BY <1>3, <1>4, <1>5 DEF CiInv

\* What main gives up is no longer live, and what it owes is what changed.
LEMMA DebtFacts ==
  ASSUME DebtInv, NEW base, NEW head
  PROVE  /\ Lost(debt) \in [Case -> {"none", "live", "flagged", "lost"}]
         /\ \A c \in Case : Lost(debt)[c] # "live"
         /\ Owing(Lost(debt), base, head) \in [Case -> {"none", "live", "flagged", "lost"}]
         /\ \A c \in Case : Owing(Lost(debt), base, head)[c] = "live" => c \in Visible(base, head)
  <1>1. debt \in [Case -> {"none", "live", "flagged", "lost"}]
    BY DEF DebtInv
  <1>2. /\ Lost(debt) \in [Case -> {"none", "live", "flagged", "lost"}]
        /\ \A c \in Case : Lost(debt)[c] # "live"
    BY <1>1 DEF Lost
  <1> QED
    BY <1>2 DEF Owing

\* Main's new run owes what its difference can affect.
LEMMA MainStarts ==
  ASSUME CiInv, NEW t \in Tree, tip' \in [Branch -> Tree], fork' \in Tree,
         open' \in BOOLEAN,
         runs' = Started("main", TRUE, t), debt' = Owing(Lost(debt), tip["main"], t)
  PROVE  CiInv'
  <1> DEFINE r == Run("push", TRUE, tip["main"], t)
  <1>1. tip["main"] \in Tree
    BY DEF CiInv, TreesInv, Branch
  <1>2. /\ r \in LiveRun /\ r \in GoodRun /\ r.known /\ r.base = tip["main"]
        /\ r.head = t /\ r.stage = "plan"
    <2>1. PICK known \in BOOLEAN : known
      OBVIOUS
    <2>2. PICK b \in Tree : b = tip["main"]
      BY <1>1
    <2>3. LET x == Run("push", known, b, t) IN
            /\ x \in LiveRun /\ x \in GoodRun /\ (known => x.known) /\ x.base = b
            /\ x.head = t /\ x.stage = "plan"
      BY RunStarts
    <2>4. r = Run("push", known, b, t)
      BY <2>1, <2>2
    <2> HIDE DEF r
    <2> QED
      BY <2>1, <2>2, <2>3, <2>4
  <1>3. runs' = [runs EXCEPT ![MainGroup] = r] /\ MainGroup \in Groups
    BY GroupsAre DEF Started, Base, MainGroup
  <1> HIDE DEF r
  <1>4. runs' \in [Groups -> GoodRun] /\ runs'[MainGroup] = r
    BY <1>2, <1>3 DEF CiInv, RunsInv
  <1>5. /\ debt' \in [Case -> {"none", "live", "flagged", "lost"}]
        /\ \A c \in Case : debt'[c] = "live" => c \in Visible(tip["main"], t)
    BY DebtFacts DEF CiInv
  <1>6. \A c \in Case : debt'[c] = "live" => Owes(r, c)
    BY <1>2, <1>5 DEF Owes
  <1>7. TreesInv'
    BY DEF CiInv, TreesInv
  <1>8. RunsInv'
    BY <1>4 DEF RunsInv
  <1>9. DebtInv'
    BY <1>4, <1>5, <1>6 DEF DebtInv, MainGroup, Group, Owes
  <1> QED
    BY <1>7, <1>8, <1>9 DEF CiInv

\* Runs of other groups leave the debts alone.
LEMMA OthersMove ==
  ASSUME CiInv, tip' \in [Branch -> Tree], fork' \in Tree, open' \in BOOLEAN,
         runs' \in [Groups -> GoodRun], runs'[MainGroup] = runs[MainGroup],
         UNCHANGED debt
  PROVE  CiInv'
  <1>1. TreesInv' /\ RunsInv'
    BY DEF TreesInv, RunsInv
  <1>2. DebtInv'
    BY DEF CiInv, DebtInv, MainGroup, Group, Owes
  <1> QED
    BY <1>1, <1>2 DEF CiInv

LEMMA PushMainFacts ==
  ASSUME CiInv, PushMain PROVE CiInv'
  <1>1. PICK t \in Edited(tip["main"]) :
          /\ edits' = edits + Distance(tip["main"], t)
          /\ tip' = [tip EXCEPT !["main"] = t]
          /\ runs' = Started("main", TRUE, t)
          /\ debt' = Owing(Lost(debt), tip["main"], t)
          /\ UNCHANGED <<fork, open, requests>>
    BY DEF PushMain
  <1>2. /\ tip \in [Branch -> Tree] /\ tip["main"] \in Tree /\ fork \in Tree
        /\ open \in BOOLEAN
    BY DEF CiInv, TreesInv, Branch
  <1>3. t \in Tree
    BY <1>2, EditedIsTree
  <1>4. tip' \in [Branch -> Tree]
    BY <1>1, <1>2, <1>3
  <1> QED
    BY <1>1, <1>2, <1>3, <1>4, MainStarts

LEMMA PushCodexFacts == ASSUME CiInv, PushCodex PROVE CiInv'
  <1>1. PICK t \in Edited(tip["codex"]), known \in BOOLEAN :
          /\ tip' = [tip EXCEPT !["codex"] = t]
          /\ runs' = IF open
               THEN [Started("codex", known, t) EXCEPT ![Group("pull_request", "codex")] = PullRequest(t)]
               ELSE Started("codex", known, t)
          /\ UNCHANGED <<fork, open, debt, requests>>
    BY DEF PushCodex
  <1>2. /\ tip \in [Branch -> Tree] /\ fork \in Tree /\ open \in BOOLEAN
        /\ "main" \in Branch /\ "codex" \in Branch /\ runs \in [Groups -> GoodRun]
    BY DEF CiInv, TreesInv, RunsInv, Branch
  <1>3. t \in Tree /\ tip["main"] \in Tree /\ tip["codex"] \in Tree
    BY <1>2, EditedIsTree
  <1>4. Merged(t) \in Tree
    BY <1>3, MergedIsTree DEF CiInv
  <1>5. Run("push", known, tip["codex"], t) \in GoodRun
    <2>1. PICK b \in Tree : b = tip["codex"]
      BY <1>3
    <2>2. Run("push", known, b, t) \in GoodRun
      BY <1>1, <1>3, RunStarts
    <2> QED
      BY <2>1, <2>2
  <1>6. PullRequest(t) \in GoodRun
    <2>1. PICK b \in Tree, m \in Tree, k \in BOOLEAN : b = tip["main"] /\ m = Merged(t) /\ k
      BY <1>3, <1>4
    <2>2. Run("pull_request", k, b, m) \in GoodRun
      BY <1>1, <2>1, RunStarts
    <2> QED
      BY <2>1, <2>2 DEF PullRequest
  <1>7. Started("codex", known, t) =
          [runs EXCEPT ![Group("push", "codex")] = Run("push", known, tip["codex"], t)]
    BY DEF Started, Base
  <1>8. runs' \in [Groups -> GoodRun] /\ runs'[MainGroup] = runs[MainGroup]
    BY <1>1, <1>2, <1>5, <1>6, <1>7, GroupsAre
  <1>9. tip' \in [Branch -> Tree]
    BY <1>1, <1>2, <1>3
  <1> QED
    BY <1>1, <1>2, <1>8, <1>9, OthersMove

LEMMA OpenFacts == ASSUME CiInv, OpenPullRequest PROVE CiInv'
  <1>1. /\ open' = TRUE
        /\ runs' = [runs EXCEPT ![Group("pull_request", "codex")] = PullRequest(tip["codex"])]
        /\ UNCHANGED <<tip, fork, debt, edits, requests>>
    BY DEF OpenPullRequest
  <1>2. /\ tip \in [Branch -> Tree] /\ fork \in Tree
        /\ tip["main"] \in Tree /\ tip["codex"] \in Tree /\ runs \in [Groups -> GoodRun]
    BY DEF CiInv, TreesInv, RunsInv, Branch
  <1>3. PullRequest(tip["codex"]) \in GoodRun
    <2>1. PICK b \in Tree, m \in Tree, k \in BOOLEAN :
            b = tip["main"] /\ m = Merged(tip["codex"]) /\ k
      BY <1>2, MergedIsTree DEF CiInv
    <2>2. Run("pull_request", k, b, m) \in GoodRun
      BY <1>1, <2>1, RunStarts
    <2> QED
      BY <2>1, <2>2 DEF PullRequest
  <1>4. runs' \in [Groups -> GoodRun] /\ runs'[MainGroup] = runs[MainGroup]
    BY <1>1, <1>2, <1>3, GroupsAre
  <1> QED
    BY <1>1, <1>2, <1>4, OthersMove

LEMMA MergeFacts == ASSUME CiInv, Merge PROVE CiInv'
  <1>1. PICK t : t = Merged(tip["codex"])
    OBVIOUS
  <1>2. /\ tip' = [b \in Branch |-> t] /\ fork' = t /\ open' = FALSE
        /\ runs' = Started("main", TRUE, t)
        /\ debt' = Owing(Lost(debt), tip["main"], t)
    BY <1>1 DEF Merge
  <1>3. t \in Tree
    <2>1. tip["codex"] \in Tree
      BY DEF CiInv, TreesInv, Branch
    <2> QED
      BY <1>1, <2>1, MergedIsTree DEF CiInv
  <1>4. tip' \in [Branch -> Tree] /\ fork' \in Tree /\ open' \in BOOLEAN
    BY <1>2, <1>3
  <1> QED
    BY <1>2, <1>3, <1>4, MainStarts

\* A main run that gives its debts up, or has none, may become anything.
LEMMA MainFree ==
  ASSUME CiInv, UNCHANGED <<tip, fork, open>>, NEW r \in GoodRun,
         runs' = [runs EXCEPT ![MainGroup] = r],
         debt' \in [Case -> {"none", "live", "flagged", "lost"}],
         \A c \in Case : debt'[c] = "live" => Owes(r, c)
  PROVE  CiInv'
  <1>1. TreesInv'
    BY DEF CiInv, TreesInv
  <1>2. runs' \in [Groups -> GoodRun] /\ runs'[MainGroup] = r
    BY GroupsAre DEF CiInv, RunsInv
  <1>3. DebtInv'
    BY <1>2 DEF DebtInv, MainGroup, Group, Owes
  <1> QED
    BY <1>1, <1>2, <1>3 DEF CiInv, RunsInv

\* A run of another group has nothing to do with main's debts.
LEMMA OtherFree ==
  ASSUME CiInv, UNCHANGED <<tip, fork, open, debt>>, NEW r \in GoodRun,
         NEW g \in Groups, g # MainGroup, runs' = [runs EXCEPT ![g] = r]
  PROVE  CiInv'
  <1>1. runs' \in [Groups -> GoodRun] /\ runs'[MainGroup] = runs[MainGroup]
    BY GroupsAre DEF CiInv, RunsInv
  <1>2. tip' \in [Branch -> Tree] /\ fork' \in Tree /\ open' \in BOOLEAN
    BY DEF CiInv, TreesInv
  <1> QED
    BY <1>1, <1>2, OthersMove

LEMMA RequestFacts == ASSUME CiInv, Request PROVE CiInv'
  <1>1. /\ runs' = [runs EXCEPT ![MainGroup] = Run("dispatch", FALSE, tip["main"], tip["main"])]
        /\ debt' = Lost(debt) /\ UNCHANGED <<tip, fork, open>>
    BY GroupsAre DEF Request
  <1>2. Run("dispatch", FALSE, tip["main"], tip["main"]) \in GoodRun
    <2>1. PICK b \in Tree, k \in BOOLEAN : b = tip["main"] /\ ~k
      BY DEF CiInv, TreesInv, Branch
    <2>2. Run("dispatch", k, b, b) \in GoodRun
      BY <2>1, RunStarts
    <2> QED
      BY <2>1, <2>2
  <1> DEFINE r == Run("dispatch", FALSE, tip["main"], tip["main"])
  <1>3. debt' \in [Case -> {"none", "live", "flagged", "lost"}] /\ \A c \in Case : debt'[c] # "live"
    BY <1>1, DebtFacts DEF CiInv
  <1> HIDE DEF r
  <1> QED
    BY <1>1, <1>2, <1>3, MainFree DEF r

\* What a group's run becomes has to be sound, and main's has to owe what is live.
LEMMA RunMoves ==
  ASSUME CiInv, UNCHANGED <<tip, fork, open>>, NEW g \in Groups, NEW r \in GoodRun,
         runs' = [runs EXCEPT ![g] = r],
         debt' \in [Case -> {"none", "live", "flagged", "lost"}],
         g.name # "main" => debt' = debt,
         g.name = "main" => \A c \in Case : debt'[c] = "live" => Owes(r, c)
  PROVE  CiInv'
  <1>1. CASE g = MainGroup
    BY <1>1, MainFree, GroupsAre
  <1>2. CASE g # MainGroup
    BY <1>2, OtherFree, GroupsAre
  <1> QED
    BY <1>1, <1>2

\* What a live run is made of, and what main's owes.
LEMMA RunFacts ==
  ASSUME CiInv, NEW g \in Groups
  PROVE  /\ runs \in [Groups -> GoodRun] /\ runs[g] \in GoodRun
         /\ runs[g].stage \in {"plan", "queued", "compile"} => runs[g] \in LiveRun /\ Sound(runs[g])
         /\ debt \in [Case -> {"none", "live", "flagged", "lost"}]
         /\ g.name = "main" => \A c \in Case : debt[c] = "live" => Owes(runs[g], c)
  <1>1. runs \in [Groups -> GoodRun] /\ runs[g] \in GoodRun
    BY DEF CiInv, RunsInv
  <1>2. runs[g].stage \in {"plan", "queued", "compile"} => runs[g] \in LiveRun /\ Sound(runs[g])
    BY <1>1, RunCases
  <1>3. /\ debt \in [Case -> {"none", "live", "flagged", "lost"}]
        /\ \A c \in Case : debt[c] = "live" => Owes(runs[MainGroup], c)
    BY DEF CiInv, DebtInv
  <1> QED
    BY <1>1, <1>2, <1>3, GroupsAre

\* The plan of a run names cases, and answers for what it knows of.
LEMMA SelectionFacts ==
  ASSUME NEW known \in BOOLEAN, NEW base \in Tree, NEW head \in Tree,
         NEW copied \in SUBSET Copyable(base, head)
  PROVE  LET s == Selection(known, base, head, copied) IN
           /\ s.full \in BOOLEAN /\ s.cases \subseteq Case
           /\ ~s.full => known /\ Visible(base, head) \subseteq s.cases
  <1> DEFINE s == Selection(known, base, head, copied)
             changes == Changes(base, head, copied)
  <1>1. CASE ~known \/ ~Readable(head)
    BY <1>1 DEF Selection, Full
  <1>2. CASE known /\ Readable(head)
    <2>1. /\ s.cases = UNION {Selects(head, ch) : ch \in changes}
          /\ s.full = (\E ch \in changes : NeedsFull(head, ch))
      BY <1>2, Zenon DEF Selection
    <2>2. \A ch \in changes : ch.file \in File
      BY DEF Changes, Copyable
    <2>3. ASSUME NEW ch \in changes PROVE Selects(head, ch) \subseteq Case
      <3>1. ch.file.kind = "case" => ch.file.name \in Case
        BY <2>2, CiAssumption DEF File
      <3> QED
        BY <3>1 DEF Selects, Active, Users
    <2>4. s.cases \subseteq Case /\ s.full \in BOOLEAN
      BY <2>1, <2>3
    <2>5. Selection(TRUE, base, head, copied) = s
      BY <1>2, Zenon DEF Selection
    <2>6. ~s.full => Visible(base, head) \subseteq s.cases
      <3> HIDE DEF s
      <3> QED
        BY <1>2, <2>5, AffectedIsSelected
    <2> QED
      BY <1>2, <2>4, <2>6
  <1> QED
    BY <1>1, <1>2

\* A plan takes every case that its difference can affect in hand.
LEMMA PlanFacts == ASSUME CiInv, NEW g \in Groups, Plan(g) PROVE CiInv'
  <1>1. PICK copied \in SUBSET Copyable(runs[g].base, runs[g].head) :
          LET s == Selection(runs[g].known, runs[g].base, runs[g].head, copied) IN
            /\ runs' = [runs EXCEPT ![g].stage = "queued", ![g].full = s.full, ![g].todo = s.cases]
            /\ debt' = Flagged(g, s.full)
    BY Zenon DEF Plan
  <1>2. runs[g].stage = "plan" /\ UNCHANGED <<tip, fork, open>>
    BY DEF Plan
  <1>3. PICK q : q = runs[g]
    OBVIOUS
  <1>4. q \in LiveRun /\ Sound(q) /\ q.stage = "plan"
    BY <1>2, <1>3, RunFacts
  <1>5. PICK s : s = Selection(q.known, q.base, q.head, copied)
    OBVIOUS
  <1>6. q.known \in BOOLEAN /\ q.base \in Tree /\ q.head \in Tree
    BY <1>4 DEF LiveRun
  <1>7. /\ s.full \in BOOLEAN /\ s.cases \subseteq Case
        /\ ~s.full => q.known /\ Visible(q.base, q.head) \subseteq s.cases
    <2>1. PICK known \in BOOLEAN, base \in Tree, head \in Tree :
            known = q.known /\ base = q.base /\ head = q.head
      BY <1>6
    <2>2. copied \in SUBSET Copyable(base, head) /\ s = Selection(known, base, head, copied)
      BY <1>1, <1>3, <1>5, <2>1
    <2>3. /\ s.full \in BOOLEAN /\ s.cases \subseteq Case
          /\ ~s.full => known /\ Visible(base, head) \subseteq s.cases
      BY <2>1, <2>2, SelectionFacts
    <2> QED
      BY <2>1, <2>3
  <1> DEFINE r == [q EXCEPT !.stage = "queued", !.full = s.full, !.todo = s.cases]
  <1>8. runs' = [runs EXCEPT ![g] = r] /\ debt' = Flagged(g, s.full)
    <2>1. runs' = [runs EXCEPT ![g].stage = "queued", ![g].full = s.full, ![g].todo = s.cases]
      BY <1>1, <1>3, <1>5
    <2>2. runs \in [Groups -> GoodRun]
      BY RunFacts
    <2> QED
      BY <1>1, <1>3, <1>5, <2>1, <2>2
  <1>9. /\ r \in LiveRun /\ r.stage = "queued" /\ r.full = s.full /\ r.todo = s.cases
        /\ r.known = q.known /\ r.base = q.base /\ r.head = q.head /\ r.event = q.event
    BY <1>4, <1>7 DEF LiveRun
  <1> HIDE DEF r
  <1>10. r \in GoodRun
    BY <1>4, <1>7, <1>9 DEF Sound, GoodRun
  <1>11. /\ debt \in [Case -> {"none", "live", "flagged", "lost"}]
         /\ g.name = "main" => \A c \in Case : debt[c] = "live" => Owes(q, c)
    BY <1>3, RunFacts
  <1>12. /\ debt' \in [Case -> {"none", "live", "flagged", "lost"}]
         /\ g.name # "main" => debt' = debt
         /\ \A c \in Case : debt'[c] = "live" => debt[c] = "live"
         /\ g.name = "main" /\ s.full => \A c \in Case : debt'[c] # "live"
    BY <1>8, <1>11 DEF Flagged
  <1>13. g.name = "main" => \A c \in Case : debt'[c] = "live" => Owes(r, c)
    BY <1>7, <1>9, <1>11, <1>12 DEF Owes
  <1> QED
    BY <1>2, <1>8, <1>10, <1>12, <1>13, RunMoves

\* A run that is skipped selected nothing, so it owes nothing.
LEMMA SkipFacts == ASSUME CiInv, NEW g \in Groups, Skip(g) PROVE CiInv'
  <1>1. /\ runs[g].stage = "queued" /\ runs[g].todo = {}
        /\ runs' = [runs EXCEPT ![g] = Over("passed")] /\ UNCHANGED <<tip, fork, open, debt>>
    BY DEF Skip, Idle
  <1>2. Over("passed") \in GoodRun
    BY DEF GoodRun, Ended
  <1>3. /\ debt \in [Case -> {"none", "live", "flagged", "lost"}]
        /\ g.name = "main" => \A c \in Case : debt[c] = "live" => Owes(runs[g], c)
    BY RunFacts
  <1>4. \A c \in Case : ~Owes(runs[g], c)
    BY <1>1 DEF Owes
  <1>5. g.name = "main" => \A c \in Case : debt'[c] = "live" => Owes(Over("passed"), c)
    BY <1>1, <1>3, <1>4
  <1> QED
    BY <1>1, <1>2, <1>3, <1>5, RunMoves

LEMMA TakeRunnerFacts == ASSUME CiInv, NEW g \in Groups, TakeRunner(g) PROVE CiInv'
  <1>1. /\ runs[g].stage = "queued"
        /\ runs' = [runs EXCEPT ![g].stage = "compile"] /\ UNCHANGED <<tip, fork, open, debt>>
    BY DEF TakeRunner
  <1>2. PICK q : q = runs[g]
    OBVIOUS
  <1>3. /\ runs \in [Groups -> GoodRun] /\ q \in LiveRun /\ Sound(q)
        /\ debt \in [Case -> {"none", "live", "flagged", "lost"}]
        /\ g.name = "main" => \A c \in Case : debt[c] = "live" => Owes(q, c)
    BY <1>1, <1>2, RunFacts
  <1> DEFINE r == [q EXCEPT !.stage = "compile"]
  <1>4. runs' = [runs EXCEPT ![g] = r]
    BY <1>1, <1>2, <1>3
  <1>5. /\ r \in LiveRun /\ r.stage = "compile" /\ r.full = q.full /\ r.todo = q.todo
        /\ r.known = q.known /\ r.base = q.base /\ r.head = q.head /\ r.event = q.event
        /\ r.compiled = q.compiled
    BY <1>3 DEF LiveRun
  <1> HIDE DEF r
  <1>6. r \in GoodRun
    BY <1>1, <1>2, <1>3, <1>5 DEF Sound, GoodRun
  <1>7. \A c \in Case : Owes(q, c) => Owes(r, c)
    BY <1>1, <1>2, <1>5 DEF Owes
  <1>8. g.name = "main" => \A c \in Case : debt'[c] = "live" => Owes(r, c)
    BY <1>1, <1>3, <1>7
  <1> QED
    BY <1>1, <1>3, <1>4, <1>6, <1>8, RunMoves

\* A manual request compares with nothing, so it owes nothing.
LEMMA FullCheckFacts == ASSUME CiInv, NEW g \in Groups, FullCheck(g) PROVE CiInv'
  <1>1. /\ runs[g].stage = "compile" /\ runs[g].event = "dispatch"
        /\ UNCHANGED <<tip, fork, open, debt>>
    BY DEF FullCheck
  <1>2. PICK end \in {"passed", "failed"} : runs' = [runs EXCEPT ![g] = Over(end)]
    BY DEF FullCheck
  <1>3. Over(end) \in GoodRun
    BY DEF GoodRun, Ended
  <1>4. /\ Sound(runs[g])
        /\ debt \in [Case -> {"none", "live", "flagged", "lost"}]
        /\ g.name = "main" => \A c \in Case : debt[c] = "live" => Owes(runs[g], c)
    BY <1>1, RunFacts
  <1>5. \A c \in Case : ~Owes(runs[g], c)
    BY <1>1, <1>4 DEF Owes, Sound
  <1>6. g.name = "main" => \A c \in Case : debt'[c] = "live" => Owes(Over(end), c)
    BY <1>1, <1>4, <1>5
  <1> QED
    BY <1>1, <1>2, <1>3, <1>4, <1>6, RunMoves

\* A compiled case leaves what is to do for what is done, and its debt is paid.
LEMMA CompileFacts == ASSUME CiInv, NEW g \in Groups, Compile(g) PROVE CiInv'
  <1>1. PICK q : q = runs[g]
    OBVIOUS
  <1>2. PICK c : c = NextCase(q.todo)
    OBVIOUS
  <1>3. /\ q.stage = "compile" /\ q.todo # {} /\ UNCHANGED <<tip, fork, open>>
        /\ \/ runs' = [runs EXCEPT ![g] = Compiled(@, c)] /\ debt' = Paid(g, c)
           \/ /\ runs' = [runs EXCEPT ![g] = Over("failed")]
              /\ debt' = IF g.name = "main" THEN Lost(debt) ELSE debt
    BY <1>1, <1>2, Zenon DEF Compile
  <1>4. /\ runs \in [Groups -> GoodRun] /\ q \in LiveRun /\ Sound(q)
        /\ debt \in [Case -> {"none", "live", "flagged", "lost"}]
        /\ g.name = "main" => \A d \in Case : debt[d] = "live" => Owes(q, d)
    BY <1>1, <1>3, RunFacts
  <1>5. q.todo \subseteq Case /\ q.compiled \subseteq Case /\ c \in q.todo /\ c \in Case
    BY <1>2, <1>3, <1>4 DEF LiveRun, NextCase
  <1>6. CASE runs' = [runs EXCEPT ![g] = Compiled(@, c)] /\ debt' = Paid(g, c)
    <2>1. runs' = [runs EXCEPT ![g] = Compiled(q, c)]
      BY <1>1, <1>4, <1>6
    <2>2. /\ debt' \in [Case -> {"none", "live", "flagged", "lost"}]
          /\ g.name # "main" => debt' = debt
          /\ g.name = "main" => debt'[c] # "live"
          /\ \A d \in Case : debt'[d] = "live" => debt[d] = "live"
      BY <1>4, <1>5, <1>6 DEF Paid
    <2>3. CASE q.todo = {c}
      <3>1. Compiled(q, c) = Over("passed") /\ Over("passed") \in GoodRun
        BY <2>3 DEF Compiled, GoodRun, Ended
      <3>2. g.name = "main" => \A d \in Case : debt'[d] # "live"
        BY <1>3, <1>4, <2>2, <2>3 DEF Owes
      <3> QED
        BY <1>3, <2>1, <2>2, <3>1, <3>2, RunMoves
    <2>4. CASE q.todo # {c}
      <3> DEFINE r == [q EXCEPT !.todo = q.todo \ {c}, !.compiled = q.compiled \cup {c}]
      <3>1. Compiled(q, c) = r
        BY <2>4 DEF Compiled
      <3>2. /\ r \in LiveRun /\ r.stage = q.stage /\ r.full = q.full /\ r.todo = q.todo \ {c}
            /\ r.known = q.known /\ r.base = q.base /\ r.head = q.head /\ r.event = q.event
            /\ r.compiled = q.compiled \cup {c}
        BY <1>4, <1>5 DEF LiveRun
      <3> HIDE DEF r
      <3>3. r \in GoodRun
        BY <1>3, <1>4, <3>2 DEF Sound, GoodRun
      <3>4. \A d \in Case : Owes(q, d) /\ d # c => Owes(r, d)
        BY <1>3, <3>2 DEF Owes
      <3>5. g.name = "main" => \A d \in Case : debt'[d] = "live" => Owes(r, d)
        BY <1>4, <2>2, <3>4
      <3> QED
        BY <1>3, <2>1, <2>2, <3>1, <3>3, <3>5, RunMoves
    <2> QED
      BY <2>3, <2>4
  <1>7. CASE /\ runs' = [runs EXCEPT ![g] = Over("failed")]
             /\ debt' = IF g.name = "main" THEN Lost(debt) ELSE debt
    <2>1. Over("failed") \in GoodRun
      BY DEF GoodRun, Ended
    <2>2. /\ Lost(debt) \in [Case -> {"none", "live", "flagged", "lost"}]
          /\ \A d \in Case : Lost(debt)[d] # "live"
      BY DebtFacts DEF CiInv
    <2> QED
      BY <1>3, <1>4, <1>7, <2>1, <2>2, RunMoves
  <1> QED
    BY <1>3, <1>6, <1>7

\* The invariant is inductive.
THEOREM Validation == CiSpec => []CiInv
  <1>1. CiInit => CiInv
    BY CiInitFacts
  <1>2. CiInv /\ [CiNext]_ciVars => CiInv'
    <2> SUFFICES ASSUME CiInv, [CiNext]_ciVars PROVE CiInv'
      OBVIOUS
    <2>1. CASE UNCHANGED ciVars
      BY <2>1 DEF ciVars, CiInv, TreesInv, RunsInv, DebtInv, Owes, MainGroup, Group
    <2>2. CASE Quiet
      BY <2>1, <2>2 DEF Quiet
    <2>3. ASSUME NEW g \in Groups, Plan(g) \/ Skip(g) \/ TakeRunner(g) \/ FullCheck(g) \/ Compile(g)
          PROVE  CiInv'
      BY <2>3, PlanFacts, SkipFacts, TakeRunnerFacts, FullCheckFacts, CompileFacts
    <2> QED
      BY <2>1, <2>2, <2>3, PushMainFacts, PushCodexFacts, OpenFacts, MergeFacts, RequestFacts
         DEF CiNext
  <1> QED
    BY <1>1, <1>2, PTL DEF CiSpec

\* A run compiles each case that its difference can affect and that is not
\* overlooked before it passes, or asked for the full validation, whatever modules
\* there are, whatever they import and whichever the cases list (select_changes).
THEOREM RoutingAnswers == CiSpec => []AffectedAreAnswered
  <1>1. CiInv => AffectedAreAnswered
    <2> SUFFICES ASSUME CiInv, NEW g \in Groups, runs[g].stage \in {"queued", "compile"}
                 PROVE  \/ runs[g].full
                        \/ Visible(runs[g].base, runs[g].head)
                             \subseteq runs[g].todo \cup runs[g].compiled
      BY DEF AffectedAreAnswered
    <2>1. Sound(runs[g])
      BY RunFacts
    <2> QED
      BY <2>1 DEF Sound
  <1> QED
    BY <1>1, Validation, PTL

\* No change of main falls between the ranges of two runs.
THEOREM RangesMeet == CiSpec => []MainIsCovered
  <1>1. CiInv => MainIsCovered
    <2> SUFFICES ASSUME CiInv, NEW c \in Case, debt[c] = "live"
                 PROVE  /\ Live(MainGroup)
                        /\ runs[MainGroup].stage = "plan" \/ c \in runs[MainGroup].todo
      BY DEF MainIsCovered, MainGroup
    <2>1. Owes(runs[MainGroup], c)
      BY DEF CiInv, DebtInv
    <2> QED
      BY <2>1 DEF Owes, LiveRun, Live
  <1> QED
    BY <1>1, Validation, PTL
===============================================================================
