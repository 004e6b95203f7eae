-------------------------- MODULE CountingSemaphore --------------------------
(***************************************************************************)
(* What the verification lease promises to whoever asks for it: a counting *)
(* semaphore with Cap permits that is shared by every process of the host. *)
(* A process that wants a permit may also be served without one (the lease *)
(* is advisory), so this module speaks of the permits only; see VerifyLease*)
(* for the protocol over slot files that implements it.                    *)
(***************************************************************************)
EXTENDS Integers

CONSTANTS Proc,   \* the processes
          Cap     \* the number of permits

VARIABLES holders,  \* the processes that hold a permit
          free      \* how many permits are left

Init == holders = {} /\ free = Cap

Acquire(p) ==
  /\ p \notin holders
  /\ free > 0
  /\ holders' = holders \cup {p}
  /\ free' = free - 1

\* A permit comes back when its holder leaves the section or dies.
Release(p) ==
  /\ p \in holders
  /\ holders' = holders \ {p}
  /\ free' = free + 1

Next == \E p \in Proc : Acquire(p) \/ Release(p)

Spec == Init /\ [][Next]_<<holders, free>>
=============================================================================
