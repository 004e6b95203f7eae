------------------------------ MODULE MCCascade ------------------------------
(* Instances of Cascade for TLC. *)
EXTENDS Cascade

\* One worker or two; the supervisor's runners retry for ever.
OneOrTwo == {[jobs |-> 1, forever |-> FALSE], [jobs |-> 2, forever |-> FALSE],
             [jobs |-> 2, forever |-> TRUE]}
=============================================================================
