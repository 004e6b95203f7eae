------------------------------ MODULE MCStrat50 ------------------------------
(* Instances of Strat50 for TLC. *)
EXTENDS Strat50, TLC

\* Models and settings are compared only.
Symmetry == Permutations(Model) \cup Permutations(Config)
=============================================================================
