----------------------------- MODULE MCScoredTask -----------------------------
(* Instances of ScoredTask for TLC. *)
EXTENDS ScoredTask, TLC

MCConfigs == {[mode |-> "strict", mcp |-> FALSE]}

\* Proof bodies differ by what the guards say of them only.
Symmetry == Permutations(Body \ (Mismatch \cup Forbidden))
=============================================================================
