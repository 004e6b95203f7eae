---------------------------- MODULE MCVerifyLease ----------------------------
(* The instance of VerifyLease for TLC: no symmetry, the run checks liveness. *)
EXTENDS VerifyLease
=============================================================================
