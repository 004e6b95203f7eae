--------------------------- MODULE MCWorkspaceCache ---------------------------
(* Instances of WorkspaceCache for TLC. *)
EXTENDS WorkspaceCache

TwoModules == <<"Impl", "Spec">>
=============================================================================
