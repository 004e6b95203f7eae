------------------------------ MODULE MCFairLoop ------------------------------
(* The instance of FairLoop for TLC: one task of each mode, one of them with *)
(* an MCP session.  No symmetry, for liveness.                               *)
EXTENDS FairLoop

MCConfigs ==
  {[mode |-> "plain", mcp |-> FALSE], [mode |-> "draft", mcp |-> TRUE],
   [mode |-> "strict", mcp |-> FALSE]}
=============================================================================
