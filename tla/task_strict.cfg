CONSTANTS
  Body = {b1, b2}
  NoBody = NoBody
  Mismatch = {}
  Forbidden = {}
  Configs <- MCConfigs
  MaxRepairs = 2
  MaxAutoWrites = 2
  MaxAttempts = 3
  MaxToolCalls = 6
  MaxTurns = 6
  MaxNonProof = 24
  MaxSandbox = 16
  TokenBudget = TRUE
  ContextLimit = TRUE
  MaxCalls = 1
  MaxTactics = 2
  Placeholder = TRUE
SYMMETRY Symmetry
SPECIFICATION ScoreSpec
INVARIANTS
  StrictRolesKept
  StrictScoreIsSound
  GradedProofIsEvidence
CHECK_DEADLOCK FALSE
