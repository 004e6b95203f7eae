CONSTANTS
  Body = {b1, bad, ban}
  NoBody = NoBody
  Mismatch = {bad}
  Forbidden = {ban}
  Configs <- MCConfigs
  MaxRepairs = 1
  MaxAutoWrites = 1
  MaxAttempts = 2
  MaxToolCalls = 4
  MaxTurns = 20
  MaxNonProof = 2
  MaxSandbox = 16
  TokenBudget = TRUE
  ContextLimit = TRUE
  MaxCalls = 2
  MaxTactics = 2
SPECIFICATION FairSpec
INVARIANTS
  AttemptAccounted
  FileIsEvidence
PROPERTIES
  EveryStepSpends
  EveryAttemptEnds
CHECK_DEADLOCK FALSE
