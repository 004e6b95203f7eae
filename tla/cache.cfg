CONSTANTS
  Runner = {r1, r2}
  Cap = 1
  Public <- TwoModules
  Secret = {"Proofs"}
  CrashMax = 1
SPECIFICATION Spec
INVARIANTS
  CacheIsShared
  WorkspaceIsSound
PROPERTIES
  WorkspaceComes
CHECK_DEADLOCK FALSE
