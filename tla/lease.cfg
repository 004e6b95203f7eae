CONSTANTS
  Proc = {p1, p2, p3}
  NoProc = NoProc
  Job = {"verifier"}
  Cap = 2
  HasFcntl = TRUE
  DirMayFail = TRUE
  MaxPolls = 1
  MaxNest = 1
  MaxCrashes = 1
SPECIFICATION WaitFairSpec
INVARIANTS
  SlotsAccounted
PROPERTIES
  ImplementsSemaphore
  LeaseNeverBlocks
  EveryCallReturns
