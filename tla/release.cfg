CONSTANTS
  t1 = t1
  t2 = t2
  Task <- MCTask
  Outcomes <- MCOutcomes
  RunMax = 2
  EditMax = 1
  VersionMax = 2
  Rivals <- MCRivals
  Own <- MCOwn
  PageMax = 2
  Printed <- MCPrinted
SPECIFICATION PageSpec
INVARIANTS
  IndexIsDecided
  PlanIsSound
  RanksAreEarned
  PublishedAgrees
PROPERTIES
  EvidenceNotDisplaced
SYMMETRY TaskSymmetry
CHECK_DEADLOCK FALSE
