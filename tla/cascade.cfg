CONSTANTS
  Task = {t1, t2}
  Profiles = 2
  Options <- OneOrTwo
  Retries = 1
  KillMax = 1
SPECIFICATION FairSpec
INVARIANTS
  CascadeInOrder
PROPERTIES
  EvidenceKept
  CascadeEnds
CHECK_DEADLOCK FALSE
