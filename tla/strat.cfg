CONSTANTS
  Model = {m1, m2}
  Size = 2
  Config = {p1, p2}
  InfraThreshold = 2
  MaxCycles = 1
  None = None
  Torn = Torn
  MaxStarts = 2
SYMMETRY Symmetry
SPECIFICATION Spec
INVARIANTS
  CampaignSound
  OneVerdict
  RetriesBounded
PROPERTIES
  ImplementsScoreboard
  LaneSpends
CHECK_DEADLOCK FALSE
