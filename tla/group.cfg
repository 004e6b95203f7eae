CONSTANTS
  MaxAttempts = 2
  Streaming = TRUE
  Accepting <- Endpoints
  Task = {"t1", "t2"}
  NoiseMax = 1
  DeathMax = 1
  ProbeAttempts = 2
  StepMax = 3
  Configs <- AllConfigs
SPECIFICATION GroupSpec
INVARIANTS
  RequestsBounded
  AnswersAreCurrent
  RunAccounted
  ArtifactAccepted
PROPERTIES
  GroupEnds
CHECK_DEADLOCK FALSE
