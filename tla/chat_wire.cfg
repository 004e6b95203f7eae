CONSTANTS
  Configs <- MCConfigs
  MaxRequests = 3
  MaxCalls = 2
SPECIFICATION Spec
INVARIANTS
  RequestsWellFormed
  ProviderSeesTranscript
  ResultReachesDriver
CHECK_DEADLOCK FALSE
