SPECIFICATION FairSpec
CONSTANTS
  Requests = {r1, r2}
  Policy = "on-failure"
  CleanExit = TRUE
  Crashes = TRUE
  MaxStarts = 2
  MaxRecycles = 1
INVARIANTS
  OldIdsInvalidated
  DrainWaits
PROPERTIES
  GatewayReopens
  RecycledIdsGo
CHECK_DEADLOCK FALSE
