SPECIFICATION FairSpec
CONSTANTS
  Requests = {r1}
  Policy = "on-failure"
  CleanExit = FALSE
  Crashes = FALSE
  MaxStarts = 2
  MaxRecycles = 1
PROPERTIES
  RecycleReopens
CHECK_DEADLOCK FALSE
