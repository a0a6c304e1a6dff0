SPECIFICATION FairSpec
CONSTANTS
  Requests = {r1}
  Policy = "on-failure"
  CleanExit = TRUE
  Crashes = FALSE
  MaxStarts = 2
  MaxRecycles = 1
PROPERTIES
  RecycleReplaces
CHECK_DEADLOCK FALSE
