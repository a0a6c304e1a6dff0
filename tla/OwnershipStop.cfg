SPECIFICATION Spec
CONSTANTS
  Pgids = {g1, g2}
  MaxSpawns = 2
  Policy = "on-failure"
  None = None
PROPERTIES
  StopEndsCleanup
CHECK_DEADLOCK FALSE
