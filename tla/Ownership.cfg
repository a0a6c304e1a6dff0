SPECIFICATION FairSpec
CONSTANTS
  Pgids = {g1, g2}
  MaxSpawns = 3
  Policy = "on-failure"
  None = None
PROPERTIES
  ImplementsCustody
  ReclaimSparesOthers
  OrphanReclaimedOrBlocks
CHECK_DEADLOCK FALSE
