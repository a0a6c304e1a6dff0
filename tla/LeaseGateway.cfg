SPECIFICATION Spec
CONSTANTS
  Handlers = {h1, h2}
  Reaper = reaper
  Ids = {i1, i2}
  MaxSessions = 2
  IdleTimeout = FALSE
  Grace = TRUE
  UniqueIds = TRUE
  None = None
SYMMETRY Symmetry
INVARIANTS
  CapacityBound
  NoRequestUnderCleanup
  ExpiringHasOneOwner
  DeletedStaysClosed
CHECK_DEADLOCK FALSE
