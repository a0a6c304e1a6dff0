SPECIFICATION FairSpec
CONSTANTS
  Handlers = {h1, h2}
  Reaper = reaper
  Ids = {i1}
  MaxSessions = 1
  IdleTimeout = TRUE
  Grace = FALSE
  UniqueIds = FALSE
  None = None
INVARIANTS
  BooksExact
PROPERTIES
  CleanupEnds
  InitializeReturns
CHECK_DEADLOCK FALSE
