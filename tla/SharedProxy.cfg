SPECIFICATION FairSpec
CONSTANTS
  Clients = {c1}
  MaxStreams = 2
INVARIANTS
  ClosedIsFinal
PROPERTIES
  LeaseEndsWithSession
  UpstreamEndsWithSession
  GoneClientIsReaped
CHECK_DEADLOCK FALSE
