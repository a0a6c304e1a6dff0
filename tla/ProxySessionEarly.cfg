SPECIFICATION Spec
CONSTANTS
  Proxies = {p1}
  MaxGens = 3
  MaxSessions = 2
  Ids <- IdsOfAll
PROPERTIES
  ClosedGainsNoPointer
CHECK_DEADLOCK FALSE
