SPECIFICATION Spec
CONSTANTS
  Proxies = {p1}
  MaxGens = 3
  MaxSessions = 2
  Ids <- IdsOfAll
INVARIANTS
  CreditMatchesLife
  GateBeforeClose
  OneEntryPerSession
CHECK_DEADLOCK FALSE
