SPECIFICATION FairSpec
CONSTANTS
  c1 = c1
  c2 = c2
  c3 = c3
  p1 = p1
  p2 = p2
  Calls = {c1, c2, c3}
  Proxies = {p1, p2}
  ProxyOf <- ProxyOfThree
  Keys = {k1}
  None = None
  MaxInFlight = 1
  MaxEntries = 1
  Threshold = 2
INVARIANTS
  BreakerConsistent
  SlotsExact
  OneCallPerKey
PROPERTIES
  CallsReturn
CHECK_DEADLOCK FALSE
