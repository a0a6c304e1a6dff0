SPECIFICATION FairSpec
CONSTANTS
  Sessions = {s1}
  Callers = {c1}
  Procs = {p1, p2}
  MaxSessions = 0
  IdleReap = TRUE
  HealthThreshold = 2
  MaxCallbacks = 1
  None = None
PROPERTIES
  AdmissionReturns
  UnreferencedIsReaped
  CloseAllReturns
CHECK_DEADLOCK FALSE
