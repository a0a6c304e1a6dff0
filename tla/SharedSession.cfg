SPECIFICATION Spec
CONSTANTS
  Sessions = {s1, s2}
  Callers = {c1, c2}
  Procs = {p1, p2, p3}
  MaxSessions = 1
  IdleReap = TRUE
  HealthThreshold = 2
  MaxCallbacks = 1
  None = None
SYMMETRY Symmetry
INVARIANTS
  AtMostOneProcess
  NoLeakedProcess
  RefCountExact
  ActiveRequestsExact
  RecoveryDrainsFirst
  AdmittedSessionHasDownstream
CHECK_DEADLOCK FALSE
