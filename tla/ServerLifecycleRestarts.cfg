SPECIFICATION Spec
CONSTANTS
  Admins = {a1, a2}
  Signals = signals
  Main = main
  Handler = handler
  Managed = FALSE
  StopFails = FALSE
  MaxAdds = 1
  QueueCap = 3
INVARIANTS
  EventsFollowStates
CHECK_DEADLOCK FALSE
