SPECIFICATION Spec
CONSTANTS
  Admins = {a1}
  Signals = signals
  Main = main
  Handler = handler
  Managed = TRUE
  StopFails = TRUE
  MaxAdds = 3
  QueueCap = 2
INVARIANTS
  RunningIsBound
  StoppedIsUnbound
  ShutdownIsClean
CONSTRAINT
  UntilRaced
CHECK_DEADLOCK FALSE
