SPECIFICATION Spec
CONSTANTS
  Slots = {1, 2}
  Clients = {c1, c2}
  MaxSessions = 1
  Restarting = {1}
  MaxStarts = 2
  MaxManagers = 2
  Respawning = {c1}
  MaxGens = 2
INVARIANTS
  PendingExact
  NeverCrowded
  NoStrayReservation
CHECK_DEADLOCK FALSE
