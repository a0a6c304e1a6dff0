SPECIFICATION Spec
CONSTANTS
  Slots = {1, 2}
  Clients = {c1, c2, c3}
  MaxSessions = 1
  Restarting = {}
  MaxStarts = 1
  MaxManagers = 2
  Respawning = {}
  MaxGens = 1
PROPERTY
  DeniedOnlyWhenFull
CHECK_DEADLOCK FALSE
