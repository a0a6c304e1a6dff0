SPECIFICATION Spec
CONSTANTS
  Slots = {1}
  Clients = {c1, c2}
  MaxSessions = 2
  Restarting = {}
  MaxStarts = 1
  MaxManagers = 2
  Respawning = {}
  MaxGens = 1
PROPERTY
  DeniedOnlyWhenFull
CHECK_DEADLOCK FALSE
