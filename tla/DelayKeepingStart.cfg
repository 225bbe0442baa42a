SPECIFICATION Spec
CONSTANTS
  Delays = {0, 1}
  KeepTries = 2
  Refusing = {}
  Unreadable = FALSE
  LateSessions = FALSE
  EarlySets = TRUE
  MaxSets = 2
  MaxClients = 1
  MaxRefusals = 0
INVARIANTS
  SettledMeansKept
CHECK_DEADLOCK FALSE
