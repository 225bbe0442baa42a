SPECIFICATION FairSpec
CONSTANTS
  Delays = {0, 1}
  KeepTries = 2
  Refusing = {"keeper"}
  Unreadable = FALSE
  LateSessions = FALSE
  EarlySets = FALSE
  MaxSets = 2
  MaxClients = 2
  MaxRefusals = 1
INVARIANTS
  TypeOK
  SettledMeansKept
  KeptAtExit
PROPERTIES
  WritesCatchUp
CHECK_DEADLOCK FALSE
