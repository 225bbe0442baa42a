SPECIFICATION FairSpec
CONSTANTS
  Callers = {c1, c2}
  MaxAsks = 3
  MaxSessions = 2
  MaxFailures = 1
  MaxRebuilds = 1
  MaxRestarts = 1
INVARIANTS
  TypeOK
  OffIsClosed
  ListedIsServed
  LastAskWins
PROPERTIES
  WorkerComesBack
  OnIsReachable
CHECK_DEADLOCK FALSE
