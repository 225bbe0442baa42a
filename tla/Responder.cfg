SPECIFICATION FairSpec
CONSTANTS
  Base = {esphome}
  Extra = {sendspin}
  MaxLadders = 2
  Rungs = 1
  WritesFail = TRUE
  LateAdverts = FALSE
  MaxAdverts = 2
  MaxSockets = 2
  MaxTroubles = 1
INVARIANTS
  TypeOK
  WithdrawnStaysWithdrawn
  GoodbyeIsLast
PROPERTIES
  AddedIsAnnounced
CHECK_DEADLOCK FALSE
