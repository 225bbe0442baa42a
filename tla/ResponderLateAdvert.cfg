SPECIFICATION Spec
CONSTANTS
  Base = {esphome}
  Extra = {sendspin}
  MaxLadders = 2
  Rungs = 1
  WritesFail = FALSE
  LateAdverts = TRUE
  MaxAdverts = 1
  MaxSockets = 1
  MaxTroubles = 0
INVARIANTS
  GoodbyeRetiresEveryRecord
CHECK_DEADLOCK FALSE
