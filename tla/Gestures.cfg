SPECIFICATION FairSpec
CONSTANTS
  HoldTime = 3
  Gap = 2
  MaxPresses = 3
INVARIANTS
  EveryPressOnce
PROPERTIES
  NoRunClosesUnderAKey
  HoldsAreEarned
  Implements
  EveryPressReported
