SPECIFICATION Spec
CONSTANTS
  Tries = 2
  MaxGuards = 5
INVARIANTS
  TypeOK
  NoForgottenGrab
  EveryGuardIsWatched
PROPERTIES
  LateWatcherIsHarmless
