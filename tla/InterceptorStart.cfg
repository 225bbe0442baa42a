SPECIFICATION Spec
CONSTANTS
  Keys = {action, mute}
  action = action
  mute = mute
  MicKey = mute
  MaxQueue = 2
  EarlyEvents = TRUE
PROPERTIES
  HeldAcrossStartIsSilent
CHECK_DEADLOCK FALSE
