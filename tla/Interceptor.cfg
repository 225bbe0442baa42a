SPECIFICATION FairSpec
CONSTANTS
  Keys = {action, mute}
  action = action
  mute = mute
  MicKey = mute
  MaxQueue = 2
  EarlyEvents = TRUE
INVARIANTS
  TypeOK
  NoStuckKey
  InterceptedStaysUnseen
  DownsAndUpsAlternate
PROPERTIES
  ReleasesReachAndroid
