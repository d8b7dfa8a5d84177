SPECIFICATION Spec
CONSTANTS
  MaxLine = 24
  Scripts <- MCSilent
  SplitKinds = {"payload"}
  Effect <- MCEffect
  Uninit <- MCUninit
  PeerResets = FALSE
PROPERTY AllAnswered
CHECK_DEADLOCK FALSE
