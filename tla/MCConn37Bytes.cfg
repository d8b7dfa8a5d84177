SPECIFICATION Spec
CONSTANTS
  MaxLine = 64
  Scripts <- MC37Script
  SplitKinds = {"payload"}
  Effect <- MCEffect
  Uninit <- MCUninit
  PeerResets = FALSE
INVARIANT NoRequestLeftBehind
CHECK_DEADLOCK FALSE
