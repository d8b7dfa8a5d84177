SPECIFICATION Spec
CONSTANTS
  MaxLine = 24
  Scripts <- MCTwoRequests
  SplitKinds = {"array", "length", "payload"}
  Effect <- MCEffect
  Uninit <- MCUninit
  PeerResets = FALSE
INVARIANT NoAssertFailure
CHECK_DEADLOCK FALSE
