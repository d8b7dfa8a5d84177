SPECIFICATION Spec
CONSTANTS
  MaxLine = 24
  Scripts <- MCAllScripts
  SplitKinds = {"payload"}
  Effect <- MCEffect
  Uninit <- MCUninit
  PeerResets = TRUE
INVARIANTS TypeOK NoAssertFailure ExecutedPrefix NoRequestLeftBehind NothingOwedAtBoundary RoomToRead
PROPERTIES AllAnswered StreamSpec
CHECK_DEADLOCK FALSE
