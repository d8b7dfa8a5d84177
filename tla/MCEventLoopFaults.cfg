INIT Init
NEXT Next
CONSTANTS
  c1 = c1
  c2 = c2
  c3 = c3
  f1 = f1
  f2 = f2
  NoClient = NoClient
  ListenFd = ListenFd
  Clients <- TwoClients
  FDs <- TwoFDs
  Commands = {"reply", "silent", "exit"}
  Faults = {"fin", "reset", "enfile"}
  Readers = {c1, c2}
  MaxEvents = 2
  MaxRequests = 2
  SndBuf = 1
INVARIANTS TypeOK EventsFresh NeverBlocksOnEvent NoFdLeak OneReplyPerRequest WithheldOnlyMidRequest
PROPERTY SessionsSpec
SYMMETRY Symmetry
CHECK_DEADLOCK FALSE
