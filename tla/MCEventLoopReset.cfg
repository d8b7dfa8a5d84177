INIT Init
NEXT Next
CONSTANTS
  c1 = c1
  c2 = c2
  c3 = c3
  f1 = f1
  f2 = f2
  NoClient = NoClient
  ListenFd = ListenFd
  Clients <- TwoClients
  FDs <- TwoFDs
  Commands = {"reply"}
  Faults = {"fin", "reset"}
  Readers = {c1, c2}
  MaxEvents = 2
  MaxRequests = 1
  SndBuf = 1
INVARIANT StopsOnlyOnShutdown
CHECK_DEADLOCK FALSE
