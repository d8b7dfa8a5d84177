SPECIFICATION Spec
CONSTANTS
  c1 = c1
  c2 = c2
  c3 = c3
  f1 = f1
  f2 = f2
  NoClient = NoClient
  ListenFd = ListenFd
  Clients <- TwoClients
  FDs <- TwoFDs
  Commands = {"reply"}
  Faults = {}
  Readers = {c1}
  MaxEvents = 2
  MaxRequests = 2
  SndBuf = 1
PROPERTY AllAnswered
CHECK_DEADLOCK FALSE
