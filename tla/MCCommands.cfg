\* Every command on two keys, with failing writes, reads, opens, shells and removals,
\* and two crashes.  The process may stop for good at an access that is undefined.
CONSTANTS
  k1 = k1  k2 = k2  v1 = v1  v2 = v2
  Keys = {k1, k2}
  Values = {v1, v2}
  NoValue = NoValue
  SameDir = TRUE
  Failures = {"put", "get", "open", "fork", "rm"}
  Connections = {1, 2}
  MultiLine = {v2}
  MaxCrashes = 2
  Requests <- SomeRequests
SPECIFICATION Spec
CHECK_DEADLOCK FALSE
INVARIANTS TypeOK ArgvInBounds HandleUsable StoreMatchesReplies OneValuePerReply
