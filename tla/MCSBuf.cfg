\* Seven connections for two workers and two slots; the client of the third
\* never ends.  With a limit of four descriptors accept may fail, with five it
\* may not.  rear wraps at six.  The threads may wait for ever, and exit or
\* crash.
SPECIFICATION Spec
CONSTANTS
  main = main  w1 = w1  w2 = w2
  Main = main
  Workers = {w1, w2}
  n = 2
  Limits = {4, 5}
  IntMax = 5
  MaxAccepts = 7
  Idle = {3}
INVARIANTS TypeOK BufferHoldsWaiting SlotsAccountedFor ExitsOnlyBelowLimit CrashesOnlyAfterWrap
PROPERTIES DispatchSpec AllServed
CHECK_DEADLOCK FALSE
