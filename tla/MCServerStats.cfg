\* Counters of three bits, which wrap at 4; minutes of three seconds.  The
\* clock and the totals are bounded, so that the run ends.
SPECIFICATION Spec
CONSTANTS
  Half = 4
  Minute = 3
  MiB = 2
  KiB = 1
  Unset = Unset
  Sizes = {2}
  MaxClock = 5
  MaxEvents = 2
  MaxConnections = 2
  MaxTotal = 4
  MaxFailures = 1
INVARIANTS TypeOK RatesAreOfOneWindow SampleIsRecent UnsetOnlyInFirstSecond ClientsShown
CHECK_DEADLOCK FALSE
