SPECIFICATION Spec
CONSTANTS
  d1 = d1
  d2 = d2
  Devices <- OneDevice
  Limit = 3
  ChanSize = 1
  MaxEvents = 4
  MaxBreaks = 0
  MaxSorts = 0
INVARIANTS
  LatestAreListed
\* Events and breaks are bounded.
CHECK_DEADLOCK FALSE
