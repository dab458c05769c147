SPECIFICATION Spec
CONSTANTS
  d1 = d1
  d2 = d2
  Devices <- OneDevice
  Limit = 2
  ChanSize = 1
  MaxEvents = 3
  MaxBreaks = 1
  MaxSorts = 1
INVARIANTS
  TypeOK
  NeverStranded
  DevicesSettle
  EventsSettle
  DoubledOnlyUnderWay
\* Events and breaks are bounded.
CHECK_DEADLOCK FALSE
