SPECIFICATION Spec
CONSTANTS
  a = a
  b = b
  d1 = d1
  d2 = d2
  Handlers <- TwoHandlers
  Devices <- TwoDevices
  MaxDeviceEvents = 2
  RingSize = 2
  UiBuffer = 1
  DetailBuffer = 1
  Codes <- TwoCodes
  Described <- OneCode
  MaxUpdates = 3
  MaxChannels = 0
SYMMETRY Symmetry
INVARIANTS
  TypeOK
  OrderPerHandler
  EndedAreStored
  SnapshotsAreLatest
  PushesAreInSnapshots
  EmptiesComeLast
\* The number of calls is bounded: after the last one nothing is left to do.
CHECK_DEADLOCK FALSE
