SPECIFICATION FairSpec
CONSTANTS
  a = a
  b = b
  d1 = d1
  d2 = d2
  Handlers <- TwoHandlers
  Devices <- OneDevice
  MaxDeviceEvents = 1
  RingSize = 1
  UiBuffer = 1
  DetailBuffer = 1
  Codes <- OneCode
  Described <- OneCode
  MaxUpdates = 2
  MaxChannels = 2
PROPERTIES
  UpdateReturns
\* The number of calls is bounded: after the last one nothing is left to do.
CHECK_DEADLOCK FALSE
INVARIANT SubscriptionIsExact
