SPECIFICATION FairSpec
CONSTANTS
  p1 = p1
  p2 = p2
  e1 = e1
  e2 = e2
  h1 = h1
  x1 = x1
  NoMsg = NoMsg
  Panels <- OnePanel
  Events <- OneEvent
  Heartbeats <- OneHeartbeat
  Malformed <- OneMalformed
  BufferSize = 0
  ReconnectInitial = 1
  ReconnectMax = 1
  MaxReconnects = 0
INVARIANTS
  SilentOnlyAfterRelay
PROPERTIES
  ImplementsDelivery
  ShutdownCompletes
\* The relay really stops: no goroutine is left after a shutdown.
CHECK_DEADLOCK FALSE
