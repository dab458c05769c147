SPECIFICATION Spec
CONSTANTS
  p1 = p1
  p2 = p2
  e1 = e1
  e2 = e2
  h1 = h1
  x1 = x1
  NoMsg = NoMsg
  Panels <- TwoPanels
  Events <- TwoEvents
  Heartbeats <- Nothing
  Malformed <- Nothing
  BufferSize = 1
  ReconnectInitial = 2
  ReconnectMax = 3
  MaxReconnects = 0
SYMMETRY Symmetry
INVARIANTS
  TypeOK
  AckSound
  RepliesAreVerdicts
  AtMostOnce
  ReplyNeverBlocks
  CountersSound
  BackoffInRange
\* The relay really stops: no goroutine is left after a shutdown.
CHECK_DEADLOCK FALSE
