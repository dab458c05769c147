SPECIFICATION Spec
CONSTANTS
  w1 = w1
  w2 = w2
  Clients <- NoClients
  NoClient = NoClient
  Streams <- OneEvent
  RuleSets <- DefaultRules
  Described <- SampleDescribed
  ChunkSize = 6
  MaxBuffer = 10
  UiBuffer = 1
  SockBuffer = 1
INVARIANT EventsAreValid
\* A panel sends one message.
CHECK_DEADLOCK FALSE
