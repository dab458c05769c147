SPECIFICATION Spec
CONSTANTS
  w1 = w1
  w2 = w2
  Clients <- TwoClients
  NoClient = NoClient
  Streams <- OneEvent
  RuleSets <- SampleRules
  Described <- SampleDescribed
  ChunkSize = 6
  MaxBuffer = 10
  UiBuffer = 1
  SockBuffer = 1
INVARIANT HubSurvives
\* A panel sends one message, and the process may die.
CHECK_DEADLOCK FALSE
