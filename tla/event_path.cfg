SPECIFICATION FairSpec
CONSTANTS
  w1 = w1
  w2 = w2
  NoClient = NoClient
  Clients <- TwoClients
  Streams <- SampleStreams
  RuleSets <- SampleRules
  Described <- SampleDescribed
  ChunkSize = 6
  MaxBuffer = 10
  UiBuffer = 1
  SockBuffer = 1
INVARIANTS
  TypeOK
  FramesAreMessages
  ReadersAgree
  BroadcastsAreReports
PROPERTIES
  BroadcastsReachAll
  OnlyStalledClientsBlock
\* A panel sends so many messages, and the process may die.
CHECK_DEADLOCK FALSE
