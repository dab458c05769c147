SPECIFICATION FairSpec
CONSTANTS
  c1 = c1
  c2 = c2
  c3 = c3
  Conns <- ThreeConns
INVARIANTS
  TypeOK
  JoinedRuns
  GracefulStop
PROPERTIES
  SignalStops
\* The process ends.
CHECK_DEADLOCK FALSE
