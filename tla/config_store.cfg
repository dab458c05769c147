SPECIFICATION Spec
CONSTANTS
  r1 = r1
  r2 = r2
  flutter = flutter
  App = flutter
  Clients <- TwoClients
  Values <- FieldValues
  Typed <- TypedValues
  Sent <- ThreeConfigs
  MaxPuts = 2
  MaxCrashes = 1
SYMMETRY Symmetry
INVARIANTS
  TypeOK
  SettledAgree
  StartsAgain
  UnsavedIsFlagged
PROPERTIES
  StartsAlike
\* PUTs and crashes are bounded.
CHECK_DEADLOCK FALSE
