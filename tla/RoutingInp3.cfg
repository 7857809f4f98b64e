SPECIFICATION Spec
CONSTANTS
  A = A
  B = B
  C = C
  D = D
  P = P
  Q = Q
  Node = {A, B, C}
  Port = {P}
  CallRank <- MCCallRank
  PortRank <- MCPortRank
  PathQuality = 128
  MinQuality = 0
  ObsoleteInitial = 1
  ObsoleteMinimum = 1
  MaxRoutes = 2
  MaxDestinations = 2
  HopLimit = 2
  Horizon = 6
  Granule = 2
  InRange <- MCLine
  EntriesPerFrame = 1
  UsesNodes = FALSE
  UsesInp3 = TRUE
  SnttChoices <- MCSntt
  Fickle = {}
  MaxFailures = 1
  Detachable = {}
  RifCap = 1
INVARIANTS
  RoutesAreSound
  TimeCoversHops
  StaleIsToldOf
PROPERTIES
  WithdrawalRecorded
