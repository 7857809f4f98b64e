SPECIFICATION Spec
CONSTANTS
  A = A
  B = B
  C = C
  D = D
  P = P
  Q = Q
  Node = {A, B, C}
  Port = {P, Q}
  CallRank <- MCCallRank
  PortRank <- MCPortRank
  PathQuality = 128
  MinQuality = 0
  ObsoleteInitial = 2
  ObsoleteMinimum = 1
  MaxRoutes = 1
  MaxDestinations = 2
  HopLimit = 2
  Horizon = 6
  Granule = 2
  InRange <- MCTwoPorts
  EntriesPerFrame = 1
  UsesNodes = TRUE
  UsesInp3 = TRUE
  SnttChoices <- MCSntt
  Fickle = {}
  MaxFailures = 0
  Detachable = {}
  RifCap = 1
PROPERTIES
  WithdrawalRecorded
