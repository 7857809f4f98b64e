SPECIFICATION FairSpec
CONSTANTS
  A = A
  B = B
  C = C
  D = D
  P = P
  Q = Q
  Node = {A, B, C, D}
  Port = {P, Q}
  CallRank <- MCCallRank
  PortRank <- MCPortRank
  PathQuality = 128
  MinQuality = 10
  ObsoleteInitial = 1
  ObsoleteMinimum = 1
  MaxRoutes = 1
  MaxDestinations = 1
  HopLimit = 3
  Horizon = 8
  Granule = 2
  InRange <- MCRing
  EntriesPerFrame = 1
  UsesNodes = TRUE
  UsesInp3 = FALSE
  SnttChoices <- MCSntt
  Fickle <- MCFickle
  MaxFailures = 0
  Detachable = {P}
  RifCap = 1
INVARIANTS
  TypeOK
  NeighboursListed
  WithinCaps
PROPERTIES
  GhostsFade
