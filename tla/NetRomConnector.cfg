SPECIFICATION Spec
CONSTANTS
  A = A
  B = B
  C = C
  D = D
  X = X
  P = P
  Q = Q
  Node = {A, B, C, D, X}
  Port = {P, Q}
  CallRank <- MCCallRank
  PortRank <- MCPortRank
  PathQuality = 128
  MinQuality = 0
  ObsoleteInitial = 1
  ObsoleteMinimum = 1
  MaxRoutes = 3
  MaxDestinations = 5
  HopLimit = 3
  Horizon = 6
  Granule = 1
  Shifted <- MCShifted
  RipGranule = 1
  N1 = 256
  Interval = 2
  ResetWindow = 4
  GainShift = 1
  SampleMax = 4
  ProbeUnknown = TRUE
  RifInterval = 3
  PositiveDebounce = 1
  MaxTimeToLive = 3
  ForwardMode = "per-flow"
  PreferInp3 = TRUE
  InRange <- MCInRange
  Flows = {0, 2}
  ModeNames = {"calm", "slow", "cut", "dial", "ports", "detach", "plain", "ring"}
  Modes <- ChosenModes
INVARIANTS
  ProbeIsAwaited
  WithdrawalReaches
  DatagramsEnd
PROPERTIES
  AliveIsKept
CHECK_DEADLOCK FALSE
