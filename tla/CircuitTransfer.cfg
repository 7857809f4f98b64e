SPECIFICATION Spec
CONSTANTS
  A = A
  B = B
  Node = {A, B}
  NumKeys = 4
  Modulus = 6
  MaxRetries = 1
  ChokeThreshold = 1
  WindowSize <- MCSameWindow
  Openers = {A}
  Writers = {A}
  Listeners = {A, B}
  Dispositions = {"accept"}
  Reactions = {"hold", "dispose"}
  FrameSizes = {2}
  DisconnectFrom = {"Connected"}
  MaxLosses <- MCUnlimited
  ReorderDepth = 1
  OutlivesRetries = FALSE
  FirstKeys = {0}
  MaxOpens = 1
  MaxSent = 8
  NetCap = 4
INVARIANTS
  TypeOK
  CleanCloseIsMutual
  InOrderDelivery
  AckedWereAccepted
  NoOverrun
  InFlightIsContiguous
  AckStateIsOldest
  BacklogBounded
PROPERTIES
  HonoursChoke
CHECK_DEADLOCK FALSE
