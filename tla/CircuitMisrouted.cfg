SPECIFICATION Spec
CONSTANTS
  A = A
  B = B
  Node = {A, B}
  NumKeys = 4
  Modulus = 6
  MaxRetries = 1
  ChokeThreshold = 0
  WindowSize <- MCSameWindow
  Openers = {A, B}
  Writers = {A}
  Listeners = {A, B}
  Dispositions = {"accept"}
  Reactions = {"drain"}
  FrameSizes = {1, 2}
  DisconnectFrom = {"Connected"}
  MaxLosses = 1
  ReorderDepth = 1
  OutlivesRetries = FALSE
  FirstKeys = {0}
  MaxOpens = 2
  MaxSent = 0
  NetCap = 3
INVARIANTS
  CleanCloseIsMutual
CHECK_DEADLOCK FALSE
