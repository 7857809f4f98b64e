SPECIFICATION Spec
CONSTANTS
  A = A
  B = B
  Node = {A, B}
  NumKeys = 1
  Modulus = 6
  MaxRetries = 1
  ChokeThreshold = 0
  WindowSize <- MCSameWindow
  Openers = {A, B}
  Writers = {A}
  Listeners = {A, B}
  Dispositions = {"accept", "refuse", "defer"}
  Reactions = {"drain"}
  FrameSizes = {1}
  DisconnectFrom = {"Connecting", "Connected"}
  MaxLosses = 0
  ReorderDepth = 1
  OutlivesRetries = FALSE
  FirstKeys = {0}
  MaxOpens = 2
  MaxSent = 0
  NetCap = 3
INVARIANTS
  TablesAgree
  LiveIsRegistered
CHECK_DEADLOCK FALSE
