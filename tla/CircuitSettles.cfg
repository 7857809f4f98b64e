SPECIFICATION TimerFairSpec
CONSTANTS
  A = A
  B = B
  Node = {A, B}
  NumKeys = 4
  Modulus = 6
  MaxRetries = 1
  ChokeThreshold = 0
  WindowSize <- MCSameWindow
  Openers = {A}
  Writers = {A}
  Listeners = {A, B}
  Dispositions = {"accept", "refuse", "defer"}
  Reactions = {"drain"}
  FrameSizes = {1, 2}
  DisconnectFrom = {"Connecting", "Connected"}
  MaxLosses = 1
  ReorderDepth = 1
  OutlivesRetries = TRUE
  FirstKeys = {0}
  MaxOpens = 1
  MaxSent = 2
  NetCap = 3
INVARIANTS
  EndsAreSound
PROPERTIES
  ConnectSettles
  DisconnectSettles
  DataSettles
CHECK_DEADLOCK FALSE
