SPECIFICATION FairSpec
CONSTANTS
  A = A
  B = B
  Node = {A, B}
  NumKeys = 4
  Modulus = 6
  MaxRetries = 1
  ChokeThreshold = 1
  WindowSize <- MCSameWindow
  Openers = {A}
  Writers = {A}
  Listeners = {A, B}
  Dispositions = {"accept"}
  Reactions = {"hold"}
  FrameSizes = {1}
  DisconnectFrom = {}
  MaxLosses = 1
  ReorderDepth = 1
  OutlivesRetries = FALSE
  FirstKeys = {0}
  MaxOpens = 1
  MaxSent = 2
  NetCap = 4
PROPERTIES
  DataSettles
CHECK_DEADLOCK FALSE
