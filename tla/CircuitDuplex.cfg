SPECIFICATION Spec
CONSTANTS
  A = A
  B = B
  Node = {A, B}
  NumKeys = 4
  Modulus = 8
  MaxRetries = 1
  ChokeThreshold = 0
  WindowSize <- MCUnequalWindows
  Openers = {A}
  Writers = {A}
  Listeners = {A, B}
  Dispositions = {"accept"}
  Reactions = {"drain", "reply"}
  FrameSizes = {1, 2}
  DisconnectFrom = {}
  MaxLosses = 1
  ReorderDepth = 2
  OutlivesRetries = FALSE
  FirstKeys = {0}
  MaxOpens = 1
  MaxSent = 3
  NetCap = 2
INVARIANTS
  InOrderDelivery
  AckedWereAccepted
  NoOverrun
  WindowAgreed
CHECK_DEADLOCK FALSE
