SPECIFICATION Spec
CONSTANTS
  Calls = {c1, c2}
  c1 = c1
  c2 = c2
  NoCall = NoCall
  LF = LF
  Rewinds = FALSE
  TextLen = 1
  IdSpace = 2
  Goroutines = 1
  KindsUsed = {"text"}
  ReplySigns = {"="}
  MaxNotices = 0
  MayDisconnect = FALSE
  MayShutDown = FALSE
INVARIANT InStep
CHECK_DEADLOCK FALSE
