SPECIFICATION Spec
CONSTANTS
  Calls = {c1, c2, c3}
  c1 = c1
  c2 = c2
  c3 = c3
  NoCall = NoCall
  LF = LF
  Rewinds = FALSE
  TextLen = 1
  IdSpace = 2
  Goroutines = 1
  KindsUsed <- ExactKinds
  ReplySigns = {"="}
  MaxNotices = 0
  MayDisconnect = FALSE
  MayShutDown = TRUE
SYMMETRY CallSymmetry
INVARIANTS OwnReply InStep NoLostReply NoPanic
CHECK_DEADLOCK FALSE
