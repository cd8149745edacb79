SPECIFICATION Spec
CONSTANTS
  Calls = {c1, c2, c3}
  c1 = c1
  c2 = c2
  c3 = c3
  NoCall = NoCall
  LF = LF
  Rewinds = FALSE
  TextLen = 1
  IdSpace = 3
  Goroutines = 3
  KindsUsed <- RoughKinds
  ReplySigns = {"=", "%"}
  MaxNotices = 1
  MayDisconnect = FALSE
  MayShutDown = FALSE
SYMMETRY CallSymmetry
INVARIANTS OwnReply PendingCallbacks OpenLines
CHECK_DEADLOCK FALSE
