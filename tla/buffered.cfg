SPECIFICATION Spec
CONSTANTS
  Calls = {c1, c2, c3}
  c1 = c1
  c2 = c2
  c3 = c3
  NoCall = NoCall
  LF = LF
  Rewinds = TRUE
  TextLen = 1
  IdSpace = 3
  Goroutines = 2
  KindsUsed <- BufferedKinds
  ReplySigns = {"=", "%"}
  MaxNotices = 0
  MayDisconnect = FALSE
  MayShutDown = TRUE
SYMMETRY CallSymmetry
INVARIANTS InStep NoLostReply TrueResult
CHECK_DEADLOCK FALSE
