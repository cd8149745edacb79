SPECIFICATION Spec
CONSTANTS
  Calls = {c1, c2}
  c1 = c1
  c2 = c2
  NoCall = NoCall
  LF = LF
  Rewinds = FALSE
  TextLen = 1
  IdSpace = 2
  Goroutines = 2
  KindsUsed <- OneResponseKinds
  ReplySigns = {"=", "%"}
  MaxNotices = 0
  MayDisconnect = TRUE
  MayShutDown = TRUE
SYMMETRY CallSymmetry
INVARIANTS TypeOK OwnReply PendingCallbacks NoSilentCut
PROPERTY ImplementsSafely
CHECK_DEADLOCK FALSE
