SPECIFICATION FairSpec
CONSTANTS
  Calls = {c1, c2}
  c1 = c1
  c2 = c2
  NoCall = NoCall
  LF = LF
  Rewinds = FALSE
  TextLen = 1
  IdSpace = 2
  Goroutines = 1
  KindsUsed <- LiveKinds
  ReplySigns = {"="}
  MaxNotices = 0
  MayDisconnect = TRUE
  MayShutDown = TRUE
PROPERTIES EveryCallReturns EveryChannelCloses StopsWhenBroken ImplementsRequestReply
CHECK_DEADLOCK FALSE
