SPECIFICATION FairSpec
CONSTANTS
  a1 = a1
  a2 = a2
  w1 = w1
  w2 = w2
  Apps <- BothApps
  Windows <- BothWindows
  Owner <- OneWindowEach
  MaxFrames <- OneEach
  Commands = {"key", "unfocus", "resize", "touch"}
  NoApp = NoApp
  NoWindow = NoWindow
  NoSize = NoSize
  OperatorSize = OperatorSize
  OutCap = 1
  Backlog = 2
  ChunkLines = 1
  MaxCommands = 1
PROPERTIES
  SyncServed
  NextClientServed
CHECK_DEADLOCK FALSE
