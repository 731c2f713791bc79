SPECIFICATION Spec
CONSTANTS
  a1 = a1
  a2 = a2
  w1 = w1
  w2 = w2
  Apps <- OneApp
  Windows <- BothWindows
  Owner <- TwoWindows
  MaxFrames <- OneEach
  Commands = {"key"}
  NoApp = NoApp
  NoWindow = NoWindow
  NoSize = NoSize
  OperatorSize = OperatorSize
  OutCap = 2
  Backlog = 2
  ChunkLines = 1
  MaxCommands = 0
INVARIANTS
  HostOutlivesApps
CHECK_DEADLOCK FALSE
