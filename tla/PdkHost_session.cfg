SPECIFICATION Spec
CONSTANTS
  a1 = a1
  a2 = a2
  w1 = w1
  w2 = w2
  Apps <- BothApps
  Windows <- BothWindows
  Owner <- OneWindowEach
  MaxFrames <- TwoThenOne
  Commands = {"key", "quit"}
  NoApp = NoApp
  NoWindow = NoWindow
  NoSize = NoSize
  OperatorSize = OperatorSize
  OutCap = 2
  Backlog = 2
  ChunkLines = 2
  MaxCommands = 1
INVARIANTS
  TypeOK
  SessionConsistent
  RoutingIsOwn
  ReplyIsAwaited
  FramingInSync
  PairsIntact
PROPERTIES
  ImplementsService
CHECK_DEADLOCK FALSE
