SPECIFICATION FairSpec
CONSTANTS
  Requests <- Asked
  Desktop <- Panel
  Points <- Corners
  Environments <- AllEnvs
  QueueCap = 2
  MaxMoves = 2
  MaxSets = 2
  MaxTurns = 1
CHECK_DEADLOCK FALSE
INVARIANTS
  SurfaceNotNull
  ModesAgree
  DragAddsUp
PROPERTIES
  EventsAgreeWithPolling
  ResetIsStable
  LoopEnds
