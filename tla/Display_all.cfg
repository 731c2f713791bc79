SPECIFICATION DisplaySpec
CONSTANTS
  Requests <- Asked
  Desktop <- Panel
  Points <- Middle
  Environments <- Envs
  Rects <- InMode
  Period = 2
  QueueCap = 1
  MaxMoves = 0
  MaxSets = 2
  MaxTurns = 1
INVARIANTS
  FingerMeetsPicture
PROPERTIES
  PictureSettles
  FactorsFollowMode
