SPECIFICATION FairSpec
CONSTANTS
  Modes <- AllModes
  Drawables <- AllPanels
  Rects <- InAndOut
  Period = 2
  Environments <- AllEnvs
  MaxTurns = 1
INVARIANTS
  MapsInside
  PanesStayApart
  OptOutHolds
PROPERTIES
  PanelCovered
  SettledFactors
  DecisionIsSound
