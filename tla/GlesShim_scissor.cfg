SPECIFICATION Spec
CONSTANTS
  Modes <- Portrait
  Drawables <- TwoPanels
  Rects <- Whole
  Period = 2
  Environments <- Plain
  MaxTurns = 0
PROPERTIES
  ScissorFollowsViewport
