SPECIFICATION Spec
CONSTANTS
  MaxReal = 2
  MaxPlugs = 4
  MaxHeld = 3
  NoVjoy = FALSE
INVARIANTS
  HandleGoesHome
  OpenedIsHeld
