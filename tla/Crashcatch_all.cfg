SPECIFICATION Spec
CONSTANTS
  Threads = {t1, t2}
  NoThread = NoThread
  Caught <- Signals
  MaxFaults = 4
INVARIANTS
  StatusHasItsReport
PROPERTIES
  FaultEndsProcess
CHECK_DEADLOCK FALSE
