SPECIFICATION MCSpec
CONSTANTS
  Green = {g1, g2}
  Most = 3
  MaxTurns = 3
  MaxWork = 2
  MaxOthers = 1
  MaxSignals = 2
  Locked = TRUE
INVARIANTS
  StopReaches
  StopsItsCall
  
PROPERTY
  CallsEnd
CHECK_DEADLOCK FALSE
