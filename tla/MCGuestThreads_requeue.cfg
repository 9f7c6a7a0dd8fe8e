SPECIFICATION SafeSpec
CONSTANTS
  MaxTid = 3
  Plain = {a, b}
  Pi = {}
  NoAddr = NoAddr
  MachineSpec = 3
  KitRevision = 2
  ClockStart = 1
  ClockMax = 2
  ClockWidth = 4
  Times = {1, 5}
  Values = {0}
  Joins = {}
  MaxCount = 1
CHECK_DEADLOCK FALSE
INVARIANTS
  DeadlineHonoured
