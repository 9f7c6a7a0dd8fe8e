SPECIFICATION LiveSpec
CONSTANTS
  MaxTid = 3
  Plain = {a}
  Pi = {p}
  Joins = {}
  Times = {1}
  Values = {0}
  NoAddr = NoAddr
  MachineSpec = 3
  KitRevision = 2
  ClockStart = 1
  ClockMax = 2
  ClockWidth = 4
  MaxCount = 1
CHECK_DEADLOCK FALSE
PROPERTIES
  
  LockGranted
  TimedWaitEnds
