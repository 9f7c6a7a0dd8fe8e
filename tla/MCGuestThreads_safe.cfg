SPECIFICATION SafeSpec
CONSTANTS
  MaxTid = 3
  Plain = {a, b}
  Pi = {p, q}
  Joins = {a, b}
  Times = {1, 5}
  Values = {0, 1}
  NoAddr = NoAddr
  MachineSpec = 3
  KitRevision = 2
  ClockStart = 1
  ClockMax = 2
  ClockWidth = 4
  MaxCount = 1
SYMMETRY Sym
CHECK_DEADLOCK FALSE
INVARIANTS
  WaitersQueued
  DeadlineAhead
  TimeoutIsReal
  StackOutlivesThread
  StopsOnlyWhenStuck
  ContextIsActives
  PiWordMatchesQueue
PROPERTIES
  OwnTimeoutKept
  ClockForward
