SPECIFICATION ProcessSpec
CONSTANTS
  Gens = 256
  Plain = {"Buffer"}
  MaxMade = 10
  MaxOrdinal = 5
  TableMade = 7
  BytesMade = 7
  MaxLive = 5
  Size = 2
  MaxWork = 2
INVARIANTS LoadedNamesNothing
CHECK_DEADLOCK FALSE
