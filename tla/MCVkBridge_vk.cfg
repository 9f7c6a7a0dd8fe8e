SPECIFICATION BridgeSpec
CONSTANTS
  Gens = 256
  Plain = {"Buffer"}
  MaxMade = 10
  MaxOrdinal = 3
  TableMade = 7
  BytesMade = 7
  MaxLive = 5
  Size = 2
  MaxWork = 2
INVARIANTS  NothingLeft FreeSlotsSound  
PROPERTIES MapShowsWritten
CHECK_DEADLOCK FALSE
