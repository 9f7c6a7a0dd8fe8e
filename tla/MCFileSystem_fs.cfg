SPECIFICATION mcSpec
CONSTANTS
  ro = ro
  rw = rw
  Names <- Mounts
  Writable = {rw}
  Stdin = "stdin"
  Out <- Streams
  Bytes = {1}
  Sizes <- Lengths
  Junk = Junk
  MaxHandles = 4
  RingSize = 3
  WordsCap = 2
  MaxSaid = 9
  MaxCalls = 3
INVARIANTS HandlesSound PositionsWithin NoHeapBytes WordsOfThisCall
PROPERTIES ImplementsFileTable CallsKeepPromises
CHECK_DEADLOCK FALSE
