SPECIFICATION Spec
CONSTANTS
  ChunkBufferSize = 3
  MaxChunk = 8
  Lengths = {0, 1, 3, 5}
  MaxWrite = 5
  MaxBody = 9
INVARIANTS
  WellFramed
  NothingLost
  EndMeansAll
  CompleteIsFlushed
PROPERTY DoneReturns
CHECK_DEADLOCK FALSE
