SPECIFICATION Spec
CONSTANTS
  ChunkBufferSize = 2
  Lengths = {0, 1, 4}
  ChunkedBodies <- MCChunkedBodies
  MaxRead = 5
  High = {}
  MayOverRead = FALSE
INVARIANTS
  BookkeepingTrue
  
  EofMeansEnd
PROPERTY DrainEnds
CHECK_DEADLOCK FALSE
