SPECIFICATION Spec
CONSTANTS
  Streams <- AllStreams
  MaxChunk = 20
  MaxSize <- Room
INVARIANTS Framed RefusedForSize
CHECK_DEADLOCK FALSE
