\* Three evictions fit into MaxSeq; a chunk can span two of them.
CONSTANTS
  SinkLen = 2
  WindowLen = 2
  MaxSeq = 8
  ChunkCap = 5
  MaxLabels = 3
  Empty = Empty
SPECIFICATION Spec
INVARIANTS
  EveryRowInPlace
  ChunksLikeSerial
  PointIsRestorable
  CaptureIsComplete
\* A full plane with no label left has nothing more to append.
CHECK_DEADLOCK FALSE
