\* Two threads push through a queue of two places; the disk may fail.
SPECIFICATION Spec
CONSTANTS
  Producers = {p1, p2}
  b1 = b1
  b2 = b2
  b3 = b3
  b4 = b4
  Batches <- MCBatches
  Size <- MCSize
  QueueSize = 2
  MaxBatch = 2
  MaxFileSize = 1
  Days = 1
  DiskFails = TRUE
  NoBatch = none
INVARIANT EveryBatchOnce
INVARIANT QueueWithinBounds
INVARIANT FileSizeBounded
PROPERTY PushReturns
PROPERTY BatchesAreWritten
PROPERTY StopWithWorkEnds
