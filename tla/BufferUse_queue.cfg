\* Every order of writes, receptions, reads and skips.
SPECIFICATION UseSpec
CONSTANTS
  BufferSize = 3
  Chunks <- MCChunks
  MaxSize = 12
PROPERTY RefinesByteQueue
