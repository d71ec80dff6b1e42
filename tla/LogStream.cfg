SPECIFICATION FairSpec
CONSTANTS
  out = out
  err = err
  Streams = {out}
  Earlier = Earlier
  ChunkSize = 2
  ChunkCap = 1
  BatchSize = 2
  MaxLine = 1
  WriterCap = 1
  WriteBatch = 2
  MaxBytes = 4
PROPERTIES DeliveredInOrder LineReachesFile ClosedIsDrained
CHECK_DEADLOCK FALSE
