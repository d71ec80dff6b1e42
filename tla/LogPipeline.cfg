SPECIFICATION Spec
CONSTANTS
  out = out
  err = err
  Streams <- MCStreams
  Earlier = Earlier
  ChunkSize = 2
  ChunkCap = 1
  BatchSize = 2
  MaxLine = 1
  WriterCap = 1
  WriteBatch = 2
  MaxBytes = 3
SYMMETRY MCSymmetry
INVARIANTS TypeOK LinesWhole DoneMeansStored
CHECK_DEADLOCK FALSE
