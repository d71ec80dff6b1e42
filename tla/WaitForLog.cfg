SPECIFICATION FairSpec
CONSTANTS
  Streams = {"stdout", "stderr"}
  NoLine = NoLine
  BatchSize = 2
  MaxChunks = 2
INVARIANTS TypeOK MatchReported
PROPERTIES  HitIsFound
CHECK_DEADLOCK FALSE
