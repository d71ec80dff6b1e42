SPECIFICATION FairSpec
CONSTANTS
  i1 = i1
  i2 = i2
  web = web
  db = db
  Ids = {i1, i2}
  Names = {web, db}
  Namings <- MCNamings
  NoId = NoId
INVARIANTS ShutdownTypeOK OrphansExplained CleanExit
PROPERTY ShutdownEnds
CHECK_DEADLOCK FALSE
