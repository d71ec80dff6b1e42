SPECIFICATION FairSpec
CONSTANTS
  Lines <- MCLines
  InCap = 1
  OutCap = 1
  Notes = 2
  MaxLines = 2
INVARIANTS TypeOK AnsweredAsDue
PROPERTIES EveryRequestAnswered ServerEnds
CHECK_DEADLOCK FALSE
