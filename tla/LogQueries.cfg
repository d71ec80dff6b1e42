SPECIFICATION Spec
CONSTANTS
  Requests <- MCRequests
  RingCap = 2
  MaxMatches = 2
  MaxLines = 4
INVARIANTS TypeOK FollowerMissesNothing SentInOrder GrepAnswersExpected
CHECK_DEADLOCK FALSE
