SPECIFICATION Spec
CONSTANTS
  Readers = {r1}
INVARIANTS TypeOK EndToldTrue ClaimsHold
CHECK_DEADLOCK FALSE
