CONSTANTS
  Daemons = {d1, d2, d3}
  Commands = {c1, c2}
  Kinds = {"start", "stop", "restart", "status", "connect"}
  None = None
SPECIFICATION Spec
SYMMETRY Symmetry
INVARIANTS TypeOK PidIsLockHolder LockKeepsOne Reachable 
CHECK_DEADLOCK FALSE
