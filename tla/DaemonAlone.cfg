CONSTANTS
  Daemons = {d1, d2, d3}
  Commands = {c1, c2}
  Kinds = {"start"}
  None = None
SPECIFICATION Spec
INVARIANT AtMostOneDaemon
CHECK_DEADLOCK FALSE
