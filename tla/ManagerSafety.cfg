SPECIFICATION Spec
CONSTANTS
  Keys = {k1}
  Ids = {i1, i2}
  Clients = {c1, c2}
  Ticker = ticker
  NoKey = NoKey
  NoId = NoId
  Ops = {"start", "stop", "clean"}
  MaxRequests = 3
SYMMETRY Symmetry
INVARIANTS TypeOK NameHeldOnce NoLostLeader OneLeaderPerName 
CHECK_DEADLOCK FALSE
