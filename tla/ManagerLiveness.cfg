SPECIFICATION FairSpec
CONSTANTS
  Keys = {k1}
  Ids = {i1}
  Clients = {c1, c2}
  Ticker = ticker
  NoKey = NoKey
  NoId = NoId
  Ops <- AllOps
  MaxRequests = 2
PROPERTIES OwnershipSpec 
CHECK_DEADLOCK FALSE
