SPECIFICATION Spec
CONSTANTS
  web = web
  db = db
  shop = shop
  Ids = {i1, i2}
  Names = {web, db}
  Projects = {shop}
  ProjectOf <- MCProjectOf
  Cleans = {c1, c2}
  NoName = NoName
  NoFile = NoFile
  NoProject = NoProject
SYMMETRY MCSymmetry
INVARIANTS TypeOK UnexposedKeepLog 
CHECK_DEADLOCK FALSE
