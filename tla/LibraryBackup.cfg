SPECIFICATION Spec
CONSTANTS
  w1 = w1
  w2 = w2
  r1 = r1
  Clients = {w1, w2, r1}
  Mode <- Modes
  Does <- Operations
  MaxOwners = 2
  Crashers = {}
  Stallers = {}
  ReleaseFailers = {}
  Failers = {w1}
  PathCount = 2
  MaxArchives = 2
  MaxVersion = 1
  MaxRows = 2
  MaxQueries = 1
  Outside = FALSE
  Absent = Absent
  Partial = Partial
INVARIANTS
  NothingLost
