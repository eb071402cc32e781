SPECIFICATION Spec
CONSTANTS
  w1 = w1
  w2 = w2
  r1 = r1
  Clients = {w1, w2, r1}
  Mode <- Modes
  Does <- Operations
  MaxOwners = 2
  Crashers = {w1}
  Stallers = {}
  ReleaseFailers = {}
  Failers = {w2}
  PathCount = 2
  MaxArchives = 2
  MaxVersion = 1
  MaxRows = 2
  MaxQueries = 1
  Outside = TRUE
  Absent = Absent
  Partial = Partial
CONSTRAINT Safe
INVARIANTS
  TypeOK
  ArchivesSurvive
  NoRemains
  QueryCurrent
  ScanAgrees
PROPERTIES
  ImplementsAtomicLibrary
