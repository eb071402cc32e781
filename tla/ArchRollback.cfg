SPECIFICATION Spec
CONSTANTS
  s1 = s1
  s2 = s2
  s3 = s3
  s4 = s4
  e1 = e1
  e2 = e2
  Sessions = {s1, s2}
  Entries = {e1}
  None = None
  Base = Base
  Kind <- TwoWriters
  Touches <- OneEntry
  MaxWrites = 2
  Aborters = {s1, s2}
  Crashers = {s1, s2}
  CommitFailers = {s1, s2}
  UnlinkFailers = {}
  CloseFailers = {s1}
INVARIANTS
  OverlayHasSnapshot
  RollbackExact
