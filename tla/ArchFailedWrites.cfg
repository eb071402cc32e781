SPECIFICATION Spec
CONSTANTS
  s1 = s1
  s2 = s2
  s3 = s3
  s4 = s4
  e1 = e1
  e2 = e2
  Sessions = {s1}
  Entries = {e1}
  None = None
  Base = Base
  Kind <- OneWriter
  Touches <- OneEntry
  MaxWrites = 2
  Aborters = {s1}
  Crashers = {}
  CommitFailers = {}
  UnlinkFailers = {}
  CloseFailers = {}
INVARIANT
  FailedWritesUndone
