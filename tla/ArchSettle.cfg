SPECIFICATION Spec
CONSTANTS
  s1 = s1
  s2 = s2
  s3 = s3
  s4 = s4
  e1 = e1
  e2 = e2
  Sessions = {s1, s2}
  Entries = {e1, e2}
  None = None
  Base = Base
  Kind <- TwoWriters
  Touches <- AllEntries
  MaxWrites = 1
  Aborters = {}
  Crashers = {s1, s2}
  CommitFailers = {}
  UnlinkFailers = {s1}
  CloseFailers = {}
INVARIANTS
  TypeOK
  LastWriteWins
  CommitExcludesReaders
  ImageCurrent
  NothingLeftBehind
