SPECIFICATION FairSpec
CONSTANTS
  s1 = s1
  s2 = s2
  s3 = s3
  s4 = s4
  e1 = e1
  e2 = e2
  Sessions = {s1, s2, s3, s4}
  Entries = {e1}
  None = None
  Base = Base
  Kind <- MixedKinds
  Touches <- OneEntry
  MaxWrites = 1
  Aborters = {s1}
  Crashers = {s1, s2}
  CommitFailers = {s1}
  UnlinkFailers = {}
  CloseFailers = {s2}
INVARIANTS
  ReaderPinned
  ExclusiveIsSettled
PROPERTY
  CloseTerminates
