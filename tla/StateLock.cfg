SPECIFICATION LockFairSpec
CONSTANTS
  c1 = c1
  c2 = c2
  c3 = c3
  Clients = {c1, c2, c3}
  Mode <- Modes
  MaxOwners = 2
  Crashers = {c1, c3}
  Stallers = {c1, c2}
  ReleaseFailers = {c2, c3}
INVARIANT
  HoldersExclude
PROPERTIES
  FreshRowKept
  AbandonedRowsGo
