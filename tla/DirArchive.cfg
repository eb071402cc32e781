SPECIFICATION Spec
CONSTANTS
  Clients = {c1, c2, c3}
  Mode <- Writers
  MaxOwners = 1
  Crashers = {c1, c3}
  Stallers = {}
  ReleaseFailers = {}
  Paths = {p1, p2}
  Absent = Absent
  Empty = Empty
  MaxVersion = 2
  Replacers = {c3}
  WriteFailers = {c2}
INVARIANTS
  TypeOK
  SessionSeesCommitted
  Undoable
  Recoverable
PROPERTY
  ImplementsAtomic
