SPECIFICATION Spec
CONSTANTS
  Clients = {c1, c2}
  Mode <- Writers
  MaxOwners = 1
  Crashers = {c1}
  Stallers = {}
  ReleaseFailers = {}
  Paths = {p1, p2}
  Absent = Absent
  Empty = Empty
  MaxVersion = 1
  Replacers = {}
  WriteFailers = {}
INVARIANT CommittedStays
