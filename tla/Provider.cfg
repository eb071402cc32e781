SPECIFICATION Spec
CONSTANTS
  RequestCount = 3
  Concurrency = 1
  MaxQueued = 1
  Retries <- MCRetries
  WaitLimit = 1
  Timeout <- MCTimeout
  Delays <- MCDelays
  MaxTime = 2
  Window = 3
INVARIANTS
  TypeOK
  WorkBounded
  SlotsAccounted
  ClosesDrained
  OutcomeFaithful
PROPERTIES
  CooldownKept
  EverythingEnds
