SPECIFICATION FairSpec
CONSTANTS
  j1 = j1
  j2 = j2
  w1 = w1
  w2 = w2
  a1 = a1
  b1 = b1
  None = None
  Jobs = {j1}
  Workers = {w1, w2}
  Slots = {a1, b1}
  WorkerOf <- OneSlotEach
  Crashers = {w2}
  Stallers = {w1}
  Stoppers = {w2}
  Retargeting = FALSE
  Edits = {"graph", "summary"}
  MaxRevision = 0
INVARIANTS TypeOK RunningIsExecuted SuccessDelivers
PROPERTIES JobsProgress
