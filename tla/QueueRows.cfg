SPECIFICATION Spec
CONSTANTS
  j1 = j1
  j2 = j2
  w1 = w1
  w2 = w2
  a1 = a1
  b1 = b1
  None = None
  Jobs = {j1, j2}
  Workers = {w1}
  Slots = {a1}
  WorkerOf <- OneSlot
  Crashers = {w1}
  Stallers = {}
  Stoppers = {}
  Retargeting = TRUE
  Edits = {"all"}
  MaxRevision = 1
INVARIANTS OneActivePerLane SuccessDelivers
PROPERTIES TerminalIsFinal CancellationHolds
SYMMETRY JobSymmetry
