SPECIFICATION Spec
CONSTANTS
  Slots = {s1}
  Messages = {m1}
  NoMsg = NoMsg
  Actors = {a1}
  Requests <- MCRequests
  Constraints = {"Ready", "Failed"}
  MaxIntents = 3
  MaxBatches = 2
  MaxRuns = 1
SYMMETRY MCSymmetry
INVARIANTS TypeOK ForegroundFifo WorkOwnedOnce
PROPERTIES IntentLifecycle
