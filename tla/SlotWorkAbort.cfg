SPECIFICATION Spec
CONSTANTS
  Slots = {s1}
  Messages = {m1}
  NoMsg = NoMsg
  Actors = {a1, a2}
  Requests <- MCUserRequests
  Constraints = {"Ready"}
  MaxIntents = 1
  MaxBatches = 1
  MaxRuns = 1
SYMMETRY MCSymmetry
PROPERTIES AbortPreservesCommitted
