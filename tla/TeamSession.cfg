SPECIFICATION SessionFairSpec
CONSTANTS
  Slots = {s1}
  Clients = {c1}
  Recovery = recovery
  Messages = {m1, m2}
  NoMsg = NoMsg
  Actors <- MCActors
  Requests <- MCRequests
  Constraints = {"Ready"}
  MaxIntents = 8
  MaxBatches = 8
  MaxRuns = 2
  MaxLoad = 4
CHECK_DEADLOCK FALSE
INVARIANTS ActiveHasExecutor NoLostWakeup FailedRunHasFailedIntent
PROPERTIES DeliversRows RowsAreServed
