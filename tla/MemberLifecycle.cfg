SPECIFICATION Spec
CONSTANTS
  m1 = m1
  r1 = r1
  r2 = r2
  Members = {m1}
  Initial = {}
  Removers = {r1, r2}
  Faults = {"load", "welcome", "delete"}
  MaxOps = 3
  MaxEvictions = 1
  MaxBoots = 0
SYMMETRY MCSymmetry
INVARIANT LifecycleTypeOK
INVARIANT RemovedLeavesNothing
INVARIANT ReadyIsServed
INVARIANT NewestOwns
INVARIANT PendingIsOwned
PROPERTY OutcomeIsFinal
CHECK_DEADLOCK FALSE
