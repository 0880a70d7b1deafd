SPECIFICATION FairSpec
CONSTANTS
  m1 = m1
  r1 = r1
  Members = {m1}
  Initial = {m1}
  Removers = {r1}
  Faults = {"persist"}
  MaxOps = 2
  MaxEvictions = 1
  MaxBoots = 1
INVARIANT OwnerAtWork
INVARIANT LifecycleInv
PROPERTY OperationsDecided
CHECK_DEADLOCK FALSE
