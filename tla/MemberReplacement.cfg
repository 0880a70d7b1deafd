SPECIFICATION Spec
CONSTANTS
  m1 = m1
  Members = {m1}
  Initial = {m1}
  Removers = {}
  Faults = {}
  MaxOps = 2
  MaxEvictions = 1
  MaxBoots = 1
PROPERTY StaleSparesReplacement
CHECK_DEADLOCK FALSE
