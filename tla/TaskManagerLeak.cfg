SPECIFICATION Spec
CONSTANTS
  c1 = c1
  p1 = p1
  p2 = p2
  Conversations = {c1}
  Callers = {p1, p2}
  Teams = {}
  Versions = {2}
  Calls = {"get", "kill"}
  MaxCalls = 3
INVARIANT NoLeakedAgent
CHECK_DEADLOCK FALSE
