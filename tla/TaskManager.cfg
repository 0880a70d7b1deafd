SPECIFICATION FairSpec
CONSTANTS
  c1 = c1
  p1 = p1
  p2 = p2
  Conversations = {c1}
  Callers = {p1, p2}
  Teams = {c1}
  Versions = {0, 2}
  Calls = {"get", "kill", "kill_and_wait", "clear", "scan"}
  MaxCalls = 4
INVARIANT TypeOK
INVARIANT MapHoldsLiveAgents
INVARIANT OnlyAbandonedLeak
PROPERTY CallsEnd
CHECK_DEADLOCK FALSE
