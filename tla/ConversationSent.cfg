SPECIFICATION Spec
CONSTANTS
  r1 = r1
  r2 = r2
  Requests = {r1, r2}
  Callers <- MCCallers
  NoTurn = NoTurn
  Cancels = {k1}
  Deletes = {d1}
  MaxContinuations = 1
  MaxUpsets = 2
CHECK_DEADLOCK FALSE
PROPERTIES SentIsStored
