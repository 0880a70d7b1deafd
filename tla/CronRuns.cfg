SPECIFICATION FairSpec
CONSTANTS
  Procs = {p1, p2}
  Tasks = {t1, t2}
  NoProc = NoProc
  Gone = Gone
  Free = Free
  User = User
  Schedules = {"At", "Every", "Cron"}
  Queued = {"Every", "Cron"}
  MaxOcc = 2
  MaxRetries = 1
  MaxUpsets = 1
  UpsetProcs = {p1}
CHECK_DEADLOCK FALSE
INVARIANTS TypeOK RunsUnderLease JobIsWatched
PROPERTIES RunsEnd
