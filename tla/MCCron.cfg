SPECIFICATION CronSpec
CONSTANTS
  p1 = p1
  p2 = p2
  u1 = u1
  u2 = u2
  u3 = u3
  Users = {u1, u2, u3}
  Procs = {p1, p2}
  ProcOf <- RunsOf
  NoUser = NoUser
  NoProc = NoProc
  MaxLeases = 3
  EtcdMayFail = FALSE
  MayCrash = TRUE
INVARIANTS
  TokenOrRun
  JobRunsOnce
PROPERTIES
  KeyLostOnlyToMate
SYMMETRY Mates12
CHECK_DEADLOCK FALSE
