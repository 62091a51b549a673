SPECIFICATION FairSpec
CONSTANTS
  p1 = p1
  p2 = p2
  Users = {p1, p2}
  Procs = {p1, p2}
  ProcOf <- SameProc
  NoUser = NoUser
  NoProc = NoProc
  MaxLeases = 2
  EtcdMayFail = TRUE
  MayCrash = TRUE
INVARIANTS
  LockBackedByLease
  FencedMutualExclusion
  EntryIsCurrent
PROPERTIES
  ImplementsLeaseLock
  LossIsReported
  AbandonedKeyIsReleased
CHECK_DEADLOCK FALSE
