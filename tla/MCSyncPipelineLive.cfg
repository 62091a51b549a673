SPECIFICATION FairSpec
CONSTANTS
  p1 = p1
  p2 = p2
  k1 = k1
  k2 = k2
  NoUser = NoUser
  Users = {p1, p2}
  Keys = {k1}
  Bodies = {"plain"}
  ChanCap = 1
  MaxEvents = 2
  MaxFaults = 1
  MaxCrashes = 0
  MaxExpiries = 1
PROPERTY
  StaleWriterLeaves
  UndisturbedChangesSynchronized
CHECK_DEADLOCK FALSE
