SPECIFICATION FairSpec
CONSTANTS
  p1 = p1
  p2 = p2
  k1 = k1
  k2 = k2
  NoUser = NoUser
  Users = {p1, p2}
  Keys = {k1}
  Stored0 <- AnyStored
  MaxWrites = 2
  MaxFaults = 1
  MaxCrashes = 1
  MaxExpiries = 1
  MaxCompactions = 1
  MaxLog = 3
INVARIANTS
  NoEventSkipped
PROPERTY
  StoredNeverGoesBack
  ViewConverges
CHECK_DEADLOCK FALSE
