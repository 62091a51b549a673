SPECIFICATION ResyncSpec
SYMMETRY ResyncSymmetry
CONSTANTS
  p1 = p1
  t = t
  k1 = k1
  k2 = k2
  NoUser = NoUser
  Users = {p1, t}
  Tool = t
  Keys = {k1, k2}
  Bodies = {"plain", "unsyncable"}
  ChanCap = 1
  MaxEvents = 3
  MaxFaults = 1
  MaxCrashes = 0
  MaxExpiries = 0
INVARIANTS
  ResyncRestores
  AppliedBeforeRemoved
CHECK_DEADLOCK FALSE
