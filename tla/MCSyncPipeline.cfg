SPECIFICATION Spec
SYMMETRY PipelineSymmetry
CONSTANTS
  p1 = p1
  p2 = p2
  k1 = k1
  k2 = k2
  NoUser = NoUser
  Users = {p1, p2}
  Keys = {k1, k2}
  Bodies = {"plain", "unsyncable"}
  ChanCap = 1
  MaxEvents = 3
  MaxFaults = 1
  MaxCrashes = 1
  MaxExpiries = 0
INVARIANTS
  TypeOK
  NoChangeForgotten
PROPERTY
  CopyMovesForward
CHECK_DEADLOCK FALSE
