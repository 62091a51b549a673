SPECIFICATION Spec
CONSTANTS
  Procs = {1, 2, 3}
  WatchKeys = 4
  MaxTroubles = 1
INVARIANTS
  ListIsCurrent
  OneMasterPerKey
PROPERTIES
  BalancedEventually
CHECK_DEADLOCK FALSE
