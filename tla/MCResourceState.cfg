SPECIFICATION Spec
SYMMETRY ClientSymmetry
CONSTANTS
  c1 = c1
  c2 = c2
  c3 = c3
  Clients = {c1, c2, c3}
  RetryTxCount = 1
  SameId = TRUE
  MaxConfig = 3
  MaxReports = 2
  MaxIncarnations = 2
INVARIANTS
  TypeOK
  NoUpdateLost
  RecordsBelongToVersions
PROPERTIES
  StateNeverGoesBack
  SettledStateIsFinal
CHECK_DEADLOCK FALSE
