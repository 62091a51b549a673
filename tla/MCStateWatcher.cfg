SPECIFICATION WatcherSpec
CONSTANTS
  p1 = p1
  p2 = p2
  api = api
  NoUser = NoUser
  Users = {p1, p2}
  Api = api
  Clients = {p1, p2, api}
  RetryTxCount = 1
  SameId = FALSE
  MaxConfig = 2
  MaxReports = 1
  MaxIncarnations = 1
  MaxExpiries = 1
PROPERTY
  StateReportsHandled
CHECK_DEADLOCK FALSE
