SPECIFICATION FrontendFairSpec
CONSTANTS
  Parts = {"framing", "upload", "history", "users", "list", "session", "view", "tools"}
  Payments = {p1}
  MaxMounts = 1
  MaxQueries = 1
  Faults = {"stream"}
  MaxFaults = 1
  Denials = {FALSE}
  MaxEvents = 3
  MaxComments = 1
  GoodFiles = {good}
  BadRows = {bad}
  NoRows = {empty}
  NotCsv = {text}
  NoFile = none
  MaxChoices = 2
  MaxUploads = 2
  MaxCardVisits = 2
  MaxUploadFaults = 1
  Total = 2
  MaxDashboardVisits = 2
  MaxPollFaults = 1
  Names <- SomeNames
  Passwords <- SomePasswords
  MaxFormSubmits = 2
  MaxFormFaults = 1
  Users = {self, u1}
  Self = self
  NoUser = nobody
  MaxUserVisits = 1
  MaxOthers = 1
  MaxLosses = 1
  Filters = {any, some}
  All = any
  PageSize = 1
  MaxTotal = 2
  MaxChanges = 1
  MaxPagesLost = 0
  Tabs = {t1}
  Accounts = {ana, bia}
  Admins = {ana}
  NoAccount = stranger
  Remembered = {ana}
  MaxSignIns = 2
  MaxCalls = 2
  MaxCallsLost = 1
CHECK_DEADLOCK FALSE
INVARIANTS
  StorageIsACopy
PROPERTIES
  StreamIsReadAsWritten NothingStaysBusy
  HistoryCatchesUp ListRests WatchingSucceeds ToolsAreReliable NavigationSettles
