SPECIFICATION FrontendSpec
CONSTANTS
  Parts = {"view", "tools", "upload", "history", "form", "users", "list", "session"}
  Payments = {p1, p2}
  MaxMounts = 1
  MaxQueries = 0
  Faults = {"stream", "snapshot", "access"}
  MaxFaults = 1
  Denials = {TRUE, FALSE}
  MaxEvents = 3
  MaxComments = 1
  GoodFiles = {good}
  BadRows = {bad}
  NoRows = {empty}
  NotCsv = {text}
  NoFile = none
  MaxChoices = 3
  MaxUploads = 2
  MaxCardVisits = 2
  MaxUploadFaults = 2
  Total = 4
  MaxDashboardVisits = 2
  MaxPollFaults = 1
  Names <- SomeNames
  Passwords <- SomePasswords
  MaxFormSubmits = 2
  MaxFormFaults = 1
  Users = {self, u1}
  Self = self
  NoUser = nobody
  MaxUserVisits = 2
  MaxOthers = 1
  MaxLosses = 1
  Filters = {any, some}
  All = any
  PageSize = 2
  MaxTotal = 3
  MaxChanges = 1
  MaxPagesLost = 1
  Tabs = {t1, t2}
  Accounts = {ana, bia}
  Admins = {ana}
  NoAccount = stranger
  Remembered = {}
  MaxSignIns = 2
  MaxCalls = 1
  MaxCallsLost = 0
SYMMETRY Alike
CHECK_DEADLOCK FALSE
INVARIANTS
  FrontendTypeOK
  PageIsNotAhead
  UploadIsWhole
  HistoryIsTrue
  FormIsHonest
  RolesShownAreTrue
  RowsMatchControls
  CredentialsMatch
  WaitsAreForAnswers
PROPERTIES
  RedirectsAreFew
