SPECIFICATION ServiceSpec
CONSTANTS
  Parts = {"accounts", "connections", "csv", "harness"}
  Clients = {c1, c2}
  Accounts = {a1, a2, a3}
  Emails = {e1, e2}
  First = a1
  FirstEmail = e1
  Batches = {b1, b2}
  Requests = {r1, r2}
  None = none
  NumWorkers = 2
  NumPayments = 2
  MaxConns = 2
  MaxFaults = 1
  MaxLines = 5
  Users = 1
  BatchesPerUser = 3
  Rows = 2
  Timeout = 1
  InvalidEvery = 2
  OpenStream = TRUE
  MaxLost = 1
SYMMETRY Alike
CHECK_DEADLOCK FALSE
INVARIANTS
  AccountsAreConsistent AdministratorRemains
  ConnectionsAreShared
  ParsedAsWritten
  ReportIsTrue
