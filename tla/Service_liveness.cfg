SPECIFICATION ServiceFairSpec
CONSTANTS
  Parts = {"connections", "harness"}
  Clients = {c1, c2}
  Accounts = {a1, a2, a3}
  Emails = {e1, e2}
  First = a1
  FirstEmail = e1
  Batches = {b1, b2}
  Requests = {r1}
  None = none
  NumWorkers = 2
  NumPayments = 1
  MaxConns = 1
  MaxFaults = 1
  MaxLines = 1
  Users = 1
  BatchesPerUser = 2
  Rows = 2
  Timeout = 2
  InvalidEvery = 0
  OpenStream = FALSE
  MaxLost = 1
CHECK_DEADLOCK FALSE
PROPERTIES
  EverybodyIsServed HarnessEnds
