SPECIFICATION Spec
CONSTANTS
  w1 = w1
  w2 = w2
  w3 = w3
  NoWorker = NoWorker
  Workers <- OneWorker
  N = 2
  MaxConns = 2
  MaxErrors = 1
  MayCrash = FALSE
INVARIANTS
  DoneReportsCompletedPayments
