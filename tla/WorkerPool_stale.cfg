SPECIFICATION Spec
CONSTANTS
  w1 = w1
  w2 = w2
  w3 = w3
  NoWorker = NoWorker
  Workers <- TwoWorkers
  N = 2
  MaxConns = 2
  MaxErrors = 0
  MayCrash = FALSE
INVARIANTS
  DoneBatchStatusIsDerived
