SPECIFICATION FairSpec
CONSTANTS
  w1 = w1
  w2 = w2
  w3 = w3
  NoWorker = NoWorker
  Workers <- ThreeWorkers
  N = 3
  MaxConns = 2
  MaxErrors = 1
  MayCrash = TRUE
INVARIANTS
  GatewayCalledAtMostOnce AnnouncedIsCommitted FinalBatchStatusIsTruthful
  DoneAccountsForAllPayments WaitingIsForWorkers
PROPERTIES
  KeepsItsPromises DispatchCompletes
