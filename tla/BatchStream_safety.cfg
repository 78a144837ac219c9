SPECIFICATION StreamSpec
CONSTANTS
  w1 = w1
  w2 = w2
  c1 = c1
  c2 = c2
  Dispatcher = Dispatcher
  Workers <- TwoWorkers
  Clients <- TwoClients
  Subs <- Requests
  Attempts = 1
  Buffer = 1
  Events = 4
  Total = 2
  MaxFailures = 1
INVARIANTS
  NoDoubleClose StreamHasNoGaps RegisteredMissesNothing DoneIsLast
  NoOrphanedStream DoneIsNotEarly
