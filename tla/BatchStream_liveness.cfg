SPECIFICATION FairStreamSpec
CONSTANTS
  w1 = w1
  w2 = w2
  c1 = c1
  c2 = c2
  Dispatcher = Dispatcher
  Workers <- TwoWorkers
  Clients <- OneClient
  Subs <- Requests
  Attempts = 3
  Buffer = 1
  Events = 4
  Total = 2
  MaxFailures = 0
PROPERTIES
  ClientsLearnTheEnd
