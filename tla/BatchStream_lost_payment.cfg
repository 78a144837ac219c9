SPECIFICATION FairStreamSpec
CONSTANTS
  w1 = w1
  w2 = w2
  c1 = c1
  c2 = c2
  Dispatcher = Dispatcher
  Workers <- OneWorker
  Clients <- OneClient
  Subs <- Requests
  Attempts = 1
  Buffer = 2
  Events = 2
  Total = 1
  MaxFailures = 1
PROPERTIES
  ClientsLearnTheEnd
