SPECIFICATION Spec
CONSTANTS
  w1 = w1
  w2 = w2
  s1 = s1
  s2 = s2
  Dispatcher = Dispatcher
  Workers <- TwoWorkers
  Subs <- OneSub
  Buffer = 2
  Events = 1
INVARIANTS
  NoSendOnClosedChannel
