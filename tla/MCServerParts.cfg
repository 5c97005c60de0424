\* The pools wait when there is nothing to do, and stop for good; timers run out.
CHECK_DEADLOCK FALSE
SPECIFICATION PartsSpec
CONSTANTS
  Workers = {w1, w2, w3}
  Requests = {r1, r2}
  MaxRequests = 2
  Main = main
  Nobody = nobody
  NoRequest = none
  Timers = {1, 2, 3, 4, 5}
  Lifetime = 3
  Capacity = 2
  MaxTime = 5
  MaxRefresh = 3
  ProcessNumber = 2
  PipeCapacity = 2
  MaxConnections = 3
  MaxSignals = 2
INVARIANTS
  TokensMatchQueue
  TimersIntact
  EveryNoticeHasConnection NoZombieForgotten
PROPERTIES
  NoWakeForNothing ImplementsWorkQueue
  TickFiresExpired
  ServedAfterArrival TermReachesChildren
