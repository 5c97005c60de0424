\* The pool stops for good once it is destroyed: the process exits.
CHECK_DEADLOCK FALSE
SPECIFICATION PoolSpec
CONSTANTS
  Workers = {w1, w2}
  Requests = {r1, r2}
  MaxRequests = 1
  Main = main
  Nobody = nobody
  NoRequest = none
INVARIANT QueueBounded
