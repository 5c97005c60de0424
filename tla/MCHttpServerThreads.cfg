\* The server stops for good after SIGINT, and it waits when nobody does anything.
CHECK_DEADLOCK FALSE
SPECIFICATION Spec
CONSTANTS
  Fds = {1}
  Workers = {w1, w2}
  MaxRequests = 1
  MaxUsers = 2
  Lifetime = 1
  NoFd = 0
  MaxAccepts = 2
  MaxBacklog = 1
  MaxOutside = 1
  MaxTime = 1
INVARIANT OneThreadPerSocket
