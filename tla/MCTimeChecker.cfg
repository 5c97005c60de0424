\* The server ends on SIGTERM.
CHECK_DEADLOCK FALSE
SPECIFICATION Spec
CONSTANTS
  Fds = {1, 2, 3}
  NoFd = 0
  Lifetime = 2
  MaxInput = 1
  MaxAccepts = 3
  MaxTime = 2
INVARIANT TimersConsistent
PROPERTY TickFiresExpired
