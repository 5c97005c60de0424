\* The server stops for good after SIGINT, and it waits when nobody does anything.
CHECK_DEADLOCK FALSE
SPECIFICATION Spec
CONSTANTS
  Fds = {1, 2, 3}
  Workers = {w1, w2}
  MaxRequests = 1
  MaxUsers = 3
  Lifetime = 1
  NoFd = 0
  MaxAccepts = 3
  MaxBacklog = 2
  MaxOutside = 1
  MaxTime = 1
SYMMETRY Symmetry
INVARIANTS
  ConnectionsBooked OneHolder ArmedForWhatItHas
