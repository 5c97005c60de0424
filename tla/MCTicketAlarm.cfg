\* One process that dies with its ticket is enough.
CHECK_DEADLOCK FALSE
SPECIFICATION Spec
CONSTANTS
  Clients = {c1}
  MaxUsers = 1
  NoTicket = NoTicket
  NoSlot = NoSlot
  MaxSpawns = 1
  MaxKills = 1
  MaxLosses = 0
PROPERTIES DeadTicketsCollected
