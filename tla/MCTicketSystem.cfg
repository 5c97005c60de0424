\* Clients end, and one whose datagram was dropped waits for ever.
CHECK_DEADLOCK FALSE
SPECIFICATION Spec
CONSTANTS
  Clients = {c1, c2}
  MaxUsers = 2
  NoTicket = NoTicket
  NoSlot = NoSlot
  MaxSpawns = 4
  MaxKills = 1
  MaxLosses = 1
INVARIANTS CountExact
PROPERTIES ImplementsOffice EveryRequestAnswered TicketsOfDeadReturn
