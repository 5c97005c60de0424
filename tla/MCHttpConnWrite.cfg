CHECK_DEADLOCK FALSE
SPECIFICATION Spec
CONSTANTS
  Requests <- FileRequests
  ReadBufferSize = 10
  WriteBufferSize = 6
  SendBufferSize = 4
  WriteRoom = 3
  MaxRequests = 2
INVARIANTS ResponseIntact
