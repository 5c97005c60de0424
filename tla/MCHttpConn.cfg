\* A closed connection is the end of the behaviour.
CHECK_DEADLOCK FALSE
SPECIFICATION Spec
CONSTANTS
  Requests <- AllRequests
  ReadBufferSize = 10
  WriteBufferSize = 6
  SendBufferSize = 4
  WriteRoom = 3
  MaxRequests = 2
INVARIANTS
  TypeOK AnswerMatchesRequest InterestMatchesBuffer UncutResponseIntact
PROPERTIES
  KeepAliveHonoured AnswerableAnswered
