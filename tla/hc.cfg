SPECIFICATION FairSpec
CONSTANTS
  MaxRequests = 3
  MaxClients = 2
  EarlyDestroy = FALSE
INVARIANTS UsedAlive RunInOrder ResponsesDispatched AnsweredInOrder
PROPERTIES EveryRequestAnswered ClientDeleted
CHECK_DEADLOCK FALSE
