SPECIFICATION Spec
CONSTANTS
  MaxConns = 2
  MaxMsgs = 2
  Clients = {"page", "api"}
INVARIANTS ReadLoopFree IdlePage
PROPERTIES InputReturns LostIsCleanedUp
CHECK_DEADLOCK FALSE
