SPECIFICATION FairSpec
CONSTANTS
  Sockets = 2
  CqueueCap = 2
  FutexMod = 4
  MaxResults = 4
INVARIANTS
  WaiterNotForgotten
  WatcherNotForgotten
PROPERTY WaitReturns
CHECK_DEADLOCK FALSE
