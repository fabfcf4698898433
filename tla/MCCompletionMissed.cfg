SPECIFICATION FairSpec
CONSTANTS
  Sockets = 1
  CqueueCap = 2
  FutexMod = 4
  MaxResults = 3
PROPERTY EveryEntryCalledBack
CHECK_DEADLOCK FALSE
