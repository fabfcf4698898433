SPECIFICATION FairSpec
CONSTANTS
  high = high
  low = low
  Proc = {1, 2}
  None = None
  MaxApps = 2
  MaxSockets = 2
  Level = {high, low}
  Low = low
  Calls <- HighCall
  QueueCap = 1
  SqueueCap = 1
  Kinds = {"close"}
  MaxMade = 2
  MaxOps = 1
INVARIANTS
  WatchedOnce
  NoNewSocketMissed
  WalkStaysInList
  LateMappedRight
  OneProcessPerApp
PROPERTY EveryOpMoved
CHECK_DEADLOCK FALSE
