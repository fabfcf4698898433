SPECIFICATION FairSpec
CONSTANTS
  Sizes = {1, 2, 4}
  Chains <- SomeChains
  BufCap = 2
  RecvQueueCap = 2
  LenMod = 8
  MaxOps = 4
  MaxBytes = 7
INVARIANTS
  StreamIntact
  WaitingMeansDrained
  WindowBalanced
  ReportedFull
PROPERTY EveryRecvServed
CHECK_DEADLOCK FALSE
