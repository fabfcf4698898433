SPECIFICATION FairSpec
CONSTANTS
  a = a
  b = b
  Socket = {a, b}
  Levels = 2
  Layouts <- BothLayouts
  Kinds <- SyncOnly
  SqueueCap = 1
  TxCap = 1
  RecvQueueCap = 1
  MaxParallel = 1
  MaxDequeues = 2
  MaxFullIter = 1
  FutexMod = 3
  CounterMod = 3
  WriteQueueCap = 1
  RecvBuf = 0
  PeerBuf = 0
  Past = 2
  MaxOps <- TwoAndOne
INVARIANTS
  SleepSafe
  SignalNotLost
  BoundedInversion
PROPERTY EveryOpPerformed
