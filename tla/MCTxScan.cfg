SPECIFICATION FairSpec
CONSTANTS
  a = a
  b = b
  Socket = {a}
  Levels = 2
  Layouts <- OneSocket
  Kinds <- WriteRecv
  SqueueCap = 2
  TxCap = 3
  RecvQueueCap = 1
  MaxParallel = 2
  MaxDequeues = 2
  MaxFullIter = 1
  FutexMod = 4
  CounterMod = 4
  WriteQueueCap = 2
  RecvBuf = 1
  PeerBuf = 1
  Past = 3
  MaxOps <- Three
INVARIANTS
  EachOpOnce
  PerformedInOrder
  RateLimited
  AnnouncedOpsPresent
PROPERTY QueuedRecvPerformed
