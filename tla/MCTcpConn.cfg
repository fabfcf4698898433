SPECIFICATION FairSpec
CONSTANTS
  Socket = {1, 2}
  p1 = p1
  l1 = l1
  Pcb = {p1}
  ListenPcb = {l1}
  None = None
  Sizes = {2, 5, 9}
  SndBuf = 4
  LenMod = 6
  WriteQueueCap = 2
  SqueueCap = 2
  Kinds <- AllKinds
  Priority <- Falling
  MaxWrites = 2
  MaxOps = 2
  MaxConns = 2
INVARIANTS
  BlocksKept
  SentFindsWrite
  CallbacksReachOwner
  OneClaim
  StaleOnlyAfterLoss
  AnsweredOnce
 
CHECK_DEADLOCK FALSE
