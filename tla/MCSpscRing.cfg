SPECIFICATION Spec
CONSTANTS
  RingSize = 4
  write = write
  nop = nop
  recv = recv
  Element <- MCElement
  Wanted <- MCWanted
  ZeroEl = write
  NopEl = nop
INVARIANTS
  NoSlotRace
  CheckedPutSucceeds
  HeldSlotPublished
  IInv
PROPERTY FifoSpec
