SPECIFICATION Spec
CONSTANTS
  End = 5
  Byte = {0, 1}
  ZeroByte = 0
  MaxLen = 6
INVARIANTS
  CopiesInBounds
PROPERTY FifoSpec
