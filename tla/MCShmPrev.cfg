SPECIFICATION Spec
CONSTANTS
  Region = 20
  Hdr = 2
  Sizes = {1, 2, 4}
INVARIANT PrevNamesPreviousBlock
CHECK_DEADLOCK FALSE
