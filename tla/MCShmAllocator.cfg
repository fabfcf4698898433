SPECIFICATION Spec
CONSTANTS
  Region = 20
  Hdr = 2
  Sizes = {1, 2, 4}
INVARIANTS
  Tiling
  UnusedIsZero
PROPERTY LiveBlocksStay
CHECK_DEADLOCK FALSE
