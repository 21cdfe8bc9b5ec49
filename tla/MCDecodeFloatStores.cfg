SPECIFICATION DSpec
CONSTANTS
  Regs = {0, 1, 10, 31}
  Amounts = {0, 1, 31}
  ImmI <- EdgesI
  ImmB <- EdgesB
  ImmU <- EdgesU
  ImmJ <- EdgesJ
INVARIANT FloatStoresDecodeBack
CHECK_DEADLOCK FALSE
