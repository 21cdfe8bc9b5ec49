SPECIFICATION EFairSpec
CONSTANTS
  XLEN = 64
  BYTE = 8
  MEMORY_SIZE = 8
  NUM_REGISTERS = 32
  Csrs = {256, 321, 322, 768, 773, 833, 834}
  MaxLines = 3
  Instructions <- HarnessInstructions
INVARIANTS ShownIsStored
PROPERTIES ReachesTheEnd BranchLands ImmediatesReachBelow32
