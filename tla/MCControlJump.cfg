SPECIFICATION ESpec
CONSTANTS
  XLEN = 32
  BYTE = 8
  MEMORY_SIZE = 1
  NUM_REGISTERS = 32
  Csrs = {256, 321, 322, 768, 773, 833, 834}
  MaxLines = 4
  Instructions <- ControlInstructions
PROPERTY JumpLands
