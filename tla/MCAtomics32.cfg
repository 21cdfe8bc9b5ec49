SPECIFICATION MSpec
CONSTANTS
  XLEN = 32
  BYTE = 8
  MEMORY_SIZE = 9
  NUM_REGISTERS = 32
  Csrs = {256, 321, 322, 768, 773, 833, 834}
  MaxLines = 5
  Instructions <- Rv32Program
PROPERTIES LinkedSpec AccessesAreAllOrNothing LoadsMatchBytes StoresReadBack AmosCombine
