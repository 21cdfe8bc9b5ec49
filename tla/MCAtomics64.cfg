SPECIFICATION MSpec
CONSTANTS
  XLEN = 64
  BYTE = 8
  MEMORY_SIZE = 9
  NUM_REGISTERS = 32
  Csrs = {256, 321, 322, 768, 773, 833, 834}
  MaxLines = 4
  Instructions <- Rv64Program
PROPERTIES LinkedSpec AccessesAreAllOrNothing LoadsMatchBytes StoresReadBack AmosCombine ScStoresWhatItReports
