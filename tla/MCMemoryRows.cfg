SPECIFICATION MemSpec
CONSTANTS
  Instructions = {"LD", "SD", "AMOADD"}
  Operands = {1, 2}
  Discards = {FALSE}
  Tracers = {"borrowed"}
  MaxAccesses = 3
  Padded = 4
INVARIANTS
  LoadsReturnLastStore
