SPECIFICATION RowsSpec
CONSTANTS
  WordBits = 6
  Offsets <- BackwardOffsets
  Targets = {4, 7}
  Links = {0, 1}
  Privileged = FALSE
  Handler = 12
  MinDomain = 2
  MaxRows = 3
INVARIANT RowsSatisfyPcConstraints
