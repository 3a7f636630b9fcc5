SPECIFICATION RowsSpec
CONSTANTS
  WordBits = 6
  Offsets <- ForwardOffsets
  Targets = {4, 7}
  Links = {1}
  Privileged = TRUE
  Handler = 12
  MinDomain = 2
  MaxRows = 3
INVARIANT PcContinuity
