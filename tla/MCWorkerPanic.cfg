SPECIFICATION Spec
CONSTANTS
  Workers = {w1, w2}
  NumChunks = 3
  MaxPanics = 1
  Faults = {}
  Pill = Pill
INVARIANT WrittenProofCoversAllChunks
