SPECIFICATION FairSpec
CONSTANTS
  Workers = {w1, w2}
  NumChunks = 6
  MaxPanics = 2
  Faults = {"folder", "io"}
  Pill = Pill
PROPERTY EndsUnlessWorkersGone
