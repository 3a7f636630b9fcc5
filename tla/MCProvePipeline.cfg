SPECIFICATION Spec
CONSTANTS
  Workers = {w1, w2, w3}
  NumChunks = 5
  MaxPanics = 2
  Faults = {"folder", "io", "sigint"}
  Pill = Pill
SYMMETRY Symmetry
INVARIANTS
  TypeOK
  QueueIsFifo
  EveryChunkInOnePlace
  ProofCoversAllChunks
  NeverFoldsAcrossLostChunk
  NoLostWakeup
PROPERTY ImplementsOrderedFold
