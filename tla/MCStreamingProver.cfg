SPECIFICATION Spec
CONSTANTS
  Pages = {p1, p2}
  Absent = Absent
  ChunkSize = 2
  MaxSteps = 5
  StepBound = 7
SYMMETRY Symmetry
INVARIANTS
  TypeOK
  ChunksFormChain
  BoundaryHashCoversMemory
  UartHashMatchesProof
  AbortTakesTwoSignals
  StopsWithinOneChunk
