SPECIFICATION ProofSpec
CONSTANTS
  Hashes = {h1, h2}
  MaxChunks = 7
  None = None
  Err = Err
  MaxOracle = 1
  MaxRaw = 5
  QMod = 4
  Tuples = {0, 1, 2}
  AirsA <- SomeA
  AirsB <- SomeB
  MinPad = 2
  RangeTable = 8
  Instructions = {"LD", "SD", "LR", "SC", "AMOADD", "LB", "LBU", "SB"}
  Operands = {1, 2}
  Discards = {TRUE, FALSE}
  Tracers = {"owned", "borrowed"}
  MaxAccesses = 3
  Padded = 4
INVARIANTS
  ProofTypeOK
  TreeFoldIsLinearFold
  FoldSpansAllChunks
  StackIsBinaryCounter
  ReplaysAgree
  HonestProofsAccepted
  LinkageAcceptedIffIncluded
  ConstraintsDecideConsistency
  TrueRowsAccepted
