SPECIFICATION FairSpec
CONSTANTS
  Workers = {w1}
  NumChunks = 5
  MaxPanics = 0
  Faults = {"folder"}
  Pill = Pill
PROPERTY FolderFailureEndsRun
