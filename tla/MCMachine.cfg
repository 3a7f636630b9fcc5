SPECIFICATION MachineSpec
CONSTANTS
  QueueSize = 2
  RingAddr <- TopByteSet
  IdxMod = 4
  Heads = {0, 3}
  Values = {"p", "q"}
  NumSectors = 1
  Idle = Idle
  Spaces = {"A", "B"}
  Bare = Bare
  Fan = 2
  Roots = 1
  TlbSize = 1
  InitPtes <- FirstPtes
  PteStores <- SomeStores
  Statuses <- NoneOrBoth
  NoEntry = NoEntry
  AddrMod = 8
  LrSizes = {2, 4}
  StoreSizes = {1, 2, 4}
  NoRes = NoRes
INVARIANTS
  MachineTypeOK
  SignalledUnlessWrapped
  StoresReachRegisters
  HitAgreesWithWalk
  CachedPagesMarked
  ScSucceedsIffUndisturbed
PROPERTIES
  ImplementsBlockStore
  NotifiedRequestsServed
