SPECIFICATION ExecutionSpec
CONSTANTS
  Code = {a}
  Stvec = sh
  Mtvec = mh
  Devices = {"MTI"}
  Exceptions = {"PageFault"}
  Delegable = {"SSI", "PageFault"}
  StatusBits = {"SIE", "MIE", "TSR"}
  TickInterval = 1
  None = None
  WordBits = 6
  Offsets <- ForwardOffsets
  Targets = {4, 7}
  Links = {1}
  Privileged = TRUE
  Handler = 12
  MinDomain = 2
  MaxRows = 3
  Contracts = {c1, c2}
  NoCode = {e}
  Opcodes = {"STATICCALL", "DELEGATECALL", "CREATE"}
  Sender = sender
  Created = created
  TxValues = {1}
  CallValues = {0}
  MaxInsns = 5
  MaxTxs = 2
  MinEvmDomain = 2
SYMMETRY ContractSymmetry
INVARIANTS
  TypeOK
  HandlerRunsMasked
  ContinuityBreaksOnlyAtTraps
  RowsBreakOnlyAtTraps
  RowsBreakExactlyAtUntracedFrames
  PlainTransactionsAccepted
PROPERTIES
  TrapNeverLowersPrivilege
  MretRestores
  SretRestores
