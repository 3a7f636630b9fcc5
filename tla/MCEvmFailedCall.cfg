SPECIFICATION FramesSpec
CONSTANTS
  Contracts = {a, b}
  NoCode = {e}
  Opcodes = {"CALL", "CREATE"}
  Sender = sender
  Created = created
  TxValues = {1}
  CallValues = {0}
  MaxInsns = 5
  MaxTxs = 2
  MinEvmDomain = 2
INVARIANTS
  FailedCallsAccepted
