---------------------------- MODULE MCExecution ----------------------------
(***************************************************************************)
(* TLC instance of execution and its traces: the hart's traps and returns, *)
(* the rows of a RISC-V chunk and the call frames of an EVM block.  They   *)
(* share no state (the rows' guest is nondeterministic), so a behaviour    *)
(* runs one of them, chosen at the start, and leaves the others in one     *)
(* initial state each.                                                     *)
(***************************************************************************)
EXTENDS Hart, TraceRows, EvmFrames
LOCAL INSTANCE TLC

VARIABLE part

executionVars == <<part, vars, rowVars, frameVars>>

ExecutionInit ==
  /\ part \in {"hart", "rows", "frames"}
  /\ Init /\ RowsInit /\ FramesInit
  /\ part # "rows" => cpu_pc = CHOOSE t \in Targets : t % 2 = 0

ExecutionNext ==
  /\ UNCHANGED part
  /\ \/ part = "hart" /\ Next /\ UNCHANGED <<rowVars, frameVars>>
     \/ part = "rows" /\ RowsNext /\ UNCHANGED <<vars, frameVars>>
     \/ part = "frames" /\ FramesNext /\ UNCHANGED <<vars, rowVars>>

ExecutionSpec == ExecutionInit /\ [][ExecutionNext]_executionVars

----------------------------------------------------------------------------
(* The instance *)

ForwardOffsets == {6}

(* The EVM's contracts are interchangeable. *)
ContractSymmetry == Permutations(Contracts)
=============================================================================
