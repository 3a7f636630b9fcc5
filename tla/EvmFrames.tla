----------------------------- MODULE EvmFrames -----------------------------
(***************************************************************************)
(* The call frames of the EVM trace, from the interpreter's call stack to  *)
(* the constraints on the frame columns: prove-block replays the           *)
(* transactions of a block, TracingInspector keeps its own stack of frames *)
(* from revm's call/create hooks and stamps every row with the frame on    *)
(* top, the rows of all transactions are merged, and the EVM constraint    *)
(* system relates the frame columns of neighbouring rows and, through the  *)
(* frame-stack permutation, every pushed frame with a popped one.          *)
(*                                                                         *)
(* revm is not part of the repository: evm is the call stack of its        *)
(* interpreter, as the hooks see it. An instruction, the hooks it causes   *)
(* and what follows before the next instruction run on one thread and are  *)
(* one action. A frame's value stands for its value, gas and return        *)
(* window, which the columns treat alike but for the transfer of the value *)
(* by DELEGATECALL.  Errors of the RPC connection during the replay are    *)
(* left out.                                                               *)
(***************************************************************************)
EXTENDS Naturals, Sequences, FiniteSets, SequencesExt

CONSTANTS
  Contracts,   \* accounts with code
  NoCode,      \* accounts without code and precompiles
  Sender,      \* the sender of the transactions
  Created,     \* the address a CREATE derives
  Opcodes,     \* the call-family instructions of the programs
  TxValues,    \* values of transactions
  CallValues,  \* values of calls and creations
  MaxInsns,     \* bound: the instructions of the block
  MaxTxs,      \* bound: the transactions of the block
  MinEvmDomain    \* the least domain of a proof (16 in the code)

Addresses == Contracts \union NoCode \union {Sender, Created}
CallOps == {"CALL", "CALLCODE", "DELEGATECALL", "STATICCALL"}
CreateOps == {"CREATE", "CREATE2"}
PushOps == CallOps \union CreateOps
EndOps == {"STOP", "RETURN", "REVERT", "SELFDESTRUCT"}

ASSUME FramesAssumption ==
  /\ Opcodes \subseteq PushOps
  /\ 0 \in CallValues /\ CallValues \subseteq Nat /\ TxValues \subseteq Nat
  /\ Contracts # {} /\ Sender \notin Contracts
  /\ MaxInsns \in Nat /\ MaxTxs \in Nat
  /\ MinEvmDomain \in Nat \ {0}

VARIABLES
  evm,          \* revm's frames: address, program counter, static mode
  frame_stack,  \* the inspector's frames
  trace,        \* the rows of the transaction being replayed
  merged,       \* merged_trace
  txs           \* transactions started

frameVars == <<evm, frame_stack, trace, merged, txs>>

FramesInit ==
  /\ evm = <<>> /\ frame_stack = <<>>
  /\ trace = <<>> /\ merged = <<>>
  /\ txs = 0

----------------------------------------------------------------------------
(* TracingInspector *)

(* Faulty variant: the STOP that ends a callee counts as a plain STOP. *)
Bad_selector(op, depth) ==
  CASE op \in PushOps -> op
    [] op = "RETURN" -> IF depth >= 1 THEN "call_return" ELSE "call"
    [] op = "REVERT" -> IF depth >= 1 THEN "revert" ELSE "stop"
    [] op \in {"STOP", "INVALID", "SELFDESTRUCT"} -> "stop"
    [] OTHER -> "other"

(* push_row: which of a row's selectors the frame constraints see. A STOP  *)
(* below the top level has sel_stop_pop beside sel_stop; a SELFDESTRUCT is *)
(* classified with STOP but has sel_stop only, at any depth.               *)
selector(op, depth) ==
  CASE op \in PushOps -> op
    [] op = "RETURN" -> IF depth >= 1 THEN "call_return" ELSE "call"
    [] op = "REVERT" -> IF depth >= 1 THEN "revert" ELSE "stop"
    [] op = "STOP" -> IF depth >= 1 THEN "stop_pop" ELSE "stop"
    [] op \in {"INVALID", "SELFDESTRUCT"} -> "stop"
    [] OTHER -> "other"

(* step and step_end: the row of one instruction. effect and tx are        *)
(* history: what the instruction did to the call stack, and where.         *)
row(op, input1, effect) ==
  [opcode |-> op,
   input1 |-> IF op \in CallOps THEN input1 ELSE 0,
   hint |-> IF op \in CreateOps /\ effect # "halt" THEN Created ELSE 0,
   pc |-> Last(evm).pc, next_pc |-> Last(evm).pc + 1,
   frame |-> Last(frame_stack),
   sel |-> selector(op, Last(frame_stack).depth),
   effect |-> effect, tx |-> txs]

(* The call hook: the frame pushed for a call of kind op made after rows.  *)
call(op, target_address, caller, value, rows) ==
  LET nested == frame_stack # <<>>
      delegate == nested /\ op = "DELEGATECALL"
  IN Append(frame_stack,
       [depth |-> Len(frame_stack),
        caller |-> IF delegate THEN Last(frame_stack).caller ELSE caller,
        callee |-> target_address,
        value |-> IF delegate THEN Last(frame_stack).value ELSE value,
        return_pc |-> IF rows = <<>> THEN 0 ELSE Last(rows).pc + 1,
        is_static |-> \/ op = "STATICCALL"
                      \/ nested /\ Last(frame_stack).is_static])

(* The create hook; row has the address it backfills. *)
create(caller, value, rows) == call("CREATE", Created, caller, value, rows)

(* call_end and create_end *)
call_end(frames) == IF frames = <<>> THEN frames ELSE Front(frames)

----------------------------------------------------------------------------
(* revm, and the replay of the block by prove-block *)

InTx == evm # <<>>

(* Room in the bound for a row and for the ends of the frames then open *)
HasRoom(open) == Len(merged) + Len(trace) + 1 + open <= MaxInsns
Entered(self, static) == [self |-> self, pc |-> 0, static |-> static]

(* The caller's stack once its instruction has been fetched *)
Advanced == [evm EXCEPT ![Len(evm)].pc = @ + 1]

(* The address whose state the callee works on: CALLCODE and DELEGATECALL  *)
(* run foreign code on the caller's own account.                           *)
TargetAddress(op, address) ==
  IF op \in {"CALLCODE", "DELEGATECALL"} THEN Last(evm).self ELSE address

(* The frames after the hook of a call-family instruction *)
Hooked(op, address, value, rows) ==
  IF op \in CreateOps THEN create(Last(evm).self, value, rows)
  ELSE call(op, TargetAddress(op, address), Last(evm).self, value, rows)

(* The operands of a call-family instruction the interpreter lets through: *)
(* no value with STATICCALL and DELEGATECALL, and neither a transfer nor a *)
(* creation in static mode.                                                *)
Callable(op, address, value) ==
  /\ op \in {"STATICCALL", "DELEGATECALL"} => value = 0
  /\ Last(evm).static => op \notin CreateOps /\ (op = "CALL" => value = 0)
  /\ op \in CreateOps => address = Created
  /\ op \in CallOps => address \in Contracts \union NoCode

(* Transaction that reaches code: the trace is reset and the top-level     *)
(* frame pushed.                                                           *)
BeginTx(to, value) ==
  /\ ~InTx /\ txs < MaxTxs /\ Len(merged) < MaxInsns
  /\ txs' = txs + 1
  /\ trace' = <<>>
  /\ frame_stack' = IF to = Created THEN create(Sender, value, <<>>)
                    ELSE call("CALL", to, Sender, value, <<>>)
  /\ evm' = <<Entered(to, FALSE)>>
  /\ UNCHANGED merged

(* Transaction without a step: an invalid one, which runs no hook, or a    *)
(* transfer, whose frame is pushed and popped.                             *)
EmptyTx ==
  /\ ~InTx /\ txs < MaxTxs
  /\ txs' = txs + 1
  /\ trace' = <<>>
  /\ \/ UNCHANGED frame_stack
     \/ \E to \in NoCode, value \in TxValues :
          frame_stack' = call_end(call("CALL", to, Sender, value, <<>>))
  /\ UNCHANGED <<evm, merged>>

(* Instruction that stays in its frame *)
Instruction ==
  /\ InTx /\ HasRoom(Len(evm))
  /\ trace' = Append(trace, row("OP", 0, "next"))
  /\ evm' = Advanced
  /\ UNCHANGED <<frame_stack, merged, txs>>

(* Call or creation that enters a frame *)
EnterFrame(op, address, value) ==
  /\ InTx /\ HasRoom(Len(evm) + 1)
  /\ Callable(op, address, value) /\ address \notin NoCode
  /\ trace' = Append(trace, row(op, address, "enter"))
  /\ frame_stack' = Hooked(op, address, value, trace')
  /\ evm' = Append(Advanced,
              Entered(IF op \in CreateOps THEN Created
                      ELSE TargetAddress(op, address),
                      Last(evm).static \/ op = "STATICCALL"))
  /\ UNCHANGED <<merged, txs>>

(* Call or creation that is answered at once: both hooks run and no        *)
(* instruction. A contract that is refused for depth or balance looks like *)
(* an account without code.                                                *)
AnswerCall(op, address, value) ==
  /\ InTx /\ HasRoom(Len(evm))
  /\ Callable(op, address, value) /\ address \notin Contracts
  /\ trace' = Append(trace, row(op, address, "answered"))
  /\ frame_stack' = call_end(Hooked(op, address, value, trace'))
  /\ evm' = Advanced
  /\ UNCHANGED <<merged, txs>>

(* The end of the running frame by the instruction of row r: its end hook  *)
(* runs, and below it the caller goes on or the transaction is over and    *)
(* its rows are merged.                                                    *)
Leave(r) ==
  /\ trace' = Append(trace, r)
  /\ frame_stack' = call_end(frame_stack)
  /\ evm' = Front(evm)
  /\ merged' = IF Len(evm) = 1 THEN merged \o trace' ELSE merged
  /\ UNCHANGED txs

(* The interpreter refuses to destroy an account in static mode. *)
EndFrame(op) ==
  /\ InTx /\ (op = "SELFDESTRUCT" => ~Last(evm).static)
  /\ Leave(row(op, 0, "leave"))

(* Out of gas, stack underflow, a forbidden or an invalid instruction: the *)
(* instruction is traced and its frame is over. Any can fail but STOP.     *)
HaltOps == Opcodes \union (EndOps \ {"STOP"}) \union {"OP", "INVALID"}
Halt(op, address) == InTx /\ Leave(row(op, address, "halt"))

(* The block has been replayed. *)
ReplayDone ==
  /\ ~InTx /\ (txs = MaxTxs \/ Len(merged) = MaxInsns)
  /\ UNCHANGED frameVars

FramesNext ==
  \/ \E to \in Contracts \union {Created}, value \in TxValues : BeginTx(to, value)
  \/ EmptyTx
  \/ Instruction
  \/ \E op \in Opcodes, address \in Addresses, value \in CallValues :
       \/ EnterFrame(op, address, value)
       \/ AnswerCall(op, address, value)
  \/ \E op \in EndOps : EndFrame(op)
  \/ \E op \in HaltOps : Halt(op, 0)
  \/ ReplayDone

FramesSpec == FramesInit /\ [][FramesNext]_frameVars

----------------------------------------------------------------------------
(* EvmConstraintSystem: the constraints on a row r and the next row s *)

PopSelectors == {"call_return", "revert", "stop_pop"}
FrameOps == PushOps \union PopSelectors

pc_continuity(r, s) == r.sel \notin FrameOps => s.pc = r.next_pc

push_frame(r, s) ==
  r.sel \in PushOps =>
    /\ s.frame.depth = r.frame.depth + 1
    /\ s.frame.callee = IF r.sel \in CreateOps THEN r.hint ELSE r.input1
    /\ s.frame.caller = IF r.sel = "DELEGATECALL" THEN r.frame.caller
                        ELSE r.frame.callee
    /\ r.sel = "DELEGATECALL" => s.frame.value = r.frame.value
    /\ s.frame.return_pc = r.pc + 1
    /\ s.frame.is_static = (r.sel = "STATICCALL" \/ r.frame.is_static)

pop_frame(r, s) ==
  r.sel \in {"call_return", "revert"} => s.frame.depth + 1 = r.frame.depth

preserve_frame(r, s) == r.sel \notin FrameOps => s.frame = r.frame

shifted_constraints(r, s) ==
  /\ pc_continuity(r, s) /\ push_frame(r, s)
  /\ pop_frame(r, s) /\ preserve_frame(r, s)

(* fix_trace_padding: the row that pads a chunk *)
EvmPaddingRow(rows) ==
  LET last == Last(rows)
      popped == last.sel \in {"call_return", "revert"}
  IN [last EXCEPT !.opcode = "STOP", !.sel = "stop", !.pc = last.next_pc,
        !.frame.depth = IF popped THEN @ - 1 ELSE @]

(* nearest_power_of_two *)
nearest_size(n) ==
  CHOOSE size \in {MinEvmDomain * 2^k : k \in 0 .. n} :
    /\ size >= n
    /\ \A k \in 0 .. n : MinEvmDomain * 2^k >= n => size <= MinEvmDomain * 2^k

PaddedChunk(rows) ==
  [i \in 1 .. nearest_size(Len(rows)) |->
     IF i <= Len(rows) THEN rows[i] ELSE EvmPaddingRow(rows)]

NextRow(rows, i) == rows[(i % Len(rows)) + 1]

(* Faulty variant: only RETURN and REVERT pop a frame. *)
Bad_frame_permutation(rows) ==
  \A frame \in {rows[i].frame : i \in DOMAIN rows} :
    Cardinality({i \in DOMAIN rows :
                   rows[i].sel \in PushOps /\ rows[i].frame = frame})
      = Cardinality({i \in DOMAIN rows :
                       /\ rows[i].sel \in {"call_return", "revert"}
                       /\ NextRow(rows, i).frame = frame})

(* The frame-stack permutation: the multiset of the frames of the rows     *)
(* that push is that of the frames of the rows after the ones that pop,    *)
(* round the domain.                                                       *)
frame_permutation(rows) ==
  \A frame \in {rows[i].frame : i \in DOMAIN rows} :
    Cardinality({i \in DOMAIN rows :
                   rows[i].sel \in PushOps /\ rows[i].frame = frame})
      = Cardinality({i \in DOMAIN rows :
                       /\ rows[i].sel \in PopSelectors
                       /\ NextRow(rows, i).frame = frame})

(* What the frame constraints ask of a chunk: the shifted ones leave out   *)
(* the last row of the domain, the permutation does not.                   *)
ChunkAccepted(rows) ==
  LET all == PaddedChunk(rows)
  IN /\ \A i \in 1 .. Len(all) - 1 : shifted_constraints(all[i], all[i + 1])
     /\ frame_permutation(all)

(* verify_call_transition, the host-side specification *)
verify_call_transition(r, s) ==
  r.opcode \in PushOps =>
    /\ s.frame.depth \in {r.frame.depth, r.frame.depth + 1}
    /\ s.frame.depth = r.frame.depth + 1 /\ r.opcode # "DELEGATECALL"
         => s.frame.caller = r.frame.callee

----------------------------------------------------------------------------
(* Properties *)

(* Calls the columns cannot express: the ones answered without a frame,    *)
(* and the ones that run foreign code on the caller's account.             *)
Inexpressible(r) ==
  /\ r.opcode \in PushOps
  /\ \/ r.effect # "enter"
     \/ r.opcode \in {"CALLCODE", "DELEGATECALL"} /\ r.input1 # r.frame.callee

(* Rows that end a frame although no selector of theirs pops one: a        *)
(* SELFDESTRUCT, and the exceptional halt of anything but RETURN and       *)
(* REVERT, whose selectors pop the frame whether they succeed or not.      *)
Unpopped(r) ==
  r.effect \in {"leave", "halt"} /\ r.opcode \notin {"STOP", "RETURN", "REVERT"}

(* Two neighbouring rows of a block satisfy the frame and PC constraints   *)
(* unless, and only unless, the first one is such a call, ends a callee    *)
(* without popping it, or ends its transaction. So the inspector's frames  *)
(* are those of the interpreter through every nesting and across           *)
(* transactions, and the boundaries of merged transactions are never       *)
(* accepted.                                                               *)
RowsBreakExactlyAtUntracedFrames ==
  \A i \in 1 .. Len(merged) - 1 :
    LET r == merged[i]  s == merged[i + 1]
    IN shifted_constraints(r, s)
         <=> /\ r.tx = s.tx
             /\ ~Inexpressible(r)
             /\ ~Unpopped(r)

(* No call of these rows is such a call, and every callee's end pops it. *)
Plain(rows) ==
  /\ \A i \in 1 .. Len(rows) : ~Inexpressible(rows[i])
  /\ \A i \in 1 .. Len(rows) - 1 : ~Unpopped(rows[i])

(* The rows of a transaction are a run of the merged ones, and as a chunk  *)
(* of their own they are accepted, padding and permutation included, if    *)
(* the transaction is plain: every frame its calls push is popped again,   *)
(* by RETURN, REVERT or STOP.                                              *)
PlainTransactionsAccepted ==
  \A t \in {merged[i].tx : i \in DOMAIN merged} :
    \E first, last \in DOMAIN merged :
      LET rows == SubSeq(merged, first, last)
      IN /\ \A i \in DOMAIN merged : merged[i].tx = t <=> i \in first .. last
         /\ Plain(rows) => ChunkAccepted(rows)

(* A call row that the host-side specification takes for a failed call,    *)
(* because the depth stays, satisfies the constraints (comment in          *)
(* verify_call_transition).                                                *)
FailedCallsAccepted ==
  \A i \in 1 .. Len(merged) - 1 :
    LET r == merged[i]  s == merged[i + 1]
    IN /\ r.opcode \in PushOps /\ r.tx = s.tx
       /\ verify_call_transition(r, s) /\ s.frame.depth = r.frame.depth
       => shifted_constraints(r, s)

=============================================================================
