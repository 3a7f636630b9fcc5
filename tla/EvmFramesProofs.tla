-------------------------- MODULE EvmFramesProofs --------------------------
(***************************************************************************)
(* Proofs about EvmFrames, for any contracts, programs, depth of calls and *)
(* number of transactions.                                                 *)
(***************************************************************************)
EXTENDS EvmFrames, NumberLemmas, SequenceTheorems, TLAPS

CallFrame == [depth : Nat, caller : Addresses, callee : Addresses, value : Nat,
          return_pc : Nat, is_static : BOOLEAN]

EvmFrame == [self : Addresses, pc : Nat, static : BOOLEAN]

Effects == {"next", "enter", "answered", "leave", "halt"}

EvmRow == [opcode : PushOps \union EndOps \union {"OP", "INVALID"},
           input1 : Addresses \union {0}, hint : {Created, 0},
           pc : Nat, next_pc : Nat, frame : CallFrame,
           sel : PushOps \union PopSelectors \union {"call", "stop", "other"},
           effect : Effects, tx : Nat]

(* The type invariant of the replay *)
FramesTypeOK ==
  /\ evm \in Seq(EvmFrame) /\ frame_stack \in Seq(CallFrame)
  /\ trace \in Seq(EvmRow) /\ merged \in Seq(EvmRow)
  /\ txs \in Nat

----------------------------------------------------------------------------
(* Sequences as stacks *)

LEMMA StackPop ==
  ASSUME NEW S, NEW s \in Seq(S), s # <<>>
  PROVE  /\ Front(s) \in Seq(S)
         /\ Len(s) \in Nat \ {0}
         /\ Len(Front(s)) = Len(s) - 1
         /\ \A i \in 1 .. Len(s) - 1 : Front(s)[i] = s[i]
<1>1. Len(s) \in Nat \ {0}
  BY EmptySeq
<1> DEFINE n == Len(s) - 1
<1>2. n \in 0 .. Len(s)
  BY <1>1
<1>3. \A i \in 1 .. n : s[i] \in S
  BY <1>2
<1>4. /\ SubSeq(s, 1, n) \in Seq(S)
      /\ Len(SubSeq(s, 1, n)) = IF 1 <= n THEN n - 1 + 1 ELSE 0
      /\ \A i \in 1 .. n - 1 + 1 : SubSeq(s, 1, n)[i] = s[1 + i - 1]
  BY <1>2, <1>3, SubSeqProperties
<1> DEFINE t == SubSeq(s, 1, n)
<1>5. t = Front(s)
  BY DEF Front
<1> HIDE DEF t
<1>6. Len(t) = n /\ \A i \in 1 .. n : t[i] = s[i]
  <2>1. n \in Nat
    BY <1>2
  <2> HIDE DEF n
  <2>2. Len(t) = n
    BY <1>4, <2>1 DEF t
  <2>3. ASSUME NEW i \in 1 .. n PROVE t[i] = s[i]
    <3>1. i \in 1 .. n - 1 + 1 /\ 1 + i - 1 = i
      BY <2>1
    <3> QED BY <1>4, <3>1 DEF t
  <2> QED BY <2>2, <2>3
<1> QED BY <1>1, <1>4, <1>5, <1>6 DEF t

LEMMA StackTop ==
  ASSUME NEW S, NEW s \in Seq(S), s # <<>>
  PROVE  Last(s) \in S /\ Last(s) = s[Len(s)] /\ Len(s) \in 1 .. Len(s)
<1>1. Len(s) \in Nat \ {0}
  BY EmptySeq
<1> QED BY <1>1 DEF Last

LEMMA StackPush ==
  ASSUME NEW S, NEW s \in Seq(S), NEW x \in S
  PROVE  /\ Append(s, x) \in Seq(S)
         /\ Append(s, x) # <<>>
         /\ Len(Append(s, x)) = Len(s) + 1
         /\ \A i \in 1 .. Len(s) : Append(s, x)[i] = s[i]
         /\ Append(s, x)[Len(s) + 1] = x
         /\ Last(Append(s, x)) = x
         /\ call_end(Append(s, x)) = s
<1>1. /\ Append(s, x) \in Seq(S)
      /\ Append(s, x) # <<>>
      /\ Len(Append(s, x)) = Len(s) + 1
      /\ \A i \in 1 .. Len(s) : Append(s, x)[i] = s[i]
      /\ Append(s, x)[Len(s) + 1] = x
  BY AppendProperties
<1>2. Last(Append(s, x)) = x
  BY <1>1 DEF Last
<1>3. call_end(Append(s, x)) = s
  <2> DEFINE t == Append(s, x)
  <2>1. Front(t) \in Seq(S) /\ Len(Front(t)) = Len(t) - 1
          /\ \A i \in 1 .. Len(t) - 1 : Front(t)[i] = t[i]
    <3>1. t \in Seq(S) /\ t # <<>>
      BY <1>1
    <3> HIDE DEF t
    <3> QED BY <3>1, StackPop
  <2>2. call_end(t) = Front(t)
    BY <1>1 DEF call_end
  <2> DEFINE u == Front(t)
  <2>3. u \in Seq(S) /\ Len(u) = Len(s) /\ \A i \in 1 .. Len(s) : u[i] = s[i]
    BY <1>1, <2>1
  <2> HIDE DEF u, t
  <2>4. u = s
    BY <2>3
  <2> QED BY <2>2, <2>4 DEF u, t
<1> QED BY <1>1, <1>2, <1>3

----------------------------------------------------------------------------
(* What a row asks of the row after it *)

(* The claim of RowsBreakExactlyAtUntracedFrames for row r and a next row  *)
(* with this PC, frame and transaction                                     *)
FitsAt(r, pc, frame, tx) ==
  (/\ r.sel \notin FrameOps => pc = r.next_pc /\ frame = r.frame
   /\ r.sel \in PushOps =>
        /\ frame.depth = r.frame.depth + 1
        /\ frame.callee = IF r.sel \in CreateOps THEN r.hint ELSE r.input1
        /\ frame.caller = IF r.sel = "DELEGATECALL" THEN r.frame.caller
                          ELSE r.frame.callee
        /\ r.sel = "DELEGATECALL" => frame.value = r.frame.value
        /\ frame.return_pc = r.pc + 1
        /\ frame.is_static = (r.sel = "STATICCALL" \/ r.frame.is_static)
   /\ r.sel \in {"call_return", "revert"} => frame.depth + 1 = r.frame.depth)
  <=> r.tx = tx /\ ~Inexpressible(r) /\ ~Unpopped(r)

(* It holds between all neighbours of a sequence of rows. *)
Fits(rows) ==
  \A i \in 1 .. Len(rows) - 1 :
    FitsAt(rows[i], rows[i + 1].pc, rows[i + 1].frame, rows[i + 1].tx)

LEMMA FitsIsClaim ==
  Fits(merged) => RowsBreakExactlyAtUntracedFrames
BY DEF Fits, FitsAt, RowsBreakExactlyAtUntracedFrames, shifted_constraints,
       pc_continuity, push_frame, pop_frame, preserve_frame

LEMMA FitsAppend ==
  ASSUME NEW rows \in Seq(EvmRow), Fits(rows), NEW r \in EvmRow,
         rows # <<>> => FitsAt(Last(rows), r.pc, r.frame, r.tx)
  PROVE  Fits(Append(rows, r))
<1> DEFINE t == Append(rows, r)
<1>1. /\ Len(t) = Len(rows) + 1 /\ Len(rows) \in Nat
      /\ \A i \in 1 .. Len(rows) : t[i] = rows[i]
      /\ t[Len(rows) + 1] = r
  BY AppendProperties
<1> HIDE DEF t
<1>2. ASSUME NEW i \in 1 .. Len(t) - 1
      PROVE  FitsAt(t[i], t[i + 1].pc, t[i + 1].frame, t[i + 1].tx)
  <2>1. CASE i < Len(rows)
    <3>1. t[i] = rows[i] /\ t[i + 1] = rows[i + 1] /\ i \in 1 .. Len(rows) - 1
      BY <1>1, <2>1
    <3> QED BY <3>1 DEF Fits
  <2>2. CASE i = Len(rows)
    <3>1. t[i] = Last(rows) /\ t[i + 1] = r /\ rows # <<>>
      BY <1>1, <2>2 DEF Last
    <3> QED BY <3>1
  <2> QED BY <1>1, <2>1, <2>2
<1> QED BY <1>2 DEF Fits, t

LEMMA FitsConcat ==
  ASSUME NEW s \in Seq(EvmRow), Fits(s), NEW t \in Seq(EvmRow), Fits(t), t # <<>>,
         s # <<>> => FitsAt(Last(s), t[1].pc, t[1].frame, t[1].tx)
  PROVE  Fits(s \o t)
<1> DEFINE u == s \o t
<1>1. /\ Len(u) = Len(s) + Len(t) /\ Len(s) \in Nat /\ Len(t) \in Nat
      /\ \A i \in 1 .. Len(s) + Len(t) : u[i] = IF i <= Len(s) THEN s[i] ELSE t[i - Len(s)]
  BY ConcatProperties
<1> HIDE DEF u
<1>2. ASSUME NEW i \in 1 .. Len(u) - 1
      PROVE  FitsAt(u[i], u[i + 1].pc, u[i + 1].frame, u[i + 1].tx)
  <2>1. CASE i < Len(s)
    <3>1. u[i] = s[i] /\ u[i + 1] = s[i + 1] /\ i \in 1 .. Len(s) - 1
      BY <1>1, <2>1
    <3> QED BY <3>1 DEF Fits
  <2>2. CASE i = Len(s)
    <3>1. u[i] = Last(s) /\ u[i + 1] = t[1] /\ s # <<>>
      BY <1>1, <2>2 DEF Last
    <3> QED BY <3>1
  <2>3. CASE i > Len(s)
    <3> DEFINE k == i - Len(s)
    <3>1. u[i] = t[k] /\ u[i + 1] = t[k + 1] /\ k \in 1 .. Len(t) - 1
      BY <1>1, <2>3
    <3> HIDE DEF k
    <3> QED BY <3>1 DEF Fits
  <2> QED BY <1>1, <2>1, <2>2, <2>3
<1> QED BY <1>2 DEF Fits, u

----------------------------------------------------------------------------
(* The inductive invariant *)

(* The inspector's frames are those of the interpreter. *)
Mirror ==
  /\ Len(frame_stack) = Len(evm)
  /\ \A i \in 1 .. Len(evm) :
       /\ frame_stack[i].depth = i - 1
       /\ frame_stack[i].callee = evm[i].self
       /\ frame_stack[i].is_static = evm[i].static

(* The rows of the running transaction start at the top level, and the     *)
(* instruction that comes next fits the last one.                          *)
Running ==
  InTx =>
    /\ IF trace = <<>> THEN Len(evm) = 1 /\ evm[1].pc = 0
       ELSE /\ trace[1].pc = 0 /\ trace[1].frame.depth = 0 /\ trace[1].tx = txs
            /\ FitsAt(Last(trace), Last(evm).pc, Last(frame_stack), txs)
    /\ merged # <<>> => Last(merged).tx < txs

(* A row that ends a transaction: no row that starts one can follow it. *)
EndsTx(r) == r.frame.depth = 0 /\ r.next_pc # 0 /\ r.sel \notin PopSelectors

FramesInv ==
  /\ FramesTypeOK /\ Mirror
  /\ Fits(trace) /\ Fits(merged)
  /\ Running
  /\ merged # <<>> => EndsTx(Last(merged)) /\ Last(merged).tx <= txs

LEMMA SeamFits ==
  ASSUME NEW r \in EvmRow, EndsTx(r), NEW frame, frame.depth = 0,
         NEW tx \in Nat, r.tx < tx
  PROVE  FitsAt(r, 0, frame, tx)
<1>1. r.tx # tx
  BY DEF EvmRow
<1>2. CASE r.sel \in PushOps
  <2>1. frame.depth # r.frame.depth + 1
    BY DEF EndsTx
  <2> QED BY <1>1, <1>2, <2>1 DEF FitsAt
<1>3. CASE r.sel \notin PushOps
  <2>1. r.sel \notin FrameOps
    BY <1>3 DEF FrameOps, EndsTx
  <2>2. 0 # r.next_pc
    BY DEF EndsTx
  <2> QED BY <1>1, <2>1, <2>2 DEF FitsAt
<1> QED BY <1>2, <1>3

(* The running frame on both sides *)
LEMMA TopFrames ==
  ASSUME FramesTypeOK, Mirror, InTx
  PROVE  /\ Len(evm) \in Nat \ {0} /\ frame_stack # <<>>
         /\ Last(evm) \in EvmFrame /\ Last(frame_stack) \in CallFrame
         /\ Last(evm) = evm[Len(evm)] /\ Last(frame_stack) = frame_stack[Len(evm)]
         /\ Last(frame_stack).depth = Len(evm) - 1
         /\ Last(frame_stack).callee = Last(evm).self
         /\ Last(frame_stack).is_static = Last(evm).static
<1>1. evm \in Seq(EvmFrame) /\ evm # <<>> /\ frame_stack \in Seq(CallFrame)
  BY DEF FramesTypeOK, InTx
<1>2. Len(evm) \in Nat \ {0}
  BY <1>1, EmptySeq
<1>3. frame_stack # <<>>
  BY <1>2, EmptySeq DEF Mirror
<1>4. Last(evm) \in EvmFrame /\ Last(evm) = evm[Len(evm)] /\ Len(evm) \in 1 .. Len(evm)
  BY <1>1, StackTop
<1>5. Last(frame_stack) \in CallFrame /\ Last(frame_stack) = frame_stack[Len(evm)]
  BY <1>1, <1>3, StackTop DEF Mirror
<1> QED BY <1>2, <1>3, <1>4, <1>5 DEF Mirror

(* The selector of a row *)
LEMMA Selectors ==
  ASSUME NEW depth \in Nat
  PROVE  /\ \A op \in PushOps : selector(op, depth) = op
         /\ selector("RETURN", depth) = IF depth >= 1 THEN "call_return" ELSE "call"
         /\ selector("REVERT", depth) = IF depth >= 1 THEN "revert" ELSE "stop"
         /\ selector("STOP", depth) = IF depth >= 1 THEN "stop_pop" ELSE "stop"
         /\ selector("INVALID", depth) = "stop" /\ selector("SELFDESTRUCT", depth) = "stop"
         /\ selector("OP", depth) = "other"
BY DEF selector, PushOps, CallOps, CreateOps

AnyOp == PushOps \union EndOps \union {"OP", "INVALID"}

LEMMA RowFacts ==
  ASSUME FramesTypeOK, Mirror, InTx,
         NEW op \in AnyOp, NEW input1 \in Addresses \union {0}, NEW effect \in Effects
  PROVE  LET r == row(op, input1, effect) IN
         /\ r \in EvmRow
         /\ r.opcode = op /\ r.effect = effect /\ r.tx = txs
         /\ r.pc = Last(evm).pc /\ r.next_pc = Last(evm).pc + 1
         /\ r.frame = Last(frame_stack)
         /\ r.sel = selector(op, Len(evm) - 1)
         /\ op \in CallOps => r.input1 = input1
         /\ op \in CreateOps /\ effect # "halt" => r.hint = Created
<1>1. /\ Last(evm).pc \in Nat /\ Last(frame_stack) \in CallFrame /\ txs \in Nat
      /\ Last(frame_stack).depth = Len(evm) - 1 /\ Len(evm) - 1 \in Nat
  BY TopFrames DEF EvmFrame, FramesTypeOK
<1>2. selector(op, Len(evm) - 1) \in PushOps \union PopSelectors \union {"call", "stop", "other"}
  BY <1>1, Selectors DEF AnyOp, EndOps, PopSelectors
<1> DEFINE r == row(op, input1, effect)
<1>3. /\ r.opcode = op /\ r.effect = effect /\ r.tx = txs
      /\ r.pc = Last(evm).pc /\ r.next_pc = Last(evm).pc + 1
      /\ r.frame = Last(frame_stack)
      /\ r.sel = selector(op, Last(frame_stack).depth)
      /\ op \in CallOps => r.input1 = input1
      /\ op \in CreateOps /\ effect # "halt" => r.hint = Created
  BY DEF row
<1>4. r \in EvmRow
  BY <1>1, <1>2 DEF row, EvmRow, AnyOp
<1> QED BY <1>1, <1>3, <1>4

(* The trace of the running transaction grows by one row. *)
LEMMA TraceGrows ==
  ASSUME FramesInv, InTx, NEW r \in EvmRow,
         r.pc = Last(evm).pc, r.frame = Last(frame_stack), r.tx = txs
  PROVE  LET t == Append(trace, r) IN
         /\ t \in Seq(EvmRow) /\ t # <<>> /\ Last(t) = r
         /\ Fits(t)
         /\ t[1].pc = 0 /\ t[1].frame.depth = 0 /\ t[1].tx = txs
<1>1. FramesTypeOK /\ Mirror /\ Running /\ Fits(trace) /\ trace \in Seq(EvmRow)
  BY DEF FramesInv, FramesTypeOK
<1> DEFINE t == Append(trace, r)
<1>2. /\ t \in Seq(EvmRow) /\ t # <<>> /\ Last(t) = r
      /\ \A i \in 1 .. Len(trace) : t[i] = trace[i]
      /\ t[Len(trace) + 1] = r
  BY <1>1, StackPush
<1>3. trace # <<>> => FitsAt(Last(trace), r.pc, r.frame, r.tx)
  BY <1>1 DEF Running
<1>4. Fits(t)
  BY <1>1, <1>3, FitsAppend
<1>5. CASE trace = <<>>
  <2>1. t[1] = r
    BY <1>2, <1>5
  <2>2. Last(evm) = evm[1] /\ evm[1].pc = 0 /\ Last(frame_stack).depth = 0
    <3>1. Len(evm) = 1 /\ evm[1].pc = 0
      BY <1>1, <1>5 DEF Running
    <3>2. Last(evm) = evm[Len(evm)] /\ Last(frame_stack).depth = Len(evm) - 1
      BY <1>1, TopFrames
    <3> QED BY <3>1, <3>2
  <2> QED BY <1>2, <1>4, <2>1, <2>2
<1>6. CASE trace # <<>>
  <2>1. Len(trace) \in Nat \ {0}
    BY <1>1, <1>6, EmptySeq
  <2>2. t[1] = trace[1]
    BY <1>2, <2>1
  <2> QED BY <1>1, <1>2, <1>4, <1>6, <2>2 DEF Running
<1> QED BY <1>5, <1>6

----------------------------------------------------------------------------
(* The steps *)

(* The caller's frames once its instruction has been fetched *)
LEMMA AdvancedFacts ==
  ASSUME FramesTypeOK, Mirror, InTx
  PROVE  /\ Advanced \in Seq(EvmFrame) /\ Len(Advanced) = Len(evm) /\ Advanced # <<>>
         /\ \A i \in 1 .. Len(evm) :
              Advanced[i].self = evm[i].self /\ Advanced[i].static = evm[i].static
         /\ Last(Advanced).pc = Last(evm).pc + 1
<1> DEFINE n == Len(evm)
           x == [evm[n] EXCEPT !.pc = @ + 1]
<1>1. /\ n \in Nat \ {0} /\ evm \in Seq(EvmFrame) /\ evm[n] \in EvmFrame
      /\ Last(evm) = evm[n]
  BY TopFrames DEF FramesTypeOK
<1>2. /\ x \in EvmFrame /\ x.pc = evm[n].pc + 1
      /\ x.self = evm[n].self /\ x.static = evm[n].static
  BY <1>1 DEF EvmFrame
<1>3. Advanced = [evm EXCEPT ![n] = x]
  BY <1>1 DEF Advanced
<1> HIDE DEF x
<1>4. /\ Advanced \in Seq(EvmFrame) /\ Len(Advanced) = n
      /\ Advanced[n] = x /\ \A i \in 1 .. n - 1 : Advanced[i] = evm[i]
  BY <1>1, <1>2, <1>3
<1>5. Last(Advanced) = x
  BY <1>4 DEF Last
<1>6. Advanced # <<>>
  BY <1>1, <1>4
<1>7. ASSUME NEW i \in 1 .. n
      PROVE  Advanced[i].self = evm[i].self /\ Advanced[i].static = evm[i].static
  <2>1. i = n \/ i \in 1 .. n - 1
    BY <1>1
  <2> QED BY <1>2, <1>4, <2>1
<1> QED BY <1>1, <1>2, <1>4, <1>5, <1>6, <1>7

(* A step within a transaction keeps what is said of the merged rows. *)
LEMMA MergedKept ==
  ASSUME FramesInv, UNCHANGED <<merged, txs>>
  PROVE  /\ Fits(merged)'
         /\ (merged # <<>> => EndsTx(Last(merged)) /\ Last(merged).tx <= txs)'
         /\ InTx => (merged # <<>> => Last(merged).tx < txs)'
BY DEF FramesInv, Running

LEMMA InstructionStep ==
  ASSUME FramesInv, Instruction
  PROVE  FramesInv'
<1> USE DEF Instruction
<1>1. FramesTypeOK /\ Mirror /\ InTx
  BY DEF FramesInv
<1> DEFINE r == row("OP", 0, "next")
<1>2. /\ r \in EvmRow /\ r.opcode = "OP" /\ r.effect = "next" /\ r.tx = txs
      /\ r.pc = Last(evm).pc /\ r.next_pc = Last(evm).pc + 1
      /\ r.frame = Last(frame_stack) /\ r.sel = selector("OP", Len(evm) - 1)
  BY <1>1, RowFacts DEF AnyOp, Effects
<1>3. r.sel = "other"
  BY <1>1, <1>2, TopFrames, Selectors
<1>4. trace' = Append(trace, r)
  OBVIOUS
<1> HIDE DEF r
<1>5. /\ trace' \in Seq(EvmRow) /\ trace' # <<>> /\ Last(trace') = r /\ Fits(trace')
      /\ trace'[1].pc = 0 /\ trace'[1].frame.depth = 0 /\ trace'[1].tx = txs
  BY <1>1, <1>2, <1>4, TraceGrows
<1>6. FitsAt(r, Last(evm).pc + 1, Last(frame_stack), txs)
  BY <1>2, <1>3 DEF FitsAt, Inexpressible, Unpopped, FrameOps, PushOps, PopSelectors,
                    CallOps, CreateOps
<1>7. /\ evm' \in Seq(EvmFrame) /\ Len(evm') = Len(evm) /\ evm' # <<>>
      /\ \A i \in 1 .. Len(evm) : evm'[i].self = evm[i].self /\ evm'[i].static = evm[i].static
      /\ Last(evm').pc = Last(evm).pc + 1
  BY <1>1, AdvancedFacts
<1>8. FramesTypeOK'
  BY <1>1, <1>5, <1>7 DEF FramesTypeOK
<1>9. Mirror'
  BY <1>1, <1>7 DEF Mirror
<1>10. Running'
  BY <1>1, <1>5, <1>6, <1>7, MergedKept DEF Running
<1> QED BY <1>5, <1>8, <1>9, <1>10, MergedKept DEF FramesInv

LEMMA LastTx ==
  ASSUME NEW rows \in Seq(EvmRow), rows # <<>>
  PROVE  Last(rows) \in EvmRow /\ Last(rows).tx \in Nat
<1>1. Last(rows) \in EvmRow
  BY StackTop
<1> QED BY <1>1 DEF EvmRow

(* The frame the call hook pushes *)
Pushed(op, target, caller, value, rows) ==
  LET nested == frame_stack # <<>>
      delegate == nested /\ op = "DELEGATECALL"
  IN [depth |-> Len(frame_stack),
      caller |-> IF delegate THEN Last(frame_stack).caller ELSE caller,
      callee |-> target,
      value |-> IF delegate THEN Last(frame_stack).value ELSE value,
      return_pc |-> IF rows = <<>> THEN 0 ELSE Last(rows).pc + 1,
      is_static |-> \/ op = "STATICCALL"
                    \/ nested /\ Last(frame_stack).is_static]

LEMMA CallPushes ==
  ASSUME FramesTypeOK, NEW op, NEW target \in Addresses, NEW caller \in Addresses,
         NEW value \in Nat, NEW rows \in Seq(EvmRow)
  PROVE  /\ Pushed(op, target, caller, value, rows) \in CallFrame
         /\ call(op, target, caller, value, rows)
              = Append(frame_stack, Pushed(op, target, caller, value, rows))
<1> DEFINE nested == frame_stack # <<>>
           delegate == nested /\ op = "DELEGATECALL"
<1>1. nested => Last(frame_stack) \in CallFrame
  BY StackTop DEF FramesTypeOK
<1>2. rows # <<>> => Last(rows) \in EvmRow
  BY StackTop
<1>3. Len(frame_stack) \in Nat
  BY DEF FramesTypeOK
<1>4. (IF delegate THEN Last(frame_stack).caller ELSE caller) \in Addresses
  BY <1>1 DEF CallFrame
<1>5. (IF delegate THEN Last(frame_stack).value ELSE value) \in Nat
  BY <1>1 DEF CallFrame
<1>6. (IF rows = <<>> THEN 0 ELSE Last(rows).pc + 1) \in Nat
  BY <1>2 DEF EvmRow
<1>7. (op = "STATICCALL" \/ (nested /\ Last(frame_stack).is_static)) \in BOOLEAN
  BY <1>1 DEF CallFrame
<1>8. Pushed(op, target, caller, value, rows) \in CallFrame
  BY <1>3, <1>4, <1>5, <1>6, <1>7 DEF CallFrame, Pushed
<1> QED BY <1>8 DEF call, Pushed

(* The frames on both sides after a call is entered *)
LEMMA MirrorPush ==
  ASSUME NEW e \in Seq(EvmFrame), NEW x \in EvmFrame, NEW f \in CallFrame,
         FramesTypeOK, Len(frame_stack) = Len(e),
         \A i \in 1 .. Len(e) : /\ frame_stack[i].depth = i - 1
                                /\ frame_stack[i].callee = e[i].self
                                /\ frame_stack[i].is_static = e[i].static,
         f.depth = Len(frame_stack), f.callee = x.self, f.is_static = x.static,
         evm' = Append(e, x), frame_stack' = Append(frame_stack, f)
  PROVE  /\ Mirror' /\ evm' \in Seq(EvmFrame) /\ frame_stack' \in Seq(CallFrame)
         /\ evm' # <<>> /\ Last(evm') = x /\ Last(frame_stack') = f
<1>1. frame_stack \in Seq(CallFrame) /\ Len(e) \in Nat
  BY DEF FramesTypeOK
<1>2. /\ evm' \in Seq(EvmFrame) /\ evm' # <<>> /\ Len(evm') = Len(e) + 1
      /\ \A i \in 1 .. Len(e) : evm'[i] = e[i]
      /\ evm'[Len(e) + 1] = x /\ Last(evm') = x
  BY StackPush
<1>3. /\ frame_stack' \in Seq(CallFrame) /\ Len(frame_stack') = Len(e) + 1
      /\ \A i \in 1 .. Len(e) : frame_stack'[i] = frame_stack[i]
      /\ frame_stack'[Len(e) + 1] = f /\ Last(frame_stack') = f
  BY <1>1, StackPush
<1>4. ASSUME NEW i \in 1 .. Len(e) + 1
      PROVE  /\ frame_stack'[i].depth = i - 1
             /\ frame_stack'[i].callee = evm'[i].self
             /\ frame_stack'[i].is_static = evm'[i].static
  <2>1. CASE i \in 1 .. Len(e)
    BY <1>2, <1>3, <2>1
  <2>2. CASE i = Len(e) + 1
    BY <1>1, <1>2, <1>3, <2>2
  <2> QED BY <1>1, <2>1, <2>2
<1> QED BY <1>2, <1>3, <1>4 DEF Mirror

LEMMA BeginTxStep ==
  ASSUME FramesInv, NEW to \in Contracts \union {Created}, NEW value \in TxValues,
         BeginTx(to, value)
  PROVE  FramesInv'
<1> USE DEF BeginTx
<1>1. /\ FramesTypeOK /\ Mirror /\ evm = <<>> /\ txs \in Nat /\ value \in Nat
      /\ to \in Addresses /\ Sender \in Addresses
  BY FramesAssumption DEF FramesInv, FramesTypeOK, InTx, Addresses
<1>2. frame_stack = <<>> /\ frame_stack \in Seq(CallFrame)
  <2>1. frame_stack \in Seq(CallFrame) /\ Len(frame_stack) = 0
    BY <1>1 DEF Mirror, FramesTypeOK
  <2> QED BY <2>1, EmptySeq
<1>3. \E op \in {"CALL", "CREATE"} : frame_stack' = call(op, to, Sender, value, <<>>)
  BY DEF create
<1>4. PICK op \in {"CALL", "CREATE"} : frame_stack' = call(op, to, Sender, value, <<>>)
  BY <1>3
<1> DEFINE f == Pushed(op, to, Sender, value, <<>>)
<1>5. f \in CallFrame /\ frame_stack' = Append(frame_stack, f)
  <2>1. <<>> \in Seq(EvmRow)
    OBVIOUS
  <2> QED BY <1>1, <1>4, <2>1, CallPushes
<1>6. f.depth = Len(frame_stack) /\ f.callee = to /\ f.is_static = FALSE
  BY <1>2 DEF Pushed
<1> HIDE DEF f
<1> DEFINE x == Entered(to, FALSE)
<1>7. x \in EvmFrame /\ x.self = to /\ x.static = FALSE /\ x.pc = 0
  BY <1>1 DEF Entered, EvmFrame
<1>8. evm' = Append(<<>>, x) /\ evm' = <<x>>
  OBVIOUS
<1> HIDE DEF x
<1>9. /\ Mirror' /\ evm' \in Seq(EvmFrame) /\ frame_stack' \in Seq(CallFrame)
      /\ evm' # <<>> /\ Last(evm') = x /\ Last(frame_stack') = f
  <2>1. <<>> \in Seq(EvmFrame) /\ Len(<<>>) = 0 /\ Len(frame_stack) = 0
    BY <1>2
  <2>2. f.depth = Len(frame_stack) /\ f.callee = x.self /\ f.is_static = x.static
    BY <1>6, <1>7
  <2>3. \A i \in 1 .. Len(<<>>) : /\ frame_stack[i].depth = i - 1
                                    /\ frame_stack[i].callee = <<>>[i].self
                                    /\ frame_stack[i].is_static = <<>>[i].static
    BY <2>1
  <2>4. Len(frame_stack) = Len(<<>>) /\ frame_stack' = Append(frame_stack, f)
    BY <1>5, <2>1
  <2> QED BY <1>1, <1>5, <1>7, <1>8, <2>1, <2>2, <2>3, <2>4, MirrorPush, Zenon
<1>10. FramesTypeOK'
  <2>1. trace' \in Seq(EvmRow) /\ merged' \in Seq(EvmRow) /\ txs' \in Nat
    BY <1>1 DEF FramesTypeOK
  <2> QED BY <1>9, <2>1 DEF FramesTypeOK
<1>11. trace' = <<>> /\ Fits(trace)'
  BY DEF Fits
<1>12. merged # <<>> => EndsTx(Last(merged)) /\ Last(merged).tx <= txs
  BY DEF FramesInv
<1>13. merged # <<>> => Last(merged).tx \in Nat
  BY <1>1, LastTx DEF FramesTypeOK
<1>14. Running'
  <2>1. Len(evm') = 1 /\ evm'[1] = x
    <3> HIDE DEF BeginTx
    <3> QED BY <1>8
  <2>2. merged' # <<>> => Last(merged').tx < txs'
    BY <1>1, <1>12, <1>13
  <2> QED BY <1>7, <1>11, <2>1, <2>2 DEF Running
<1>15. (merged # <<>> => EndsTx(Last(merged)) /\ Last(merged).tx <= txs)'
  BY <1>1, <1>12, <1>13
<1>16. Fits(merged)'
  BY DEF FramesInv
<1> QED BY <1>9, <1>10, <1>11, <1>14, <1>15, <1>16 DEF FramesInv

LEMMA EmptyTxStep ==
  ASSUME FramesInv, EmptyTx
  PROVE  FramesInv'
<1> USE DEF EmptyTx
<1>1. FramesTypeOK /\ Mirror /\ evm = <<>> /\ txs \in Nat /\ Sender \in Addresses
  BY DEF FramesInv, FramesTypeOK, InTx, Addresses
<1>2. frame_stack' = frame_stack
  <2>1. CASE UNCHANGED frame_stack
    BY <2>1
  <2>2. ASSUME NEW to \in NoCode, NEW value \in TxValues,
               frame_stack' = call_end(call("CALL", to, Sender, value, <<>>))
        PROVE  frame_stack' = frame_stack
    <3>1. to \in Addresses /\ value \in Nat /\ <<>> \in Seq(EvmRow)
      BY FramesAssumption DEF Addresses
    <3> DEFINE f == Pushed("CALL", to, Sender, value, <<>>)
    <3>2. f \in CallFrame /\ call("CALL", to, Sender, value, <<>>) = Append(frame_stack, f)
      BY <1>1, <3>1, CallPushes
    <3> HIDE DEF f
    <3> QED BY <1>1, <2>2, <3>2, StackPush DEF FramesTypeOK
  <2> QED BY <2>1, <2>2
<1>3. FramesTypeOK'
  BY <1>1, <1>2 DEF FramesTypeOK
<1>4. Mirror'
  BY <1>1, <1>2 DEF Mirror
<1>5. trace' = <<>> /\ Fits(trace)' /\ Running'
  BY <1>1 DEF Fits, Running, InTx
<1>6. merged # <<>> => EndsTx(Last(merged)) /\ Last(merged).tx <= txs
  BY DEF FramesInv
<1>7. merged # <<>> => Last(merged).tx \in Nat
  BY <1>1, LastTx DEF FramesTypeOK
<1>8. (merged # <<>> => EndsTx(Last(merged)) /\ Last(merged).tx <= txs)'
  BY <1>1, <1>6, <1>7
<1>9. Fits(merged)'
  BY DEF FramesInv
<1> QED BY <1>3, <1>4, <1>5, <1>8, <1>9 DEF FramesInv

(* The callee of a call-family instruction *)
Callee(op, address) == IF op \in CreateOps THEN Created ELSE TargetAddress(op, address)

HookKind(op) == IF op \in CreateOps THEN "CREATE" ELSE op

(* The frames after the hook of a call-family instruction of row r *)
LEMMA HookPushes ==
  ASSUME FramesTypeOK, Mirror, InTx,
         NEW op \in Opcodes, NEW address \in Addresses, NEW value \in CallValues,
         NEW rows \in Seq(EvmRow)
  PROVE  LET f == Pushed(HookKind(op), Callee(op, address), Last(evm).self, value, rows)
         IN  /\ f \in CallFrame
             /\ Hooked(op, address, value, rows) = Append(frame_stack, f)
             /\ call_end(Hooked(op, address, value, rows)) = frame_stack
             /\ Callee(op, address) \in Addresses
<1> DEFINE f == Pushed(HookKind(op), Callee(op, address), Last(evm).self, value, rows)
<1>1. Last(evm).self \in Addresses /\ Created \in Addresses /\ value \in Nat
  BY TopFrames, FramesAssumption DEF EvmFrame, Addresses
<1>2. Callee(op, address) \in Addresses
  BY <1>1 DEF Callee, TargetAddress
<1>3. Hooked(op, address, value, rows)
        = call(HookKind(op), Callee(op, address), Last(evm).self, value, rows)
  BY DEF Hooked, create, HookKind, Callee
<1>4. f \in CallFrame /\ Hooked(op, address, value, rows) = Append(frame_stack, f)
  BY <1>1, <1>2, <1>3, CallPushes
<1> HIDE DEF f
<1>5. call_end(Append(frame_stack, f)) = frame_stack
  BY <1>4, StackPush DEF FramesTypeOK
<1> QED BY <1>2, <1>4, <1>5 DEF f

(* A call that enters a frame fits unless the columns cannot express it. *)
LEMMA EnterFits ==
  ASSUME NEW r \in EvmRow, NEW f \in CallFrame, NEW op \in PushOps, NEW address \in Addresses,
         r.opcode = op, r.effect = "enter", r.sel = op,
         op \in CallOps => r.input1 = address,
         op \in CreateOps => r.hint = Created,
         f.depth = r.frame.depth + 1,
         f.callee = IF op \in CreateOps THEN Created
                    ELSE IF op \in {"CALLCODE", "DELEGATECALL"} THEN r.frame.callee
                    ELSE address,
         f.caller = IF op = "DELEGATECALL" THEN r.frame.caller ELSE r.frame.callee,
         op = "DELEGATECALL" => f.value = r.frame.value,
         f.return_pc = r.pc + 1,
         f.is_static = (op = "STATICCALL" \/ r.frame.is_static)
  PROVE  FitsAt(r, 0, f, r.tx)
<1>1. r.sel \in PushOps /\ r.sel \in FrameOps /\ r.sel \notin {"call_return", "revert"}
  BY DEF FrameOps, PushOps, CallOps, CreateOps
<1>2. CASE op \in CreateOps
  <2>1. ~Inexpressible(r)
    BY <1>2 DEF Inexpressible, CreateOps
  <2>2. op # "DELEGATECALL" /\ op # "STATICCALL"
    BY <1>2 DEF CreateOps
  <2> QED BY <1>1, <1>2, <2>1, <2>2 DEF FitsAt, Unpopped
<1>3. CASE op \in CallOps
  <2>1. op \notin CreateOps
    BY <1>3 DEF CallOps, CreateOps
  <2>2. CASE op \in {"CALLCODE", "DELEGATECALL"}
    <3>1. Inexpressible(r) <=> r.input1 # r.frame.callee
      BY <2>2 DEF Inexpressible
    <3> QED BY <1>1, <1>3, <2>1, <2>2, <3>1 DEF FitsAt, Unpopped
  <2>3. CASE op \notin {"CALLCODE", "DELEGATECALL"}
    <3>1. ~Inexpressible(r)
      BY <2>3 DEF Inexpressible
    <3> QED BY <1>1, <1>3, <2>1, <2>3, <3>1 DEF FitsAt, Unpopped
  <2> QED BY <2>2, <2>3
<1> QED BY <1>2, <1>3 DEF PushOps

LEMMA EnterFrameStep ==
  ASSUME FramesInv, NEW op \in Opcodes, NEW address \in Addresses, NEW value \in CallValues,
         EnterFrame(op, address, value)
  PROVE  FramesInv'
<1>1. FramesTypeOK /\ Mirror /\ InTx /\ op \in PushOps /\ op \in AnyOp
  BY FramesAssumption DEF FramesInv, EnterFrame, AnyOp
<1> DEFINE r == row(op, address, "enter")
<1>2. /\ r \in EvmRow /\ r.opcode = op /\ r.effect = "enter" /\ r.tx = txs
      /\ r.pc = Last(evm).pc /\ r.frame = Last(frame_stack)
      /\ r.sel = selector(op, Len(evm) - 1)
      /\ op \in CallOps => r.input1 = address
      /\ op \in CreateOps => r.hint = Created
  BY <1>1, RowFacts DEF Effects
<1>3. trace' = Append(trace, r) /\ UNCHANGED <<merged, txs>>
  BY DEF EnterFrame
<1> HIDE DEF r
<1>4. /\ trace' \in Seq(EvmRow) /\ trace' # <<>> /\ Last(trace') = r /\ Fits(trace')
      /\ trace'[1].pc = 0 /\ trace'[1].frame.depth = 0 /\ trace'[1].tx = txs
  BY <1>1, <1>2, <1>3, TraceGrows
<1> DEFINE f == Pushed(HookKind(op), Callee(op, address), Last(evm).self, value, trace')
<1>5. f \in CallFrame /\ frame_stack' = Append(frame_stack, f) /\ Callee(op, address) \in Addresses
  BY <1>1, <1>4, HookPushes DEF EnterFrame
<1>6. /\ Len(evm) \in Nat \ {0} /\ frame_stack # <<>> /\ Last(evm) \in EvmFrame
      /\ Last(frame_stack).depth = Len(evm) - 1
      /\ Last(frame_stack).callee = Last(evm).self
      /\ Last(frame_stack).is_static = Last(evm).static
      /\ Len(frame_stack) = Len(evm)
  BY <1>1, TopFrames DEF Mirror
<1>7. r.sel = op
  BY <1>1, <1>2, <1>6, Selectors
<1>8. /\ f.depth = Len(frame_stack) /\ f.callee = Callee(op, address)
      /\ f.caller = IF op = "DELEGATECALL" THEN Last(frame_stack).caller ELSE Last(evm).self
      /\ op = "DELEGATECALL" => f.value = Last(frame_stack).value
      /\ f.return_pc = Last(evm).pc + 1
      /\ f.is_static = (op = "STATICCALL" \/ Last(frame_stack).is_static)
  <2>1. (HookKind(op) = "DELEGATECALL" <=> op = "DELEGATECALL")
          /\ (HookKind(op) = "STATICCALL" <=> op = "STATICCALL")
    BY DEF HookKind, CreateOps
  <2> QED BY <1>2, <1>4, <1>6, <2>1 DEF Pushed
<1> HIDE DEF f
<1>9. FitsAt(r, 0, f, txs)
  <2>1. f.callee = IF op \in CreateOps THEN Created
                   ELSE IF op \in {"CALLCODE", "DELEGATECALL"} THEN r.frame.callee
                   ELSE address
    BY <1>2, <1>6, <1>8 DEF Callee, TargetAddress
  <2>2. f.depth = r.frame.depth + 1
    BY <1>2, <1>6, <1>8
  <2>3. /\ f.caller = IF op = "DELEGATECALL" THEN r.frame.caller ELSE r.frame.callee
        /\ op = "DELEGATECALL" => f.value = r.frame.value
        /\ f.return_pc = r.pc + 1
        /\ f.is_static = (op = "STATICCALL" \/ r.frame.is_static)
    BY <1>2, <1>6, <1>8
  <2>4. FitsAt(r, 0, f, r.tx)
    BY <1>1, <1>2, <1>5, <1>7, <2>1, <2>2, <2>3, EnterFits
  <2> QED BY <1>2, <2>4
<1> DEFINE x == Entered(Callee(op, address), Last(evm).static \/ op = "STATICCALL")
<1>10. /\ x \in EvmFrame /\ x.self = Callee(op, address) /\ x.pc = 0
       /\ x.static = (Last(evm).static \/ op = "STATICCALL")
  BY <1>5, <1>6 DEF Entered, EvmFrame
<1>11. evm' = Append(Advanced, x)
  BY DEF EnterFrame, Callee
<1> HIDE DEF x
<1>12. /\ Mirror' /\ evm' \in Seq(EvmFrame) /\ frame_stack' \in Seq(CallFrame)
       /\ evm' # <<>> /\ Last(evm') = x /\ Last(frame_stack') = f
  <2> DEFINE e == Advanced
  <2>1. /\ e \in Seq(EvmFrame) /\ Len(e) = Len(evm)
        /\ \A i \in 1 .. Len(evm) : e[i].self = evm[i].self /\ e[i].static = evm[i].static
    BY <1>1, AdvancedFacts
  <2> HIDE DEF e
  <2>2. Len(frame_stack) = Len(e)
    BY <1>6, <2>1
  <2>3. \A i \in 1 .. Len(e) : /\ frame_stack[i].depth = i - 1
                               /\ frame_stack[i].callee = e[i].self
                               /\ frame_stack[i].is_static = e[i].static
    BY <1>1, <2>1 DEF Mirror
  <2>4. f.depth = Len(frame_stack) /\ f.callee = x.self
    BY <1>8, <1>10
  <2>5. f.is_static = x.static
    BY <1>6, <1>8, <1>10, Zenon
  <2>6. evm' = Append(e, x)
    BY <1>11 DEF e
  <2> QED BY <1>1, <1>5, <1>10, <2>1, <2>2, <2>3, <2>4, <2>5, <2>6, MirrorPush, Zenon
<1>13. FramesTypeOK'
  BY <1>1, <1>3, <1>4, <1>12 DEF FramesTypeOK
<1>14. Running'
  BY <1>1, <1>3, <1>4, <1>9, <1>10, <1>12, MergedKept DEF Running
<1> QED BY <1>3, <1>4, <1>12, <1>13, <1>14, MergedKept DEF FramesInv

LEMMA AnswerCallStep ==
  ASSUME FramesInv, NEW op \in Opcodes, NEW address \in Addresses, NEW value \in CallValues,
         AnswerCall(op, address, value)
  PROVE  FramesInv'
<1>1. FramesTypeOK /\ Mirror /\ InTx /\ op \in PushOps /\ op \in AnyOp
  BY FramesAssumption DEF FramesInv, AnswerCall, AnyOp
<1> DEFINE r == row(op, address, "answered")
<1>2. /\ r \in EvmRow /\ r.opcode = op /\ r.effect = "answered" /\ r.tx = txs
      /\ r.pc = Last(evm).pc /\ r.frame = Last(frame_stack)
      /\ r.sel = selector(op, Len(evm) - 1)
  BY <1>1, RowFacts DEF Effects
<1>3. trace' = Append(trace, r) /\ UNCHANGED <<merged, txs>> /\ evm' = Advanced
  BY DEF AnswerCall
<1> HIDE DEF r
<1>4. /\ trace' \in Seq(EvmRow) /\ trace' # <<>> /\ Last(trace') = r /\ Fits(trace')
      /\ trace'[1].pc = 0 /\ trace'[1].frame.depth = 0 /\ trace'[1].tx = txs
  BY <1>1, <1>2, <1>3, TraceGrows
<1>5. frame_stack' = frame_stack
  BY <1>1, <1>4, HookPushes DEF AnswerCall
<1>6. r.sel = op
  BY <1>1, <1>2, TopFrames, Selectors
<1>7. FitsAt(r, Last(evm).pc + 1, Last(frame_stack), txs)
  <2>1. Inexpressible(r) /\ r.sel \in PushOps
    BY <1>1, <1>2, <1>6 DEF Inexpressible
  <2>2. Last(frame_stack).depth # r.frame.depth + 1
    BY <1>1, <1>2, TopFrames DEF CallFrame
  <2> QED BY <2>1, <2>2 DEF FitsAt
<1>8. /\ evm' \in Seq(EvmFrame) /\ Len(evm') = Len(evm) /\ evm' # <<>>
      /\ \A i \in 1 .. Len(evm) : evm'[i].self = evm[i].self /\ evm'[i].static = evm[i].static
      /\ Last(evm').pc = Last(evm).pc + 1
  BY <1>1, <1>3, AdvancedFacts
<1>9. FramesTypeOK'
  BY <1>1, <1>3, <1>4, <1>5, <1>8 DEF FramesTypeOK
<1>10. Mirror'
  BY <1>1, <1>5, <1>8 DEF Mirror
<1>11. Running'
  BY <1>1, <1>3, <1>4, <1>5, <1>7, <1>8, MergedKept DEF Running
<1> QED BY <1>3, <1>4, <1>9, <1>10, <1>11, MergedKept DEF FramesInv

(* The end of a frame by the instruction of row r: a row of a callee fits  *)
(* its caller's frame iff its selector pops the callee.                    *)
LEMMA LeaveStep ==
  ASSUME FramesInv, InTx, NEW r \in EvmRow, Leave(r),
         r.pc = Last(evm).pc, r.next_pc = r.pc + 1,
         r.frame = Last(frame_stack), r.tx = txs,
         r.sel = selector(r.opcode, Len(evm) - 1),
         \/ r.opcode \in EndOps \union {"OP", "INVALID"} /\ r.effect \in {"leave", "halt"}
         \/ r.opcode \in PushOps /\ r.effect = "halt"
  PROVE  FramesInv'
<1>1. FramesTypeOK /\ Mirror /\ Fits(merged)
  BY DEF FramesInv
<1>2. /\ trace' = Append(trace, r) /\ frame_stack' = call_end(frame_stack)
      /\ evm' = Front(evm) /\ txs' = txs
      /\ merged' = IF Len(evm) = 1 THEN merged \o trace' ELSE merged
  BY DEF Leave
<1>3. /\ trace' \in Seq(EvmRow) /\ trace' # <<>> /\ Last(trace') = r /\ Fits(trace')
      /\ trace'[1].pc = 0 /\ trace'[1].frame.depth = 0 /\ trace'[1].tx = txs
  BY <1>2, TraceGrows
<1>4. /\ Len(evm) \in Nat \ {0} /\ frame_stack # <<>>
      /\ Last(frame_stack).depth = Len(evm) - 1
      /\ Len(frame_stack) = Len(evm)
  BY <1>1, TopFrames DEF Mirror
<1> DEFINE n == Len(evm) - 1
<1>5. n \in Nat /\ Len(evm) = n + 1 /\ r.frame.depth = n /\ r.sel = selector(r.opcode, n)
  BY <1>4
<1>6. /\ evm' \in Seq(EvmFrame) /\ Len(evm') = n
      /\ \A i \in 1 .. n : evm'[i] = evm[i]
  BY <1>1, <1>2, StackPop DEF FramesTypeOK, InTx
<1>7. /\ frame_stack' \in Seq(CallFrame) /\ Len(frame_stack') = n
      /\ \A i \in 1 .. n : frame_stack'[i] = frame_stack[i]
  BY <1>1, <1>2, <1>4, StackPop DEF FramesTypeOK, call_end
<1>8. Mirror'
  <2>1. \A i \in 1 .. n : i \in 1 .. Len(evm)
    BY <1>4
  <2> HIDE DEF n
  <2> QED BY <1>1, <1>6, <1>7, <2>1 DEF Mirror
<1>9. merged' \in Seq(EvmRow)
  BY <1>1, <1>2, <1>3, ConcatProperties DEF FramesTypeOK
<1>10. FramesTypeOK'
  BY <1>1, <1>2, <1>3, <1>6, <1>7, <1>9 DEF FramesTypeOK
<1> HIDE DEF n
<1>11. CASE n # 0
  <2>1. UNCHANGED <<merged, txs>>
    BY <1>2, <1>4, <1>11 DEF n
  <2>2. evm' # <<>> /\ frame_stack' # <<>> /\ n \in 1 .. n
    BY <1>5, <1>6, <1>7, <1>11
  <2>3. Last(frame_stack') = frame_stack'[n] /\ Last(frame_stack').depth = n - 1
    BY <1>6, <1>7, <1>8, <2>2 DEF Mirror, Last
  <2>4. FitsAt(r, Last(evm').pc, Last(frame_stack'), txs)
    <3>1. CASE r.opcode \in {"STOP", "RETURN", "REVERT"}
      <4>1. r.sel \in PopSelectors
        BY <1>5, <1>11, <3>1, Selectors DEF PopSelectors
      <4>2. ~Inexpressible(r) /\ ~Unpopped(r)
        BY <3>1 DEF Inexpressible, Unpopped, PushOps, CallOps, CreateOps
      <4>3. r.sel \in FrameOps /\ r.sel \notin PushOps
        BY <4>1 DEF FrameOps, PopSelectors, PushOps, CallOps, CreateOps
      <4>4. Last(frame_stack').depth + 1 = r.frame.depth
        BY <1>5, <2>3
      <4> QED BY <4>2, <4>3, <4>4 DEF FitsAt
    <3>2. CASE r.opcode \in PushOps /\ r.effect = "halt"
      <4>1. r.sel \in PushOps
        BY <1>5, <3>2, Selectors
      <4>2. Last(frame_stack').depth # r.frame.depth + 1
        BY <1>5, <2>3
      <4>3. Inexpressible(r)
        BY <3>2 DEF Inexpressible
      <4> QED BY <4>1, <4>2, <4>3 DEF FitsAt
    <3>3. CASE /\ r.opcode \in {"OP", "INVALID", "SELFDESTRUCT"}
               /\ r.effect \in {"leave", "halt"}
      <4>1. r.sel \in {"other", "stop"}
        BY <1>5, <3>3, Selectors
      <4>2. r.sel \notin FrameOps
        BY <4>1 DEF FrameOps, PopSelectors, PushOps, CallOps, CreateOps
      <4>3. Last(frame_stack') # r.frame
        BY <1>5, <2>3
      <4>4. Unpopped(r)
        BY <3>3 DEF Unpopped
      <4> QED BY <4>2, <4>3, <4>4 DEF FitsAt
    <3> QED BY <3>1, <3>2, <3>3 DEF EndOps
  <2>5. Running'
    BY <1>2, <1>3, <2>1, <2>4, MergedKept DEF Running
  <2> QED BY <1>3, <1>8, <1>10, <2>1, <2>5, MergedKept DEF FramesInv
<1>12. CASE n = 0
  <2>1. merged' = merged \o trace' /\ ~InTx'
    <3>1. Len(evm) = 1
      BY <1>5, <1>12
    <3>2. evm' = <<>>
      BY <1>6, <1>12, EmptySeq
    <3> QED BY <1>2, <3>1, <3>2 DEF InTx
  <2>2. EndsTx(r)
    <3>1. r.sel \notin PopSelectors
      <4>1. r.sel \in PushOps \union {"call", "stop", "other"}
        BY <1>5, <1>12, Selectors DEF EndOps
      <4> QED BY <4>1 DEF PopSelectors, PushOps, CallOps, CreateOps
    <3>2. r.next_pc # 0
      BY DEF EvmRow
    <3> QED BY <1>5, <1>12, <3>1, <3>2 DEF EndsTx
  <2>3. merged # <<>> => FitsAt(Last(merged), trace'[1].pc, trace'[1].frame, trace'[1].tx)
    <3> SUFFICES ASSUME merged # <<>>
                 PROVE  FitsAt(Last(merged), trace'[1].pc, trace'[1].frame, trace'[1].tx)
      OBVIOUS
    <3>1. EndsTx(Last(merged)) /\ Last(merged).tx < txs /\ txs \in Nat
      BY DEF FramesInv, Running, FramesTypeOK
    <3>2. Last(merged) \in EvmRow
      BY <1>1, LastTx DEF FramesTypeOK
    <3>3. FitsAt(Last(merged), 0, trace'[1].frame, txs)
      BY <1>3, <3>1, <3>2, SeamFits
    <3> QED BY <1>3, <3>3
  <2>4. Fits(merged')
    BY <1>1, <1>3, <2>1, <2>3, FitsConcat DEF FramesTypeOK
  <2>5. merged' # <<>> /\ Last(merged') = r
    <3> DEFINE s == merged
               t == trace'
               u == merged'
    <3>1. /\ Len(u) = Len(s) + Len(t) /\ Len(s) \in Nat /\ Len(t) \in Nat \ {0}
          /\ \A i \in 1 .. Len(s) + Len(t) : u[i] = IF i <= Len(s) THEN s[i] ELSE t[i - Len(s)]
      BY <1>1, <1>3, <2>1, ConcatProperties, EmptySeq DEF FramesTypeOK
    <3>2. t[Len(t)] = r
      BY <1>3 DEF Last
    <3> HIDE DEF s, t, u
    <3>3. Len(u) \in 1 .. Len(s) + Len(t) /\ ~(Len(u) <= Len(s)) /\ Len(u) - Len(s) = Len(t)
      BY <3>1
    <3>4. u[Len(u)] = r
      BY <3>1, <3>2, <3>3
    <3>5. u # <<>>
      BY <3>3
    <3> QED BY <3>4, <3>5 DEF u, Last
  <2>6. Running'
    BY <2>1 DEF Running
  <2>7. (Last(merged).tx <= txs)'
    BY <1>1, <1>2, <2>5 DEF FramesTypeOK
  <2>8. EndsTx(Last(merged))'
    BY <2>2, <2>5
  <2> QED BY <1>3, <1>8, <1>10, <2>4, <2>6, <2>7, <2>8 DEF FramesInv
<1> QED BY <1>11, <1>12

LEMMA EndFrameStep ==
  ASSUME FramesInv, NEW op \in EndOps, EndFrame(op)
  PROVE  FramesInv'
<1>1. FramesTypeOK /\ Mirror /\ InTx /\ op \in AnyOp
  BY DEF FramesInv, EndFrame, AnyOp
<1> DEFINE r == row(op, 0, "leave")
<1>2. /\ r \in EvmRow /\ r.opcode = op /\ r.effect = "leave" /\ r.tx = txs
      /\ r.pc = Last(evm).pc /\ r.next_pc = Last(evm).pc + 1
      /\ r.frame = Last(frame_stack) /\ r.sel = selector(op, Len(evm) - 1)
  BY <1>1, RowFacts DEF Effects
<1>3. Leave(r)
  BY DEF EndFrame
<1> HIDE DEF r
<1> QED BY <1>1, <1>2, <1>3, LeaveStep

LEMMA HaltStep ==
  ASSUME FramesInv, NEW op \in HaltOps, Halt(op, 0)
  PROVE  FramesInv'
<1>1. /\ FramesTypeOK /\ Mirror /\ InTx /\ op \in AnyOp
      /\ op \in PushOps \union EndOps \union {"OP", "INVALID"}
  BY FramesAssumption DEF FramesInv, Halt, HaltOps, AnyOp
<1> DEFINE r == row(op, 0, "halt")
<1>2. /\ r \in EvmRow /\ r.opcode = op /\ r.effect = "halt" /\ r.tx = txs
      /\ r.pc = Last(evm).pc /\ r.next_pc = Last(evm).pc + 1
      /\ r.frame = Last(frame_stack) /\ r.sel = selector(op, Len(evm) - 1)
  BY <1>1, RowFacts DEF Effects
<1>3. Leave(r)
  BY DEF Halt
<1> HIDE DEF r
<1> QED BY <1>1, <1>2, <1>3, LeaveStep

LEMMA FramesInitial == FramesInit => FramesInv
BY DEF FramesInit, FramesInv, FramesTypeOK, Mirror, Fits, Running, InTx

LEMMA FramesStutter ==
  ASSUME FramesInv, UNCHANGED frameVars
  PROVE  FramesInv'
BY DEF FramesInv, FramesTypeOK, Mirror, Fits, Running, InTx, frameVars

(* Through every nesting of calls, creations, reverts and exceptional      *)
(* halts the inspector's frame stack mirrors the interpreter's, and the    *)
(* next row is the one a row's selector asks for, exactly unless the row   *)
(* is a call the columns cannot express, an end without a pop or a seam.   *)
THEOREM FramesInvIsInvariant == FramesSpec => []FramesInv
<1>1. FramesInv /\ [FramesNext]_frameVars => FramesInv'
  BY BeginTxStep, EmptyTxStep, InstructionStep, EnterFrameStep, AnswerCallStep,
     EndFrameStep, HaltStep, FramesStutter
     DEF FramesNext, ReplayDone
<1> QED BY <1>1, FramesInitial, PTL DEF FramesSpec

(* For all programs, depths and blocks: two neighbouring rows satisfy the  *)
(* frame and PC constraints unless, and only unless, the first is a call   *)
(* the columns cannot express, ends a callee by SELFDESTRUCT or by an      *)
(* exceptional halt that no selector pops, or ends its transaction.        *)
THEOREM RowsBreakExactly == FramesSpec => []RowsBreakExactlyAtUntracedFrames
<1>1. FramesInv => RowsBreakExactlyAtUntracedFrames
  BY FitsIsClaim DEF FramesInv
<1> QED BY <1>1, FramesInvIsInvariant, PTL

----------------------------------------------------------------------------
(* The frame-stack permutation, counted row by row *)

Quiet(rows) ==
  \A i \in 1 .. Len(rows) : ~Inexpressible(rows[i]) /\ ~Unpopped(rows[i])

(* The rows that push away frame f, and those that return to it; the last  *)
(* row returns to top.                                                     *)
PushesOf(rows, f) ==
  {i \in 1 .. Len(rows) : rows[i].sel \in PushOps /\ rows[i].frame = f}
PopsTo(rows, top, f) ==
  {i \in 1 .. Len(rows) :
     /\ rows[i].sel \in PopSelectors
     /\ (IF i < Len(rows) THEN rows[i + 1].frame ELSE top) = f}

(* The places of f below the running frame *)
OpenBelow(frames, f) == {k \in 1 .. Len(frames) - 1 : frames[k] = f}

(* A frame has been pushed away as often as it has been returned to and is *)
(* still waiting.                                                          *)
Balanced(rows, frames) ==
  \A f : Cardinality(PushesOf(rows, f))
           = Cardinality(PopsTo(rows, Last(frames), f))
               + Cardinality(OpenBelow(frames, f))

LEMMA CountOne ==
  ASSUME NEW n \in Nat, NEW S, S \subseteq 1 .. n, NEW x, x \notin S,
         NEW c \in BOOLEAN, NEW T, T = S \union (IF c THEN {x} ELSE {})
  PROVE  /\ Cardinality(S) \in Nat
         /\ Cardinality(T) = Cardinality(S) + (IF c THEN 1 ELSE 0)
<1>1. IsFiniteSet(1 .. n)
  BY FS_Interval
<1>2. IsFiniteSet(S) /\ Cardinality(S) \in Nat
  BY <1>1, FS_Subset, FS_CardinalityType
<1>3. CASE c
  <2>1. T = S \cup {x}
    BY <1>3
  <2> QED BY <1>2, <1>3, <2>1, FS_AddElement
<1>4. CASE ~c
  <2>1. T = S
    BY <1>4
  <2> QED BY <1>2, <1>4, <2>1
<1> QED BY <1>3, <1>4

(* A row of the running frame is traced, and top is the frame that runs    *)
(* after it.                                                               *)
LEMMA RowCounts ==
  ASSUME trace \in Seq(EvmRow), NEW r \in EvmRow, trace' = Append(trace, r), NEW f
  PROVE  /\ Cardinality(PushesOf(trace, f)) \in Nat
         /\ Cardinality(PopsTo(trace, r.frame, f)) \in Nat
         /\ Cardinality(PushesOf(trace', f)) = Cardinality(PushesOf(trace, f))
              + (IF r.sel \in PushOps /\ r.frame = f THEN 1 ELSE 0)
         /\ Cardinality(PopsTo(trace', Last(frame_stack'), f))
              = Cardinality(PopsTo(trace, r.frame, f))
                  + (IF r.sel \in PopSelectors /\ Last(frame_stack') = f THEN 1 ELSE 0)
<1> DEFINE rows == trace
           s == trace'
           top == Last(frame_stack')
           n == Len(rows)
<1>0. rows \in Seq(EvmRow) /\ s = Append(rows, r)
  OBVIOUS
<1> HIDE DEF rows, s, top
<1>1. /\ n \in Nat /\ Len(s) = n + 1
      /\ \A i \in 1 .. n : s[i] = rows[i]
      /\ s[n + 1] = r
  BY <1>0, AppendProperties
<1> DEFINE P == PushesOf(rows, f)
           Q == PopsTo(rows, r.frame, f)
           c == r.sel \in PushOps /\ r.frame = f
           d == r.sel \in PopSelectors /\ top = f
<1>2. P \subseteq 1 .. n /\ n + 1 \notin P
  BY <1>1 DEF PushesOf
<1>3. Q \subseteq 1 .. n /\ n + 1 \notin Q
  BY <1>1 DEF PopsTo
<1>4. PushesOf(s, f) = P \union (IF c THEN {n + 1} ELSE {})
  <2> HIDE DEF n
  <2>1. ASSUME NEW i
        PROVE  i \in PushesOf(s, f) <=> i \in P \union (IF c THEN {n + 1} ELSE {})
    <3>1. CASE i \in 1 .. n
      <4>1. i \in 1 .. Len(s) /\ i # n + 1 /\ s[i] = rows[i] /\ i \in 1 .. Len(rows)
        BY <1>1, <3>1 DEF n
      <4> QED BY <4>1 DEF PushesOf
    <3>2. CASE i = n + 1
      <4>1. i \in 1 .. Len(s) /\ i \notin 1 .. Len(rows) /\ s[i] = r
        BY <1>1, <3>2 DEF n
      <4> QED BY <3>2, <4>1 DEF PushesOf
    <3>3. CASE i \notin 1 .. n /\ i # n + 1
      <4>1. i \notin 1 .. Len(s) /\ i \notin 1 .. Len(rows)
        BY <1>1, <3>3 DEF n
      <4> QED BY <3>3, <4>1 DEF PushesOf
    <3> QED BY <3>1, <3>2, <3>3
  <2> HIDE DEF P, c
  <2> QED BY <2>1
<1>5. PopsTo(s, top, f) = Q \union (IF d THEN {n + 1} ELSE {})
  <2> HIDE DEF n
  <2>1. ASSUME NEW i
        PROVE  i \in PopsTo(s, top, f) <=> i \in Q \union (IF d THEN {n + 1} ELSE {})
    <3>1. CASE i \in 1 .. n
      <4>1. i \in 1 .. Len(s) /\ i # n + 1 /\ s[i] = rows[i] /\ i \in 1 .. Len(rows) /\ i < Len(s)
        BY <1>1, <3>1 DEF n
      <4>2. s[i + 1] = IF i < Len(rows) THEN rows[i + 1] ELSE r
        <5>1. CASE i < n
          BY <1>1, <3>1, <5>1 DEF n
        <5>2. CASE ~(i < n)
          <6>1. i = n
            BY <1>1, <3>1, <5>2
          <6> QED BY <1>1, <5>2, <6>1 DEF n
        <5> QED BY <5>1, <5>2
      <4>3. s[i + 1].frame = IF i < Len(rows) THEN rows[i + 1].frame ELSE r.frame
        BY <4>2
      <4> QED BY <4>1, <4>3 DEF PopsTo
    <3>2. CASE i = n + 1
      <4>1. i \in 1 .. Len(s) /\ i \notin 1 .. Len(rows) /\ s[i] = r /\ ~(i < Len(s))
        BY <1>1, <3>2 DEF n
      <4> QED BY <3>2, <4>1 DEF PopsTo
    <3>3. CASE i \notin 1 .. n /\ i # n + 1
      <4>1. i \notin 1 .. Len(s) /\ i \notin 1 .. Len(rows)
        BY <1>1, <3>3 DEF n
      <4> QED BY <3>3, <4>1 DEF PopsTo
    <3> QED BY <3>1, <3>2, <3>3
  <2> HIDE DEF Q, d
  <2> QED BY <2>1
<1> DEFINE A == PushesOf(s, f)
           B == PopsTo(s, top, f)
<1>6. c \in BOOLEAN /\ d \in BOOLEAN
  OBVIOUS
<1> HIDE DEF P, Q, c, d, A, B, n
<1>7. Cardinality(P) \in Nat /\ Cardinality(A) = Cardinality(P) + (IF c THEN 1 ELSE 0)
  BY <1>1, <1>2, <1>4, <1>6, CountOne DEF A
<1>8. Cardinality(Q) \in Nat /\ Cardinality(B) = Cardinality(Q) + (IF d THEN 1 ELSE 0)
  BY <1>1, <1>3, <1>5, <1>6, CountOne DEF B
<1> QED BY <1>7, <1>8 DEF P, Q, c, d, A, B, rows, s, top

(* t has one frame more on top than s. *)
LEMMA OpenCounts ==
  ASSUME NEW s \in Seq(CallFrame), NEW t \in Seq(CallFrame), Len(s) # 0, Len(t) = Len(s) + 1,
         \A i \in 1 .. Len(s) : t[i] = s[i], NEW f
  PROVE  /\ Cardinality(OpenBelow(s, f)) \in Nat
         /\ Cardinality(OpenBelow(t, f))
              = Cardinality(OpenBelow(s, f)) + (IF s[Len(s)] = f THEN 1 ELSE 0)
<1> DEFINE n == Len(s)
           S == OpenBelow(s, f)
           T == OpenBelow(t, f)
           c == s[n] = f
<1>1. n \in Nat \ {0} /\ Len(t) = n + 1
  OBVIOUS
<1>2. S \subseteq 1 .. n /\ n \notin S
  BY <1>1 DEF OpenBelow
<1>3. T = S \union (IF c THEN {n} ELSE {})
  <2>1. ASSUME NEW i PROVE i \in T <=> i \in S \union (IF c THEN {n} ELSE {})
    <3>1. CASE i \in 1 .. n - 1
      <4>1. i \in 1 .. Len(t) - 1 /\ i # n /\ t[i] = s[i] /\ i \in 1 .. Len(s) - 1
        BY <1>1, <3>1
      <4> QED BY <4>1 DEF OpenBelow
    <3>2. CASE i = n
      <4>1. i \in 1 .. Len(t) - 1 /\ i \notin 1 .. Len(s) - 1 /\ t[i] = s[i]
        BY <1>1, <3>2
      <4> QED BY <3>2, <4>1 DEF OpenBelow
    <3>3. CASE i \notin 1 .. n - 1 /\ i # n
      <4>1. i \notin 1 .. Len(t) - 1 /\ i \notin 1 .. Len(s) - 1
        BY <1>1, <3>3
      <4> QED BY <3>3, <4>1 DEF OpenBelow
    <3> QED BY <3>1, <3>2, <3>3
  <2> HIDE DEF S, T, c
  <2> QED BY <2>1
<1>4. c \in BOOLEAN
  OBVIOUS
<1> HIDE DEF S, T, c, n
<1>5. Cardinality(S) \in Nat /\ Cardinality(T) = Cardinality(S) + (IF c THEN 1 ELSE 0)
  BY <1>1, <1>2, <1>3, <1>4, CountOne
<1> QED BY <1>5 DEF S, T, c, n

----------------------------------------------------------------------------
(* The chunk of one transaction *)

(* The domain holds the rows. *)
LEMMA EvmDomainHolds ==
  ASSUME NEW n \in Nat
  PROVE  nearest_size(n) \in Nat /\ nearest_size(n) >= n
<1> DEFINE P(k) == MinEvmDomain * 2^k
           S == {P(k) : k \in 0 .. n}
           T == {s \in S : s >= n}
<1>1. ASSUME NEW k \in 0 .. n PROVE P(k) \in Nat
  <2>1. 2^k \in Nat
    BY PowerExceeds
  <2> QED BY <2>1, FramesAssumption
<1>2. P(n) >= n
  <2>1. 2^n \in Nat /\ n < 2^n
    BY PowerExceeds
  <2>2. ASSUME NEW m \in Nat \ {0}, NEW p \in Nat, n < p PROVE m * p >= n
    <3>1. m - 1 \in Nat /\ m * p = (m - 1) * p + p
      OBVIOUS
    <3>2. (m - 1) * p \in Nat
      BY <3>1
    <3> QED BY <2>2, <3>1, <3>2
  <2>3. MinEvmDomain \in Nat \ {0}
    BY FramesAssumption
  <2> QED BY <2>1, <2>2, <2>3
<1>3. T # {} /\ T \subseteq Nat
  BY <1>1, <1>2
<1>4. PICK s \in T : \A t \in T : s <= t
  <2> HIDE DEF T
  <2> QED BY <1>3, LeastNat
<1>5. s \in S /\ s >= n /\ \A k \in 0 .. n : P(k) >= n => s <= P(k)
  BY <1>4
<1>6. nearest_size(n) =
        CHOOSE size \in S : size >= n /\ \A k \in 0 .. n : P(k) >= n => size <= P(k)
  BY DEF nearest_size
<1>7. nearest_size(n) \in S /\ nearest_size(n) >= n
  <2> DEFINE Right(size) == size >= n /\ \A k \in 0 .. n : P(k) >= n => size <= P(k)
  <2>1. \E size \in S : Right(size)
    BY <1>5
  <2>2. nearest_size(n) = CHOOSE size \in S : Right(size)
    BY <1>6
  <2>3. nearest_size(n) \in S /\ Right(nearest_size(n))
    <3> HIDE DEF S, Right
    <3> QED BY <2>1, <2>2
  <2> QED BY <2>3
<1> QED BY <1>1, <1>7

(* The row that pads after an instruction that does not pop *)
LEMMA PaddingFacts ==
  ASSUME NEW rows \in Seq(EvmRow), rows # <<>>, Last(rows).sel \notin FrameOps
  PROVE  LET pad == EvmPaddingRow(rows) IN
         /\ pad.sel = "stop" /\ pad.pc = Last(rows).next_pc
         /\ pad.next_pc = Last(rows).next_pc /\ pad.frame = Last(rows).frame
<1> DEFINE last == Last(rows)
<1>1. last \in EvmRow
  BY StackTop
<1>2. last.sel \notin {"call_return", "revert"}
  BY DEF FrameOps, PopSelectors
<1> HIDE DEF last
<1>3. [last.frame EXCEPT !.depth = last.frame.depth] = last.frame
  BY <1>1 DEF EvmRow, CallFrame
<1>4. EvmPaddingRow(rows)
        = [last EXCEPT !.opcode = "STOP", !.sel = "stop", !.pc = last.next_pc,
                       !.frame = last.frame]
  BY <1>2, <1>3 DEF EvmPaddingRow, last
<1> QED BY <1>1, <1>4 DEF EvmRow, last

LEMMA ChunkFacts ==
  ASSUME NEW rows \in Seq(EvmRow), rows # <<>>
  PROVE  LET all == PaddedChunk(rows)  size == nearest_size(Len(rows)) IN
         /\ size \in Nat /\ Len(rows) \in 1 .. size
         /\ DOMAIN all = 1 .. size /\ Len(all) = size
         /\ \A i \in 1 .. Len(rows) : all[i] = rows[i]
         /\ \A i \in Len(rows) + 1 .. size : all[i] = EvmPaddingRow(rows)
<1> DEFINE n == Len(rows)
           size == nearest_size(n)
           all == PaddedChunk(rows)
           pad == EvmPaddingRow(rows)
<1>1. n \in Nat \ {0}
  BY EmptySeq
<1>2. size \in Nat /\ size >= n
  BY <1>1, EvmDomainHolds
<1>3. all = [i \in 1 .. size |-> IF i <= n THEN rows[i] ELSE pad]
  BY DEF PaddedChunk
<1> HIDE DEF n, size, all, pad
<1>4. DOMAIN all = 1 .. size
  BY <1>3
<1>5. Len(all) = size
  BY <1>2, <1>3
<1>6. \A i \in 1 .. n : all[i] = rows[i]
  BY <1>1, <1>2, <1>3
<1>7. \A i \in n + 1 .. size : all[i] = pad
  BY <1>1, <1>2, <1>3
<1> QED BY <1>1, <1>2, <1>4, <1>5, <1>6, <1>7 DEF n, size, all, pad

(* What the constraints ask holds wherever FitsAt says that it does. *)
LEMMA FitsShifted ==
  ASSUME NEW r, NEW s, FitsAt(r, s.pc, s.frame, s.tx),
         r.tx = s.tx, ~Inexpressible(r), ~Unpopped(r)
  PROVE  shifted_constraints(r, s)
BY DEF FitsAt, shifted_constraints, pc_continuity, push_frame, pop_frame, preserve_frame

LEMMA PreservedShifted ==
  ASSUME NEW r, NEW s, r.sel \notin FrameOps, s.pc = r.next_pc, s.frame = r.frame
  PROVE  shifted_constraints(r, s)
BY DEF shifted_constraints, pc_continuity, push_frame, pop_frame, preserve_frame,
       FrameOps, PopSelectors

(* The chunk of a plain transaction whose last row leaves no frame *)
LEMMA ChunkShifted ==
  ASSUME NEW rows \in Seq(EvmRow), rows # <<>>, Fits(rows), Plain(rows),
         Last(rows).sel \notin FrameOps,
         NEW tx, \A i \in 1 .. Len(rows) : rows[i].tx = tx
  PROVE  LET all == PaddedChunk(rows)
         IN \A i \in 1 .. Len(all) - 1 : shifted_constraints(all[i], all[i + 1])
<1> DEFINE n == Len(rows)
           size == nearest_size(n)
           all == PaddedChunk(rows)
           pad == EvmPaddingRow(rows)
<1>1. /\ size \in Nat /\ n \in 1 .. size /\ Len(all) = size /\ n \in Nat
      /\ \A i \in 1 .. n : all[i] = rows[i]
      /\ \A i \in n + 1 .. size : all[i] = pad
  BY ChunkFacts
<1>2. /\ pad.sel = "stop" /\ pad.pc = Last(rows).next_pc
      /\ pad.next_pc = Last(rows).next_pc /\ pad.frame = Last(rows).frame
  BY PaddingFacts
<1> HIDE DEF size, all, pad
<1>3. ASSUME NEW i \in 1 .. Len(all) - 1 PROVE shifted_constraints(all[i], all[i + 1])
  <2>1. CASE i < n
    <3>1. all[i] = rows[i] /\ all[i + 1] = rows[i + 1] /\ i \in 1 .. Len(rows) - 1
          /\ i \in 1 .. Len(rows) /\ i + 1 \in 1 .. Len(rows)
      BY <1>1, <2>1
    <3>2. FitsAt(rows[i], rows[i + 1].pc, rows[i + 1].frame, rows[i + 1].tx)
      BY <3>1 DEF Fits
    <3>3. rows[i].tx = rows[i + 1].tx /\ ~Inexpressible(rows[i]) /\ ~Unpopped(rows[i])
      BY <3>1 DEF Plain
    <3> QED BY <3>1, <3>2, <3>3, FitsShifted
  <2>2. CASE i = n
    <3>1. all[i] = Last(rows) /\ all[i + 1] = pad
      BY <1>1, <2>2 DEF Last
    <3> QED BY <1>2, <3>1, PreservedShifted
  <2>3. CASE i > n
    <3>1. all[i] = pad /\ all[i + 1] = pad
      BY <1>1, <2>3
    <3>2. pad.sel \notin FrameOps
      BY <1>2 DEF FrameOps, PushOps, CallOps, CreateOps, PopSelectors
    <3> QED BY <1>2, <3>1, <3>2, PreservedShifted
  <2> QED BY <1>1, <2>1, <2>2, <2>3
<1> QED BY <1>3 DEF all

LEMMA ChunkPermutes ==
  ASSUME NEW rows \in Seq(EvmRow), rows # <<>>, Last(rows).sel \notin FrameOps,
         NEW top, \A f : Cardinality(PushesOf(rows, f)) = Cardinality(PopsTo(rows, top, f))
  PROVE  frame_permutation(PaddedChunk(rows))
<1> DEFINE n == Len(rows)
           size == nearest_size(n)
           all == PaddedChunk(rows)
           pad == EvmPaddingRow(rows)
<1>1. /\ size \in Nat /\ n \in 1 .. size /\ Len(all) = size /\ n \in Nat
      /\ DOMAIN all = 1 .. size
      /\ \A i \in 1 .. n : all[i] = rows[i]
      /\ \A i \in n + 1 .. size : all[i] = pad
  BY ChunkFacts
<1>2. pad.sel \notin PushOps /\ pad.sel \notin PopSelectors
  BY PaddingFacts DEF PushOps, CallOps, CreateOps, PopSelectors
<1>3. rows[n].sel \notin PopSelectors
  BY DEF Last, FrameOps
<1> HIDE DEF size, all, pad
<1>4. ASSUME NEW f
      PROVE  {i \in DOMAIN all : all[i].sel \in PushOps /\ all[i].frame = f} = PushesOf(rows, f)
  <2>1. ASSUME NEW i \in 1 .. size
        PROVE  all[i].sel \in PushOps /\ all[i].frame = f <=> i \in PushesOf(rows, f)
    <3>1. CASE i <= n
      BY <1>1, <3>1 DEF PushesOf
    <3>2. CASE i > n
      BY <1>1, <1>2, <3>2 DEF PushesOf
    <3> QED BY <1>1, <3>1, <3>2
  <2>2. \A i \in PushesOf(rows, f) : i \in 1 .. size
    BY <1>1 DEF PushesOf
  <2> QED BY <1>1, <2>1, <2>2
<1>5. ASSUME NEW f
      PROVE  {i \in DOMAIN all : all[i].sel \in PopSelectors /\ NextRow(all, i).frame = f}
               = PopsTo(rows, top, f)
  <2>1. ASSUME NEW i \in 1 .. size
        PROVE  all[i].sel \in PopSelectors /\ NextRow(all, i).frame = f
                 <=> i \in PopsTo(rows, top, f)
    <3>1. CASE i < n
      <4>1. i % size = i
        BY <1>1, <3>1
      <4>2. NextRow(all, i) = rows[i + 1] /\ all[i] = rows[i] /\ i \in 1 .. Len(rows)
            /\ i < Len(rows)
        BY <1>1, <3>1, <4>1 DEF NextRow
      <4> QED BY <4>2 DEF PopsTo
    <3>2. CASE i = n
      BY <1>1, <1>3, <3>2 DEF PopsTo
    <3>3. CASE i > n
      <4>1. i \notin 1 .. Len(rows) /\ all[i] = pad
        BY <1>1, <3>3
      <4> QED BY <1>2, <4>1 DEF PopsTo
    <3> QED BY <1>1, <3>1, <3>2, <3>3
  <2>2. \A i \in PopsTo(rows, top, f) : i \in 1 .. size
    BY <1>1 DEF PopsTo
  <2> QED BY <1>1, <2>1, <2>2
<1>6. frame_permutation(all)
  BY <1>4, <1>5 DEF frame_permutation
<1> QED BY <1>6 DEF all

LEMMA ChunkIsAccepted ==
  ASSUME NEW rows \in Seq(EvmRow), rows # <<>>, Fits(rows), Plain(rows),
         Last(rows).sel \notin FrameOps,
         NEW tx, \A i \in 1 .. Len(rows) : rows[i].tx = tx,
         NEW top, \A f : Cardinality(PushesOf(rows, f)) = Cardinality(PopsTo(rows, top, f))
  PROVE  ChunkAccepted(rows)
BY ChunkShifted, ChunkPermutes DEF ChunkAccepted

----------------------------------------------------------------------------
(* The inductive invariant of the block's transactions *)

(* Rows carry the transaction they belong to, in order. *)
TxStamps ==
  /\ InTx => \A i \in 1 .. Len(trace) : trace[i].tx = txs
  /\ \A i \in 1 .. Len(merged) : merged[i].tx <= txs /\ (InTx => merged[i].tx < txs)

(* While every row so far is expressible, each frame is balanced. *)
TxBalance == InTx /\ Quiet(trace) => Balanced(trace, frame_stack)

TxInv == TxStamps /\ TxBalance /\ PlainTransactionsAccepted

(* PlainTransactionsAccepted of any sequence of rows *)
AcceptedIn(rows) ==
  \A t \in {rows[i].tx : i \in DOMAIN rows} :
    \E first, last \in DOMAIN rows :
      /\ \A i \in DOMAIN rows : rows[i].tx = t <=> i \in first .. last
      /\ Plain(SubSeq(rows, first, last)) => ChunkAccepted(SubSeq(rows, first, last))

LEMMA AcceptedInMerged ==
  /\ PlainTransactionsAccepted <=> AcceptedIn(merged)
  /\ PlainTransactionsAccepted' <=> AcceptedIn(merged')
BY DEF PlainTransactionsAccepted, AcceptedIn

(* A step that merges nothing *)
LEMMA StampsKept ==
  ASSUME FramesInv, TxInv, InTx, InTx', UNCHANGED <<merged, txs>>,
         NEW r \in EvmRow, r.tx = txs, trace' = Append(trace, r)
  PROVE  TxStamps' /\ PlainTransactionsAccepted'
<1>1. trace \in Seq(EvmRow)
  BY DEF FramesInv, FramesTypeOK
<1>2. /\ Len(trace') = Len(trace) + 1 /\ Len(trace) \in Nat
      /\ \A i \in 1 .. Len(trace) : trace'[i] = trace[i]
      /\ trace'[Len(trace) + 1] = r
  BY <1>1, AppendProperties
<1>3. ASSUME NEW i \in 1 .. Len(trace') PROVE trace'[i].tx = txs'
  <2>1. i \in 1 .. Len(trace) \/ i = Len(trace) + 1
    BY <1>2
  <2> QED BY <1>2, <2>1 DEF TxInv, TxStamps
<1>4. PlainTransactionsAccepted'
  BY AcceptedInMerged DEF TxInv
<1>5. \A i \in 1 .. Len(merged') : merged'[i].tx <= txs' /\ (InTx' => merged'[i].tx < txs')
  BY DEF TxInv, TxStamps
<1> QED BY <1>3, <1>4, <1>5 DEF TxStamps

(* A row that is not expressible stays in the trace. *)
LEMMA QuietPrefix ==
  ASSUME NEW rows \in Seq(EvmRow), NEW r \in EvmRow, Quiet(Append(rows, r))
  PROVE  Quiet(rows) /\ ~Inexpressible(r) /\ ~Unpopped(r)
<1> DEFINE s == Append(rows, r)
<1>1. /\ Len(s) = Len(rows) + 1 /\ Len(rows) \in Nat
      /\ \A i \in 1 .. Len(rows) : s[i] = rows[i]
      /\ s[Len(rows) + 1] = r
  BY AppendProperties
<1>2. Quiet(s)
  OBVIOUS
<1> HIDE DEF s
<1>3. \A i \in 1 .. Len(rows) : i \in 1 .. Len(s)
  BY <1>1
<1>4. Quiet(rows)
  BY <1>1, <1>2, <1>3 DEF Quiet
<1>5. Len(rows) + 1 \in 1 .. Len(s)
  BY <1>1
<1> QED BY <1>1, <1>2, <1>4, <1>5 DEF Quiet

LEMMA InstructionTx ==
  ASSUME FramesInv, TxInv, Instruction
  PROVE  TxInv'
<1>1. FramesTypeOK /\ Mirror /\ InTx /\ trace \in Seq(EvmRow)
  BY DEF FramesInv, FramesTypeOK, Instruction
<1> DEFINE r == row("OP", 0, "next")
<1>2. /\ r \in EvmRow /\ r.tx = txs
      /\ r.frame = Last(frame_stack) /\ r.sel = selector("OP", Len(evm) - 1)
  BY <1>1, RowFacts DEF AnyOp, Effects
<1>3. r.sel = "other"
  BY <1>1, <1>2, TopFrames, Selectors
<1>4. trace' = Append(trace, r) /\ UNCHANGED <<frame_stack, merged, txs>>
  BY DEF Instruction
<1> HIDE DEF r
<1>5. InTx'
  BY <1>1, AdvancedFacts DEF Instruction, InTx
<1>6. TxStamps' /\ PlainTransactionsAccepted'
  BY <1>1, <1>2, <1>4, <1>5, StampsKept
<1>7. ASSUME Quiet(trace') PROVE Balanced(trace', frame_stack')
  <2>1. Balanced(trace, frame_stack)
    BY <1>1, <1>2, <1>4, <1>7, QuietPrefix DEF TxInv, TxBalance
  <2>2. r.sel \notin PushOps /\ r.sel \notin PopSelectors
    BY <1>3 DEF PushOps, CallOps, CreateOps, PopSelectors
  <2>3. ASSUME NEW f
        PROVE  Cardinality(PushesOf(trace', f))
                 = Cardinality(PopsTo(trace', Last(frame_stack'), f))
                     + Cardinality(OpenBelow(frame_stack', f))
    <3>1. /\ Cardinality(PushesOf(trace', f)) = Cardinality(PushesOf(trace, f)) + 0
          /\ Cardinality(PushesOf(trace, f)) \in Nat
          /\ Cardinality(PopsTo(trace', Last(frame_stack'), f))
               = Cardinality(PopsTo(trace, Last(frame_stack), f)) + 0
          /\ Cardinality(PopsTo(trace, Last(frame_stack), f)) \in Nat
      BY <1>1, <1>2, <1>4, <2>2, RowCounts
    <3> QED BY <1>4, <2>1, <3>1 DEF Balanced
  <2> QED BY <2>3 DEF Balanced
<1> QED BY <1>6, <1>7 DEF TxInv, TxBalance

LEMMA EnterFrameTx ==
  ASSUME FramesInv, TxInv, NEW op \in Opcodes, NEW address \in Addresses,
         NEW value \in CallValues, EnterFrame(op, address, value)
  PROVE  TxInv'
<1>1. /\ FramesTypeOK /\ Mirror /\ InTx /\ op \in PushOps /\ op \in AnyOp
      /\ trace \in Seq(EvmRow) /\ frame_stack \in Seq(CallFrame)
  BY FramesAssumption DEF FramesInv, FramesTypeOK, EnterFrame, AnyOp
<1> DEFINE r == row(op, address, "enter")
<1>2. /\ r \in EvmRow /\ r.tx = txs /\ r.frame = Last(frame_stack)
      /\ r.pc = Last(evm).pc /\ r.sel = selector(op, Len(evm) - 1)
  BY <1>1, RowFacts DEF Effects
<1>3. trace' = Append(trace, r) /\ UNCHANGED <<merged, txs>>
  BY DEF EnterFrame
<1>4. r.sel = op
  BY <1>1, <1>2, TopFrames, Selectors
<1> HIDE DEF r
<1>5. trace' \in Seq(EvmRow) /\ trace' # <<>>
  BY <1>1, <1>2, <1>3, TraceGrows
<1> DEFINE f == Pushed(HookKind(op), Callee(op, address), Last(evm).self, value, trace')
<1>6. f \in CallFrame /\ frame_stack' = Append(frame_stack, f)
  BY <1>1, <1>5, HookPushes DEF EnterFrame
<1> HIDE DEF f
<1>7. InTx'
  <2>1. Advanced \in Seq(EvmFrame)
    BY <1>1, AdvancedFacts
  <2>2. \E x : evm' = Append(Advanced, x)
    BY DEF EnterFrame
  <2> HIDE DEF Advanced
  <2>3. Len(evm') # 0
    BY <2>1, <2>2
  <2> QED BY <2>3 DEF InTx
<1>8. TxStamps' /\ PlainTransactionsAccepted'
  BY <1>1, <1>2, <1>3, <1>7, StampsKept
<1>9. ASSUME Quiet(trace') PROVE Balanced(trace', frame_stack')
  <2>1. Balanced(trace, frame_stack)
    BY <1>1, <1>2, <1>3, <1>9, QuietPrefix DEF TxInv, TxBalance
  <2>2. r.sel \in PushOps /\ r.sel \notin PopSelectors
    BY <1>1, <1>4 DEF PushOps, CallOps, CreateOps, PopSelectors
  <2>3. /\ Len(frame_stack) # 0 /\ frame_stack' \in Seq(CallFrame)
        /\ Len(frame_stack') = Len(frame_stack) + 1
        /\ \A i \in 1 .. Len(frame_stack) : frame_stack'[i] = frame_stack[i]
        /\ Last(frame_stack) = frame_stack[Len(frame_stack)]
    BY <1>1, <1>6, TopFrames, StackPush DEF Mirror
  <2>4. ASSUME NEW g
        PROVE  Cardinality(PushesOf(trace', g))
                 = Cardinality(PopsTo(trace', Last(frame_stack'), g))
                     + Cardinality(OpenBelow(frame_stack', g))
    <3> DEFINE one == IF Last(frame_stack) = g THEN 1 ELSE 0
    <3>1. /\ Cardinality(PushesOf(trace', g)) = Cardinality(PushesOf(trace, g)) + one
          /\ Cardinality(PushesOf(trace, g)) \in Nat
          /\ Cardinality(PopsTo(trace', Last(frame_stack'), g))
               = Cardinality(PopsTo(trace, Last(frame_stack), g)) + 0
          /\ Cardinality(PopsTo(trace, Last(frame_stack), g)) \in Nat
      <4>1. /\ one = IF r.sel \in PushOps /\ r.frame = g THEN 1 ELSE 0
            /\ ~(r.sel \in PopSelectors /\ Last(frame_stack') = g)
        BY <1>2, <2>2
      <4>2. /\ Cardinality(PushesOf(trace, g)) \in Nat
            /\ Cardinality(PopsTo(trace, r.frame, g)) \in Nat
            /\ Cardinality(PushesOf(trace', g)) = Cardinality(PushesOf(trace, g))
                 + (IF r.sel \in PushOps /\ r.frame = g THEN 1 ELSE 0)
            /\ Cardinality(PopsTo(trace', Last(frame_stack'), g))
                 = Cardinality(PopsTo(trace, r.frame, g))
                     + (IF r.sel \in PopSelectors /\ Last(frame_stack') = g THEN 1 ELSE 0)
        BY <1>1, <1>2, <1>3, RowCounts
      <4> HIDE DEF one
      <4> QED BY <1>2, <4>1, <4>2
    <3>2. /\ Cardinality(OpenBelow(frame_stack, g)) \in Nat
          /\ Cardinality(OpenBelow(frame_stack', g))
               = Cardinality(OpenBelow(frame_stack, g)) + one
      BY <1>1, <2>3, OpenCounts
    <3>3. Cardinality(PushesOf(trace, g))
            = Cardinality(PopsTo(trace, Last(frame_stack), g))
                + Cardinality(OpenBelow(frame_stack, g))
      BY <2>1 DEF Balanced
    <3>4. one \in Nat
      OBVIOUS
    <3> HIDE DEF one
    <3> QED BY <3>1, <3>2, <3>3, <3>4
  <2> QED BY <2>4 DEF Balanced
<1> QED BY <1>8, <1>9 DEF TxInv, TxBalance

LEMMA AnswerCallTx ==
  ASSUME FramesInv, TxInv, NEW op \in Opcodes, NEW address \in Addresses,
         NEW value \in CallValues, AnswerCall(op, address, value)
  PROVE  TxInv'
<1>1. /\ FramesTypeOK /\ Mirror /\ InTx /\ op \in PushOps /\ op \in AnyOp
      /\ trace \in Seq(EvmRow)
  BY FramesAssumption DEF FramesInv, FramesTypeOK, AnswerCall, AnyOp
<1> DEFINE r == row(op, address, "answered")
<1>2. r \in EvmRow /\ r.tx = txs /\ r.opcode = op /\ r.effect = "answered"
  BY <1>1, RowFacts DEF Effects
<1>3. trace' = Append(trace, r) /\ UNCHANGED <<merged, txs>> /\ evm' = Advanced
  BY DEF AnswerCall
<1> HIDE DEF r
<1>4. InTx'
  BY <1>1, <1>3, AdvancedFacts DEF InTx
<1>5. TxStamps' /\ PlainTransactionsAccepted'
  BY <1>1, <1>2, <1>3, <1>4, StampsKept
<1>6. ~Quiet(trace')
  BY <1>1, <1>2, <1>3, QuietPrefix DEF Inexpressible
<1> QED BY <1>5, <1>6 DEF TxInv, TxBalance

(* The rows of a further transaction are merged. *)
LEMMA PrefixPart ==
  ASSUME NEW m \in Seq(EvmRow), NEW s \in Seq(EvmRow), NEW u, u = m \o s,
         NEW first \in 1 .. Len(m), NEW last \in 1 .. Len(m), first <= last
  PROVE  SubSeq(u, first, last) = SubSeq(m, first, last)
<1>1. /\ u \in Seq(EvmRow) /\ Len(u) = Len(m) + Len(s) /\ Len(m) \in Nat /\ Len(s) \in Nat
      /\ \A i \in 1 .. Len(m) : u[i] = m[i]
  BY ConcatProperties
<1> DEFINE a == SubSeq(u, first, last)
           b == SubSeq(m, first, last)
           k == last - first + 1
<1>2. /\ a \in Seq(EvmRow) /\ Len(a) = k /\ \A i \in 1 .. k : a[i] = u[first + i - 1]
  <2>1. first \in 1 .. last + 1 /\ first - 1 \in Nat /\ last \in first - 1 .. Len(u)
    BY <1>1
  <2>2. \A i \in first .. last : u[i] \in EvmRow
    BY <1>1
  <2> QED BY <1>1, <2>1, <2>2, SubSeqProperties
<1>3. /\ b \in Seq(EvmRow) /\ Len(b) = k /\ \A i \in 1 .. k : b[i] = m[first + i - 1]
  <2>1. \A i \in first .. last : m[i] \in EvmRow
    BY <1>1
  <2> QED BY <1>1, <2>1, SubSeqProperties
<1>4. ASSUME NEW i \in 1 .. k PROVE a[i] = b[i]
  <2>1. first + i - 1 \in 1 .. Len(m)
    OBVIOUS
  <2> QED BY <1>1, <1>2, <1>3, <2>1
<1> HIDE DEF a, b, k
<1>5. a = b
  BY <1>2, <1>3, <1>4, SeqEqual
<1> QED BY <1>5 DEF a, b

LEMMA SuffixPart ==
  ASSUME NEW m \in Seq(EvmRow), NEW s \in Seq(EvmRow), s # <<>>
  PROVE  SubSeq(m \o s, Len(m) + 1, Len(m) + Len(s)) = s
<1> DEFINE u == m \o s
           first == Len(m) + 1
           last == Len(m) + Len(s)
           a == SubSeq(u, first, last)
<1>1. /\ u \in Seq(EvmRow) /\ Len(u) = Len(m) + Len(s) /\ Len(m) \in Nat
      /\ Len(s) \in Nat \ {0}
      /\ \A i \in 1 .. Len(s) : u[Len(m) + i] = s[i]
  BY ConcatProperties, EmptySeq
<1> HIDE DEF u
<1>2. first \in Nat /\ last \in Nat /\ first <= last /\ last - first + 1 = Len(s)
  BY <1>1
<1>3. /\ a \in Seq(EvmRow) /\ Len(a) = last - first + 1
      /\ \A i \in 1 .. last - first + 1 : a[i] = u[first + i - 1]
  <2>1. \A i \in first .. last : u[i] \in EvmRow
    BY <1>1
  <2> QED BY <1>1, <1>2, <2>1, SubSeqProperties
<1>4. ASSUME NEW i \in 1 .. Len(s) PROVE a[i] = s[i]
  <2>1. first + i - 1 = Len(m) + i
    BY <1>1
  <2> QED BY <1>1, <1>2, <1>3, <2>1
<1>5. Len(a) = Len(s)
  BY <1>2, <1>3
<1> HIDE DEF a
<1>6. a = s
  BY <1>3, <1>4, <1>5
<1> QED BY <1>6 DEF a, u

LEMMA MergeAccepted ==
  ASSUME NEW m \in Seq(EvmRow), NEW s \in Seq(EvmRow), s # <<>>, NEW tx \in Nat,
         AcceptedIn(m), \A i \in 1 .. Len(m) : m[i].tx < tx,
         \A i \in 1 .. Len(s) : s[i].tx = tx, Plain(s) => ChunkAccepted(s)
  PROVE  AcceptedIn(m \o s)
<1> DEFINE u == m \o s
<1>1. /\ u \in Seq(EvmRow) /\ Len(u) = Len(m) + Len(s) /\ Len(m) \in Nat
      /\ Len(s) \in Nat \ {0}
      /\ \A i \in 1 .. Len(m) : u[i] = m[i]
      /\ \A i \in 1 .. Len(s) : u[Len(m) + i] = s[i]
  BY ConcatProperties, EmptySeq
<1>2. SubSeq(u, Len(m) + 1, Len(m) + Len(s)) = s
  BY SuffixPart
<1>3. ASSUME NEW first \in 1 .. Len(m), NEW last \in 1 .. Len(m), first <= last
      PROVE  SubSeq(u, first, last) = SubSeq(m, first, last)
  BY <1>3, PrefixPart
<1> HIDE DEF u
<1>4. DOMAIN u = 1 .. Len(u) /\ DOMAIN m = 1 .. Len(m)
  BY <1>1
<1>5. ASSUME NEW i \in 1 .. Len(u) PROVE u[i].tx \in Nat
  <2>1. u[i] \in EvmRow
    BY <1>1
  <2> QED BY <2>1 DEF EvmRow
<1>6. ASSUME NEW i \in 1 .. Len(u)
      PROVE  \/ i \in 1 .. Len(m) /\ u[i] = m[i] /\ u[i].tx < tx
             \/ i \in Len(m) + 1 .. Len(u) /\ u[i].tx = tx
  <2>1. CASE i <= Len(m)
    BY <1>1, <2>1
  <2>2. CASE i > Len(m)
    <3> DEFINE j == i - Len(m)
    <3>1. j \in 1 .. Len(s) /\ i = Len(m) + j
      BY <1>1, <2>2
    <3> HIDE DEF j
    <3>2. u[i].tx = tx
      BY <1>1, <3>1
    <3> QED BY <1>1, <2>2, <3>2
  <2> QED BY <1>1, <2>1, <2>2
<1>7. ASSUME NEW t, NEW i \in 1 .. Len(u), t = u[i].tx
      PROVE  \E first, last \in DOMAIN u :
               /\ \A j \in DOMAIN u : u[j].tx = t <=> j \in first .. last
               /\ Plain(SubSeq(u, first, last)) => ChunkAccepted(SubSeq(u, first, last))
  <2>1. CASE i \in 1 .. Len(m) /\ u[i] = m[i] /\ u[i].tx < tx
    <3>1. PICK first \in DOMAIN m, last \in DOMAIN m :
            /\ \A j \in DOMAIN m : m[j].tx = t <=> j \in first .. last
            /\ Plain(SubSeq(m, first, last)) => ChunkAccepted(SubSeq(m, first, last))
      <4>1. t \in {m[j].tx : j \in DOMAIN m}
        BY <1>4, <1>7, <2>1
      <4> QED BY <4>1 DEF AcceptedIn
    <3>2. i \in first .. last
      BY <1>4, <1>7, <2>1, <3>1
    <3>3. first \in 1 .. Len(m) /\ last \in 1 .. Len(m) /\ first <= last
      BY <1>1, <1>4, <3>2
    <3>4. SubSeq(u, first, last) = SubSeq(m, first, last)
      BY <1>3, <3>3
    <3>5. ASSUME NEW j \in DOMAIN u PROVE u[j].tx = t <=> j \in first .. last
      <4>1. j \in 1 .. Len(u) /\ t < tx
        BY <1>4, <1>7, <2>1
      <4>2. CASE j \in 1 .. Len(m) /\ u[j] = m[j] /\ u[j].tx < tx
        BY <1>4, <3>1, <4>2
      <4>3. CASE j \in Len(m) + 1 .. Len(u) /\ u[j].tx = tx
        <5>1. t # tx
          BY <1>7, <2>1, <1>5
        <5>2. j \notin first .. last
          BY <1>1, <3>3, <4>3
        <5> QED BY <4>3, <5>1, <5>2
      <4> QED BY <1>6, <4>1, <4>2, <4>3
    <3>6. first \in DOMAIN u /\ last \in DOMAIN u
      BY <1>1, <1>4, <3>3
    <3> QED BY <3>1, <3>4, <3>5, <3>6
  <2>2. CASE i \in Len(m) + 1 .. Len(u) /\ u[i].tx = tx
    <3> DEFINE first == Len(m) + 1
               last == Len(m) + Len(s)
    <3>1. first \in DOMAIN u /\ last \in DOMAIN u
      BY <1>1, <1>4
    <3>2. ASSUME NEW j \in DOMAIN u PROVE u[j].tx = t <=> j \in first .. last
      <4>1. j \in 1 .. Len(u) /\ t = tx
        BY <1>4, <1>7, <2>2
      <4>2. CASE j \in 1 .. Len(m) /\ u[j] = m[j] /\ u[j].tx < tx
        <5>1. u[j].tx # tx
          BY <1>5, <4>1, <4>2
        <5>2. j \notin first .. last
          BY <1>1, <4>2
        <5> QED BY <4>1, <5>1, <5>2
      <4>3. CASE j \in Len(m) + 1 .. Len(u) /\ u[j].tx = tx
        BY <1>1, <4>1, <4>3
      <4> QED BY <1>6, <4>1, <4>2, <4>3
    <3>3. Plain(SubSeq(u, first, last)) => ChunkAccepted(SubSeq(u, first, last))
      BY <1>2
    <3> HIDE DEF first, last
    <3> QED BY <3>1, <3>2, <3>3
  <2> QED BY <1>6, <2>1, <2>2
<1>8. AcceptedIn(u)
  BY <1>4, <1>7 DEF AcceptedIn
<1> QED BY <1>8 DEF u

LEMMA LeaveTx ==
  ASSUME FramesInv, FramesInv', TxInv, InTx, NEW r \in EvmRow, Leave(r),
         r.frame = Last(frame_stack), r.tx = txs,
         r.pc = Last(evm).pc,
         r.sel = selector(r.opcode, Len(evm) - 1),
         \/ r.opcode \in EndOps \union {"OP", "INVALID"} /\ r.effect \in {"leave", "halt"}
         \/ r.opcode \in PushOps /\ r.effect = "halt"
  PROVE  TxInv'
<1>1. /\ FramesTypeOK /\ Mirror /\ trace \in Seq(EvmRow) /\ merged \in Seq(EvmRow)
      /\ frame_stack \in Seq(CallFrame) /\ evm \in Seq(EvmFrame) /\ txs \in Nat
  BY DEF FramesInv, FramesTypeOK
<1>2. /\ trace' = Append(trace, r) /\ frame_stack' = call_end(frame_stack)
      /\ evm' = Front(evm) /\ txs' = txs
      /\ merged' = IF Len(evm) = 1 THEN merged \o trace' ELSE merged
  BY DEF Leave
<1>3. /\ Len(evm) \in Nat \ {0} /\ frame_stack # <<>> /\ Len(frame_stack) = Len(evm)
      /\ Last(frame_stack) = frame_stack[Len(evm)]
  BY <1>1, TopFrames DEF Mirror
<1>4. Len(evm') = Len(evm) - 1
  BY <1>1, <1>2, StackPop DEF InTx
<1>5. /\ frame_stack' \in Seq(CallFrame) /\ Len(frame_stack') = Len(evm) - 1
      /\ \A i \in 1 .. Len(evm) - 1 : frame_stack[i] = frame_stack'[i]
  BY <1>1, <1>2, <1>3, StackPop DEF call_end
<1> DEFINE n == Len(evm) - 1
<1>6. n \in Nat /\ Len(evm) = n + 1 /\ r.sel = selector(r.opcode, n)
  BY <1>3
<1>7. CASE n # 0
  <2>1. InTx'
    <3>1. Len(evm') # 0
      BY <1>4, <1>7
    <3> QED BY <3>1 DEF InTx
  <2>2. UNCHANGED <<merged, txs>>
    BY <1>2, <1>6, <1>7
  <2>3. TxStamps' /\ PlainTransactionsAccepted'
    BY <1>2, <2>1, <2>2, StampsKept
  <2>4. ASSUME Quiet(trace') PROVE Balanced(trace', frame_stack')
    <3>1. Quiet(trace) /\ ~Unpopped(r)
      BY <1>1, <1>2, <2>4, QuietPrefix
    <3>2. r.sel \in PopSelectors
      <4>1. r.opcode \in {"STOP", "RETURN", "REVERT"}
        BY <3>1 DEF Unpopped
      <4> QED BY <1>6, <1>7, <4>1, Selectors DEF PopSelectors
    <3>3. r.sel \notin PushOps
      BY <3>2 DEF PushOps, CallOps, CreateOps, PopSelectors
    <3>4. Balanced(trace, frame_stack)
      BY <3>1 DEF TxInv, TxBalance
    <3>5. Last(frame_stack') = frame_stack'[n] /\ Len(frame_stack') = n /\ n \in Nat \ {0}
      BY <1>5, <1>6, <1>7 DEF Last
    <3>6. ASSUME NEW f
          PROVE  Cardinality(PushesOf(trace', f))
                   = Cardinality(PopsTo(trace', Last(frame_stack'), f))
                       + Cardinality(OpenBelow(frame_stack', f))
      <4> DEFINE one == IF Last(frame_stack') = f THEN 1 ELSE 0
      <4>1. /\ Cardinality(PushesOf(trace, f)) \in Nat
            /\ Cardinality(PopsTo(trace, r.frame, f)) \in Nat
            /\ Cardinality(PushesOf(trace', f)) = Cardinality(PushesOf(trace, f))
                 + (IF r.sel \in PushOps /\ r.frame = f THEN 1 ELSE 0)
            /\ Cardinality(PopsTo(trace', Last(frame_stack'), f))
                 = Cardinality(PopsTo(trace, r.frame, f))
                     + (IF r.sel \in PopSelectors /\ Last(frame_stack') = f THEN 1 ELSE 0)
        BY <1>1, <1>2, RowCounts
      <4>2. /\ Cardinality(OpenBelow(frame_stack', f)) \in Nat
            /\ Cardinality(OpenBelow(frame_stack, f))
                 = Cardinality(OpenBelow(frame_stack', f)) + one
        <5> DEFINE s == frame_stack'
                   t == frame_stack
        <5>1. /\ s \in Seq(CallFrame) /\ t \in Seq(CallFrame) /\ Len(s) # 0 /\ Len(t) = Len(s) + 1
              /\ \A i \in 1 .. Len(s) : t[i] = s[i]
          BY <1>1, <1>3, <1>5, <3>5
        <5>2. Last(s) = s[Len(s)]
          BY DEF Last
        <5> HIDE DEF s, t
        <5>3. /\ Cardinality(OpenBelow(s, f)) \in Nat
              /\ Cardinality(OpenBelow(t, f))
                   = Cardinality(OpenBelow(s, f)) + (IF s[Len(s)] = f THEN 1 ELSE 0)
          BY <5>1, OpenCounts
        <5> QED BY <5>2, <5>3 DEF s, t
      <4>3. Cardinality(PushesOf(trace, f))
              = Cardinality(PopsTo(trace, r.frame, f))
                  + Cardinality(OpenBelow(frame_stack, f))
        BY <3>4 DEF Balanced
      <4>4. /\ Cardinality(PushesOf(trace', f)) = Cardinality(PushesOf(trace, f)) + 0
            /\ Cardinality(PopsTo(trace', Last(frame_stack'), f))
                 = Cardinality(PopsTo(trace, r.frame, f)) + one
        BY <3>2, <3>3, <4>1
      <4>5. one \in Nat
        OBVIOUS
      <4> HIDE DEF one
      <4> QED BY <4>1, <4>2, <4>3, <4>4, <4>5
    <3> QED BY <3>6 DEF Balanced
  <2> QED BY <2>3, <2>4 DEF TxInv, TxBalance
<1>8. CASE n = 0
  <2>1. ~InTx' /\ merged' = merged \o trace'
    <3>1. Len(evm') = 0 /\ Len(evm) = 1
      BY <1>3, <1>4, <1>8
    <3>2. evm' \in Seq(EvmFrame)
      BY DEF FramesInv, FramesTypeOK
    <3>3. evm' = <<>>
      BY <3>1, <3>2, EmptySeq
    <3> QED BY <1>2, <3>1, <3>3 DEF InTx
  <2>2. /\ Len(trace') = Len(trace) + 1 /\ Len(trace) \in Nat
        /\ \A i \in 1 .. Len(trace) : trace'[i] = trace[i]
        /\ trace'[Len(trace) + 1] = r
        /\ trace' \in Seq(EvmRow) /\ trace' # <<>> /\ Last(trace') = r
    BY <1>1, <1>2, StackPush
  <2>3. ASSUME NEW i \in 1 .. Len(trace') PROVE trace'[i].tx = txs
    <3>1. i \in 1 .. Len(trace) \/ i = Len(trace) + 1
      BY <2>2
    <3> QED BY <2>2, <3>1 DEF TxInv, TxStamps
  <2>4. \A i \in 1 .. Len(merged) : merged[i].tx < txs
    BY DEF TxInv, TxStamps
  <2>5. ASSUME Plain(trace') PROVE ChunkAccepted(trace')
    <3>1. Quiet(trace) /\ ~Inexpressible(r)
      <4>1. ASSUME NEW i \in 1 .. Len(trace)
            PROVE  ~Inexpressible(trace[i]) /\ ~Unpopped(trace[i])
        <5>1. i \in 1 .. Len(trace') /\ i \in 1 .. Len(trace') - 1 /\ trace'[i] = trace[i]
          BY <2>2
        <5> QED BY <2>5, <5>1 DEF Plain
      <4>2. Len(trace) + 1 \in 1 .. Len(trace')
        BY <2>2
      <4>3. ~Inexpressible(r)
        BY <2>2, <2>5, <4>2 DEF Plain
      <4> QED BY <4>1, <4>3 DEF Quiet
    <3>2. r.sel \in {"call", "stop", "other"}
      <4>1. r.opcode \in EndOps \union {"OP", "INVALID"}
        BY <3>1 DEF Inexpressible
      <4>2. r.sel = selector(r.opcode, 0)
        BY <1>6, <1>8
      <4>3. /\ selector("RETURN", 0) = "call" /\ selector("REVERT", 0) = "stop"
            /\ selector("STOP", 0) = "stop" /\ selector("INVALID", 0) = "stop"
            /\ selector("SELFDESTRUCT", 0) = "stop" /\ selector("OP", 0) = "other"
        BY Selectors
      <4> QED BY <4>1, <4>2, <4>3 DEF EndOps
    <3>3. r.sel \notin FrameOps /\ r.sel \notin PushOps /\ r.sel \notin PopSelectors
      BY <3>2 DEF FrameOps, PushOps, CallOps, CreateOps, PopSelectors
    <3>4. ASSUME NEW f
          PROVE  Cardinality(PushesOf(trace', f))
                   = Cardinality(PopsTo(trace', Last(frame_stack'), f))
      <4>1. /\ Cardinality(PushesOf(trace, f)) \in Nat
            /\ Cardinality(PopsTo(trace, r.frame, f)) \in Nat
            /\ Cardinality(PushesOf(trace', f)) = Cardinality(PushesOf(trace, f)) + 0
            /\ Cardinality(PopsTo(trace', Last(frame_stack'), f))
                 = Cardinality(PopsTo(trace, r.frame, f)) + 0
        BY <1>1, <1>2, <3>3, RowCounts
      <4>2. OpenBelow(frame_stack, f) = {}
        BY <1>3, <1>6, <1>8 DEF OpenBelow
      <4>3. Cardinality(PushesOf(trace, f))
              = Cardinality(PopsTo(trace, r.frame, f))
                  + Cardinality(OpenBelow(frame_stack, f))
        BY <3>1 DEF TxInv, TxBalance, Balanced
      <4>4. Cardinality(OpenBelow(frame_stack, f)) = 0
        BY <4>2, FS_EmptySet
      <4> QED BY <4>1, <4>3, <4>4
    <3>5. Fits(trace')
      BY DEF FramesInv
    <3> DEFINE s == trace'
               top == Last(frame_stack')
    <3>6. /\ s \in Seq(EvmRow) /\ s # <<>> /\ Fits(s) /\ Plain(s)
          /\ Last(s).sel \notin FrameOps
          /\ \A i \in 1 .. Len(s) : s[i].tx = txs
          /\ \A f : Cardinality(PushesOf(s, f)) = Cardinality(PopsTo(s, top, f))
      BY <2>2, <2>3, <2>5, <3>3, <3>4, <3>5
    <3> HIDE DEF s, top
    <3>7. ChunkAccepted(s)
      BY <3>6, ChunkIsAccepted
    <3> QED BY <3>7 DEF s
  <2>6. PlainTransactionsAccepted'
    <3> DEFINE s == trace'
    <3>1. s \in Seq(EvmRow) /\ s # <<>> /\ (Plain(s) => ChunkAccepted(s))
          /\ \A i \in 1 .. Len(s) : s[i].tx = txs
      BY <2>2, <2>3, <2>5
    <3>2. AcceptedIn(merged)
      BY AcceptedInMerged DEF TxInv
    <3> HIDE DEF s
    <3>3. AcceptedIn(merged \o s)
      BY <1>1, <2>4, <3>1, <3>2, MergeAccepted
    <3>4. AcceptedIn(merged')
      BY <2>1, <3>3 DEF s
    <3> QED BY <3>4, AcceptedInMerged
  <2>7. \A i \in 1 .. Len(merged') : merged'[i].tx <= txs
    <3> DEFINE m == merged
               s == trace'
               u == merged'
    <3>1. /\ Len(u) = Len(m) + Len(s) /\ Len(m) \in Nat /\ Len(s) \in Nat
          /\ \A i \in 1 .. Len(m) + Len(s) : u[i] = IF i <= Len(m) THEN m[i] ELSE s[i - Len(m)]
      <4>1. m \in Seq(EvmRow) /\ s \in Seq(EvmRow) /\ u = m \o s
        BY <1>1, <2>1, <2>2
      <4> HIDE DEF m, s, u
      <4> QED BY <4>1, ConcatProperties
    <3>2. /\ \A i \in 1 .. Len(s) : s[i].tx = txs
          /\ \A i \in 1 .. Len(m) : m[i].tx <= txs
      BY <2>3 DEF TxInv, TxStamps
    <3> HIDE DEF m, s, u
    <3>3. ASSUME NEW i \in 1 .. Len(u) PROVE u[i].tx <= txs
      <4>1. CASE i <= Len(m)
        BY <3>1, <3>2, <4>1
      <4>2. CASE ~(i <= Len(m))
        <5>1. i - Len(m) \in 1 .. Len(s) /\ u[i] = s[i - Len(m)]
          BY <3>1, <4>2
        <5>2. u[i].tx = txs
          BY <3>2, <5>1
        <5> QED BY <1>1, <5>2
      <4> QED BY <4>1, <4>2
    <3> QED BY <3>3 DEF u
  <2>8. TxStamps'
    BY <1>2, <2>1, <2>7 DEF TxStamps
  <2> QED BY <2>1, <2>6, <2>8 DEF TxInv, TxBalance
<1> QED BY <1>7, <1>8

LEMMA EndFrameTx ==
  ASSUME FramesInv, FramesInv', TxInv, NEW op \in EndOps, EndFrame(op)
  PROVE  TxInv'
<1>1. FramesTypeOK /\ Mirror /\ InTx /\ op \in AnyOp
  BY DEF FramesInv, EndFrame, AnyOp
<1> DEFINE r == row(op, 0, "leave")
<1>2. /\ r \in EvmRow /\ r.opcode = op /\ r.effect = "leave" /\ r.tx = txs
      /\ r.pc = Last(evm).pc
      /\ r.frame = Last(frame_stack) /\ r.sel = selector(op, Len(evm) - 1)
  BY <1>1, RowFacts DEF Effects
<1>3. Leave(r)
  BY DEF EndFrame
<1> HIDE DEF r
<1> QED BY <1>1, <1>2, <1>3, LeaveTx

LEMMA HaltTx ==
  ASSUME FramesInv, FramesInv', TxInv, NEW op \in HaltOps, Halt(op, 0)
  PROVE  TxInv'
<1>1. /\ FramesTypeOK /\ Mirror /\ InTx /\ op \in AnyOp
      /\ op \in PushOps \union EndOps \union {"OP", "INVALID"}
  BY FramesAssumption DEF FramesInv, Halt, HaltOps, AnyOp
<1> DEFINE r == row(op, 0, "halt")
<1>2. /\ r \in EvmRow /\ r.opcode = op /\ r.effect = "halt" /\ r.tx = txs
      /\ r.pc = Last(evm).pc
      /\ r.frame = Last(frame_stack) /\ r.sel = selector(op, Len(evm) - 1)
  BY <1>1, RowFacts DEF Effects
<1>3. Leave(r)
  BY DEF Halt
<1> HIDE DEF r
<1> QED BY <1>1, <1>2, <1>3, LeaveTx

(* Between two transactions the next one gets a number of its own. *)
LEMMA NextTxStamps ==
  ASSUME FramesInv, TxInv, merged' = merged, txs' = txs + 1
  PROVE  /\ \A i \in 1 .. Len(merged') : merged'[i].tx < txs' /\ merged'[i].tx <= txs'
         /\ PlainTransactionsAccepted'
<1>1. merged \in Seq(EvmRow) /\ txs \in Nat
  BY DEF FramesInv, FramesTypeOK
<1>2. ASSUME NEW i \in 1 .. Len(merged)
      PROVE  merged[i].tx < txs + 1 /\ merged[i].tx <= txs + 1
  <2>1. merged[i] \in EvmRow /\ merged[i].tx <= txs
    BY <1>1 DEF TxInv, TxStamps
  <2>2. merged[i].tx \in Nat
    BY <2>1 DEF EvmRow
  <2> QED BY <1>1, <2>1, <2>2
<1>3. PlainTransactionsAccepted'
  BY AcceptedInMerged DEF TxInv
<1> QED BY <1>2, <1>3

LEMMA BeginTxTx ==
  ASSUME FramesInv, FramesInv', TxInv, NEW to, NEW value, BeginTx(to, value)
  PROVE  TxInv'
<1>1. trace' = <<>> /\ merged' = merged /\ txs' = txs + 1 /\ Len(evm') = 1
  BY DEF BeginTx
<1>2. Len(trace') = 0 /\ Len(frame_stack') = 1
  BY <1>1 DEF FramesInv, Mirror
<1>3. Balanced(trace', frame_stack')
  <2>1. ASSUME NEW f
        PROVE  /\ PushesOf(trace', f) = {} /\ PopsTo(trace', Last(frame_stack'), f) = {}
               /\ OpenBelow(frame_stack', f) = {}
    BY <1>2 DEF PushesOf, PopsTo, OpenBelow
  <2>2. Cardinality({}) = 0
    BY FS_EmptySet
  <2> QED BY <2>1, <2>2 DEF Balanced
<1>4. TxStamps'
  BY <1>1, <1>2, NextTxStamps DEF TxStamps
<1> QED BY <1>1, <1>3, <1>4, NextTxStamps DEF TxInv, TxBalance

LEMMA EmptyTxTx ==
  ASSUME FramesInv, TxInv, EmptyTx
  PROVE  TxInv'
<1>1. merged' = merged /\ txs' = txs + 1 /\ ~InTx'
  BY DEF EmptyTx, InTx
<1>2. TxStamps'
  BY <1>1, NextTxStamps DEF TxStamps
<1> QED BY <1>1, <1>2, NextTxStamps DEF TxInv, TxBalance

LEMMA TxInitial == FramesInit => TxInv
<1> SUFFICES ASSUME FramesInit PROVE TxInv
  OBVIOUS
<1>1. evm = <<>> /\ trace = <<>> /\ merged = <<>>
  BY DEF FramesInit
<1>2. Len(merged) = 0 /\ DOMAIN merged = {} /\ ~InTx
  BY <1>1 DEF InTx
<1> QED BY <1>2 DEF TxInv, TxStamps, TxBalance, PlainTransactionsAccepted

LEMMA TxStutter ==
  ASSUME TxInv, UNCHANGED frameVars
  PROVE  TxInv'
<1>1. PlainTransactionsAccepted'
  BY AcceptedInMerged DEF TxInv, frameVars
<1>2. TxStamps'
  BY DEF TxInv, TxStamps, InTx, frameVars
<1>3. TxBalance'
  <2>1. (InTx' <=> InTx) /\ trace' = trace /\ frame_stack' = frame_stack
    BY DEF InTx, frameVars
  <2>2. (Quiet(trace))' = Quiet(trace) /\ (Balanced(trace, frame_stack))' = Balanced(trace, frame_stack)
    BY <2>1
  <2> QED BY <2>1, <2>2 DEF TxInv, TxBalance
<1> QED BY <1>1, <1>2, <1>3 DEF TxInv

(* While no row is inexpressible or unpopped, every frame has been pushed  *)
(* away by calls as often as the inspector's rows return to it and as it   *)
(* still waits on the stack; rows carry their transaction's number in      *)
(* order.                                                                  *)
THEOREM TxInvIsInvariant == FramesSpec => []TxInv
<1>1. FramesInv /\ FramesInv' /\ TxInv /\ [FramesNext]_frameVars => TxInv'
  BY BeginTxTx, EmptyTxTx, InstructionTx, EnterFrameTx, AnswerCallTx,
     EndFrameTx, HaltTx, TxStutter
     DEF FramesNext, ReplayDone
<1> QED BY <1>1, TxInitial, FramesInvIsInvariant, PTL DEF FramesSpec

(* For all programs, depths, blocks and least domains: the rows of a       *)
(* transaction are a run of the merged trace, and a transaction whose      *)
(* calls are expressible and whose callees end by RETURN, REVERT or STOP   *)
(* is accepted as a chunk, its padding and the frame-stack permutation     *)
(* included.                                                               *)
THEOREM PlainAccepted == FramesSpec => []PlainTransactionsAccepted
BY TxInvIsInvariant, PTL DEF TxInv
=============================================================================
