-------------------------- MODULE ExecutionProofs --------------------------
(***************************************************************************)
(* Proofs about execution: about Hart, for any code, devices, exceptions,  *)
(* delegation and tick interval, and about TraceRows, for words of any     *)
(* width, any guest and chunks of any length.                              *)
(***************************************************************************)
EXTENDS MCExecution, NumberLemmas, SequenceTheorems, TLAPS

----------------------------------------------------------------------------
(* The hart *)

(* What a return will restore is what the trap found, as long as the guest *)
(* has not touched it.                                                     *)
MFrameSaved ==
  mframe # None => /\ mepc = mframe.pc
                   /\ from_bits(mpp) = mframe.priv
                   /\ ("MPIE" \in mstatus) <=> mframe.enabled
SFrameSaved ==
  sframe # None => /\ sepc = sframe.pc
                   /\ (IF "SPP" \in mstatus THEN "S" ELSE "U") = sframe.priv
                   /\ ("SPIE" \in mstatus) <=> sframe.enabled

(* Only a return or a write by the guest enables a level's interrupts. *)
Masked ==
  /\ mframe # None => "MIE" \notin mstatus
  /\ sframe # None => "SIE" \notin mstatus

Inv == TypeOK /\ MFrameSaved /\ SFrameSaved /\ Masked

(* The reset state has no frames. *)
LEMMA InitInv == Init => Inv
<1> SUFFICES ASSUME Init PROVE Inv
  OBVIOUS
<1>1. TypeOK
  <2>1. ssip \in BOOLEAN
    BY DEF Init
  <2> QED
    BY <2>1, TickIntervalAssumption DEF Init, TypeOK, PCs, Modes
<1>2. MFrameSaved /\ SFrameSaved /\ Masked
  BY DEF Init, MFrameSaved, SFrameSaved, Masked
<1> QED
  BY <1>1, <1>2 DEF Inv

(* Delivering a trap saves what it interrupts in the frame of the level it *)
(* goes to, and leaves the other level's alone.                            *)
LEMMA DeliverInv ==
  ASSUME Inv, NEW cause, deliver_trap(cause, pc), UNCHANGED <<mie, ssip, deleg>>,
         left' \in 0 .. TickInterval
  PROVE  Inv'
<1> DEFINE sTrap == [pc |-> pc, priv |-> priv, enabled |-> "SIE" \in mstatus]
           mTrap == [pc |-> pc, priv |-> priv, enabled |-> "MIE" \in mstatus]
<1>1. /\ pc \in PCs /\ priv \in Modes /\ mstatus \subseteq Flags
      /\ sTrap \in Frame /\ mTrap \in Frame
      /\ sTrap # None /\ mTrap # None
  <2>1. /\ pc \in PCs /\ priv \in Modes /\ mstatus \subseteq Flags
        /\ ("SIE" \in mstatus) \in BOOLEAN /\ ("MIE" \in mstatus) \in BOOLEAN
    BY DEF Inv, TypeOK
  <2>2. sTrap \in Frame /\ mTrap \in Frame
    BY <2>1, Zenon DEF Frame
  <2> QED
    BY <2>1, <2>2, NoneAssumption
<1>1a. Bits[priv] \in 0 .. 3 /\ from_bits(Bits[priv]) = priv
  BY <1>1 DEF Modes, Bits, from_bits
<1>2. CASE Delegated(cause)
  <2>1. /\ sepc' = pc /\ pc' = Stvec /\ priv' = "S" /\ sframe' = sTrap
        /\ UNCHANGED <<mepc, mpp, mframe>>
        /\ mstatus' = Assign(Assign(Assign(mstatus, "SPIE", "SIE" \in mstatus),
                                    "SPP", priv = "S"), "SIE", FALSE)
    BY <1>2 DEF deliver_trap
  <2>2. /\ mstatus' \subseteq Flags
        /\ "SIE" \notin mstatus'
        /\ "SPIE" \in mstatus' <=> "SIE" \in mstatus
        /\ "SPP" \in mstatus' <=> priv = "S"
        /\ "MIE" \in mstatus' <=> "MIE" \in mstatus
        /\ "MPIE" \in mstatus' <=> "MPIE" \in mstatus
    BY <1>1, <2>1 DEF Assign, Flags
  <2>3. TypeOK'
    BY <1>1, <2>1, <2>2 DEF Inv, TypeOK, PCs, Modes
  <2>4. priv \in {"S", "U"}
    BY <1>1, <1>2 DEF Delegated, Modes
  <2>5. SFrameSaved'
    BY <2>1, <2>2, <2>4 DEF SFrameSaved
  <2>6. MFrameSaved' /\ Masked'
    BY <2>1, <2>2 DEF Inv, MFrameSaved, Masked
  <2> QED
    BY <2>3, <2>5, <2>6 DEF Inv
<1>3. CASE ~Delegated(cause)
  <2>1. /\ mepc' = pc /\ pc' = Mtvec /\ priv' = "M" /\ mframe' = mTrap
        /\ mpp' = Bits[priv]
        /\ UNCHANGED <<sepc, sframe>>
        /\ mstatus' = Assign(Assign(mstatus, "MPIE", "MIE" \in mstatus),
                             "MIE", FALSE)
    BY <1>3 DEF deliver_trap
  <2>2. /\ mstatus' \subseteq Flags
        /\ "MIE" \notin mstatus'
        /\ "MPIE" \in mstatus' <=> "MIE" \in mstatus
        /\ "SIE" \in mstatus' <=> "SIE" \in mstatus
        /\ "SPIE" \in mstatus' <=> "SPIE" \in mstatus
        /\ "SPP" \in mstatus' <=> "SPP" \in mstatus
    BY <1>1, <2>1 DEF Assign, Flags
  <2>3. TypeOK'
    BY <1>1, <1>1a, <2>1, <2>2 DEF Inv, TypeOK, PCs, Modes
  <2>4. MFrameSaved'
    BY <1>1a, <2>1, <2>2 DEF MFrameSaved
  <2>5. SFrameSaved' /\ Masked'
    BY <2>1, <2>2 DEF Inv, SFrameSaved, Masked
  <2> QED
    BY <2>3, <2>4, <2>5 DEF Inv
<1> QED
  BY <1>2, <1>3

(* Every step of the hart keeps the invariant. *)
LEMMA StepInv == Inv /\ [Next]_vars => Inv'
<1> SUFFICES ASSUME Inv, [Next]_vars PROVE Inv'
  OBVIOUS
<1> USE TickIntervalAssumption
<1>0. /\ left \in 0 .. TickInterval
      /\ left > 0 => left - 1 \in 0 .. TickInterval
      /\ Code \subseteq PCs
  BY DEF Inv, TypeOK, PCs
<1>1. CASE Poll
  <2>1. left' \in 0 .. TickInterval /\ UNCHANGED <<mie, ssip, deleg>>
    BY <1>1 DEF Poll
  <2>2. CASE UNCHANGED <<pc, priv, mstatus, mpp, mepc, sepc, mframe, sframe>>
    BY <2>1, <2>2 DEF Inv, TypeOK, MFrameSaved, SFrameSaved, Masked
  <2>3. CASE \E c : deliver_trap(c, pc)
    BY <2>1, <2>3, DeliverInv
  <2> QED
    BY <1>1, <2>2, <2>3 DEF Poll
<1>2. CASE Exception
  BY <1>0, <1>2, DeliverInv DEF Exception
<1>3. CASE Compute
  BY <1>0, <1>3 DEF Compute, Inv, TypeOK, MFrameSaved, SFrameSaved, Masked
<1>4. CASE MRET
  <2>1. /\ mstatus' \subseteq Flags
        /\ \A f \in {"SIE", "SPIE", "SPP"} : f \in mstatus' <=> f \in mstatus
    BY <1>4 DEF MRET, Assign, Inv, TypeOK, Flags
  <2>2. TypeOK'
    BY <1>0, <1>4, <2>1 DEF MRET, Inv, TypeOK, Modes, from_bits
  <2>3. MFrameSaved' /\ SFrameSaved' /\ Masked'
    BY <1>4, <2>1 DEF MRET, Inv, MFrameSaved, SFrameSaved, Masked
  <2> QED
    BY <2>2, <2>3 DEF Inv
<1>5. CASE SRET
  <2>1. /\ mstatus' \subseteq Flags
        /\ \A f \in {"MIE", "MPIE"} : f \in mstatus' <=> f \in mstatus
    BY <1>5 DEF SRET, Assign, Inv, TypeOK, Flags
  <2>2. TypeOK'
    BY <1>0, <1>5, <2>1 DEF SRET, Inv, TypeOK, Modes
  <2>3. MFrameSaved' /\ SFrameSaved' /\ Masked'
    BY <1>5, <2>1 DEF SRET, Inv, MFrameSaved, SFrameSaved, Masked
  <2> QED
    BY <2>2, <2>3 DEF Inv
<1>6. CASE WriteStatus
  <2>1. /\ UNCHANGED <<priv, mepc, sepc, mie, ssip, deleg>>
        /\ left' \in 0 .. TickInterval /\ pc' \in PCs /\ sframe' = None
    BY <1>0, <1>6 DEF WriteStatus, CsrDone
  <2>2. /\ mstatus' \subseteq Flags
        /\ mpp' \in 0 .. 3
        /\ \/ mframe' = None
           \/ /\ UNCHANGED <<mframe, mpp>>
              /\ \A f \in {"MIE", "MPIE"} : f \in mstatus' <=> f \in mstatus
    <3>1. CASE \E f \in StatusBits, b \in BOOLEAN :
                 mstatus' = Assign(mstatus, f, b) /\ mpp' = mpp /\ mframe' = None
      BY <3>1, StatusBitsAssumption DEF Assign, Inv, TypeOK
    <3>2. CASE mpp' \in 0 .. 3 /\ mstatus' = mstatus /\ mframe' = None
      BY <3>2 DEF Inv, TypeOK
    <3>3. CASE \E f \in SSTATUS_MASK, b \in BOOLEAN :
                 mstatus' = Assign(mstatus, f, b) /\ mpp' = mpp /\ mframe' = mframe
      BY <3>3 DEF Assign, SSTATUS_MASK, Inv, TypeOK, Flags
    <3> QED
      BY <1>6, <3>1, <3>2, <3>3 DEF WriteStatus
  <2>3. TypeOK'
    BY <2>1, <2>2 DEF Inv, TypeOK
  <2>4. MFrameSaved' /\ SFrameSaved' /\ Masked'
    BY <2>1, <2>2 DEF Inv, MFrameSaved, SFrameSaved, Masked
  <2> QED
    BY <2>3, <2>4 DEF Inv
<1>7. CASE WriteEpc
  BY <1>0, <1>7 DEF WriteEpc, CsrDone, Inv, TypeOK, MFrameSaved, SFrameSaved, Masked
<1>8. CASE WriteIe \/ WriteIp \/ WriteDeleg
  <2>1. /\ UNCHANGED <<priv, mstatus, mpp, mepc, sepc, mframe, sframe>>
        /\ left' \in 0 .. TickInterval /\ pc' \in PCs
    BY <1>0, <1>8 DEF WriteIe, WriteIp, WriteDeleg, CsrDone
  <2>2. mie' \subseteq Interrupts /\ deleg' \subseteq Delegable
    BY <1>8, DevicesAssumption
       DEF WriteIe, WriteIp, WriteDeleg, Assign, Inv, TypeOK, Interrupts
  <2>3. ssip' \in BOOLEAN
    BY <1>8, Zenon DEF WriteIe, WriteIp, WriteDeleg, Inv, TypeOK
  <2> QED
    BY <2>1, <2>2, <2>3 DEF Inv, TypeOK, MFrameSaved, SFrameSaved, Masked
<1>9. CASE UNCHANGED vars
  BY <1>9 DEF vars, Inv, TypeOK, MFrameSaved, SFrameSaved, Masked
<1> QED
  BY <1>1, <1>2, <1>3, <1>4, <1>5, <1>6, <1>7, <1>8, <1>9 DEF Next

(* Inv is an inductive invariant of the hart. *)
THEOREM InvIsInvariant == Spec => []Inv
  BY InitInv, StepInv, PTL DEF Spec

(* The hart's trap state keeps its type. *)
THEOREM TypeCorrect == Spec => []TypeOK
<1>1. Inv => TypeOK
  BY DEF Inv
<1> QED
  BY <1>1, InvIsInvariant, PTL

(* deliver_trap masks the level it goes to until the guest returns or      *)
(* enables it.                                                             *)
THEOREM HandlersMasked == Spec => []HandlerRunsMasked
<1>1. Inv => HandlerRunsMasked
  BY DEF Inv, Masked, HandlerRunsMasked, should_take
<1> QED
  BY <1>1, InvIsInvariant, PTL

(* MRET undoes an untouched trap to M. *)
THEOREM MretUndoesTrap == Spec => MretRestores
<1>1. Inv => [ MRET /\ mframe # None =>
                 /\ pc' = mframe.pc
                 /\ priv' = mframe.priv
                 /\ ("MIE" \in mstatus') = mframe.enabled ]_vars
  <2> SUFFICES ASSUME Inv, MRET, mframe # None
               PROVE  /\ pc' = mframe.pc
                      /\ priv' = mframe.priv
                      /\ ("MIE" \in mstatus') = mframe.enabled
    OBVIOUS
  <2>1. mframe.enabled \in BOOLEAN
    BY DEF Inv, TypeOK, Frame
  <2>2. "MIE" \in mstatus' <=> mframe.enabled
    BY DEF MRET, Assign, Inv, MFrameSaved
  <2>3. pc' = mframe.pc /\ priv' = mframe.priv
    BY DEF MRET, Inv, MFrameSaved
  <2> QED
    BY <2>1, <2>2, <2>3
<1> QED
  BY <1>1, InvIsInvariant, PTL DEF MretRestores

(* SRET undoes an untouched trap to S, whatever M-mode did in between. *)
THEOREM SretUndoesTrap == Spec => SretRestores
<1>1. Inv => [ SRET /\ sframe # None =>
                 /\ pc' = sframe.pc
                 /\ priv' = sframe.priv
                 /\ ("SIE" \in mstatus') = sframe.enabled ]_vars
  <2> SUFFICES ASSUME Inv, SRET, sframe # None
               PROVE  /\ pc' = sframe.pc
                      /\ priv' = sframe.priv
                      /\ ("SIE" \in mstatus') = sframe.enabled
    OBVIOUS
  <2>1. sframe.enabled \in BOOLEAN
    BY DEF Inv, TypeOK, Frame
  <2>2. "SIE" \in mstatus' <=> sframe.enabled
    BY DEF SRET, Assign, Inv, SFrameSaved
  <2>3. pc' = sframe.pc /\ priv' = sframe.priv
    BY DEF SRET, Inv, SFrameSaved
  <2> QED
    BY <2>1, <2>2, <2>3
<1> QED
  BY <1>1, InvIsInvariant, PTL DEF SretRestores

(* No trap, delegated or not, lowers the privilege. *)
THEOREM TrapsRaise == Spec => TrapNeverLowersPrivilege
<1>1. Inv => [ Poll \/ Exception => Bits[priv'] >= Bits[priv] ]_vars
  <2> SUFFICES ASSUME Inv, Poll \/ Exception PROVE Bits[priv'] >= Bits[priv]
    OBVIOUS
  <2>1. priv \in Modes
    BY DEF Inv, TypeOK
  <2>2. priv' = priv \/ priv' = "M" \/ (priv # "M" /\ priv' = "S")
    BY DEF Poll, Exception, deliver_trap, Delegated
  <2> QED
    BY <2>1, <2>2 DEF Modes, Bits
<1> QED
  BY <1>1, InvIsInvariant, PTL DEF TrapNeverLowersPrivilege

----------------------------------------------------------------------------
(* Machine words *)

LEMMA WordBounds ==
  2^WordBits \in Nat \ {0} /\ 0 \in Word /\ Word \subseteq Nat
<1>1. 2^WordBits \in Nat /\ WordBits < 2^WordBits /\ WordBits \in Nat
  BY WordAssumption, PowerExceeds
<1> QED BY <1>1 DEF Word

LEMMA WrapWord ==
  ASSUME NEW n \in Int
  PROVE  Wrap(n) \in Word
<1> DEFINE m == 2^WordBits
<1>1. m \in Nat /\ m > 0
  BY WordBounds
<1> HIDE DEF m
<1>2. n % m \in 0 .. m - 1
  BY <1>1, ModRange
<1> QED BY <1>2 DEF m, Wrap, Word

(* A number below the top of the address space does not wrap. *)
LEMMA WrapSmall ==
  ASSUME NEW n \in Nat, n < 2^WordBits
  PROVE  Wrap(n) = n
<1> DEFINE m == 2^WordBits
<1>1. m \in Nat /\ n < m
  BY WordBounds
<1> HIDE DEF m
<1>2. n % m = n
  BY <1>1
<1> QED BY <1>2 DEF m, Wrap

----------------------------------------------------------------------------
(* The rows the instructions leave *)

LEMMA ExecuteTypes ==
  ASSUME NEW q \in Word, NEW item \in execute(q)
  PROVE  item \in TraceRow
<1> USE WordBounds
<1>1. q \in Int
  OBVIOUS
<1>2. \A len \in InsnLens : q + len \in Int /\ len \in Nat
  BY <1>1 DEF InsnLens
<1>3. \A len \in InsnLens : Wrap(q + len) \in Word
  BY <1>2, WrapWord
<1>4. \A off \in Offsets : Wrap(off) \in Word /\ Wrap(q + off) \in Word
  <2>1. \A off \in Offsets : off \in Int /\ q + off \in Int
    BY <1>1, OffsetsAssumption
  <2> QED BY <2>1, WrapWord
<1>5. \A link \in Links, w \in Word : link * w \in Word
  <2>1. ASSUME NEW link \in {0, 1}, NEW w \in Word PROVE link * w \in Word
    <3>1. w \in Nat
      OBVIOUS
    <3>2. 0 * w = 0 /\ 1 * w = w
      BY <3>1
    <3> QED BY <3>2
  <2> QED BY <2>1, OffsetsAssumption
<1>6. \A t \in Targets : t \in Word /\ t % 2 \in {0, 1} /\ t - (t % 2) \in Word
  <2>1. ASSUME NEW t \in Targets
        PROVE  t \in Word /\ t % 2 \in {0, 1} /\ t - (t % 2) \in Word
    <3>1. t \in Word
      BY WordAssumption
    <3>2. t \in Nat /\ t % 2 \in {0, 1} /\ t - (t % 2) \in 0 .. t
      BY <3>1
    <3>3. \A s \in 0 .. t : s \in Word
      BY <3>1 DEF Word
    <3> QED BY <3>1, <3>2, <3>3
  <2> QED BY <2>1
<1>7. CASE item \in Sequential(q)
  BY <1>2, <1>3, <1>7 DEF Sequential, Row, TraceRow, Kinds
<1>8. CASE item \in Branch(q)
  <2> DEFINE F(len, off, aux1) ==
               [Row("branch", len, Wrap(q + (IF aux1 = 0 THEN off ELSE len)))
                  EXCEPT !.immediate = Wrap(off), !.aux1 = aux1]
  <2>0. Branch(q) = {F(len, off, aux1) : len \in InsnLens, off \in Offsets, aux1 \in {0, 1}}
    BY DEF Branch
  <2> HIDE DEF F
  <2>1. PICK len \in InsnLens, off \in Offsets, aux1 \in {0, 1} :
          item = F(len, off, aux1)
    BY <1>8, <2>0
  <2>2. Wrap(q + (IF aux1 = 0 THEN off ELSE len)) \in Word
    BY <1>3, <1>4
  <2> QED BY <1>2, <1>4, <2>1, <2>2 DEF F, Row, TraceRow, Kinds
<1>9. CASE item \in Jal(q)
  <2> DEFINE F(len, off, link) ==
               [Row("jal", len, Wrap(q + off))
                  EXCEPT !.immediate = Wrap(off), !.rd_val_after = link * Wrap(q + len)]
  <2>0. Jal(q) = {F(len, off, link) : len \in InsnLens, off \in Offsets, link \in Links}
    BY DEF Jal
  <2> HIDE DEF F
  <2>1. PICK len \in InsnLens, off \in Offsets, link \in Links : item = F(len, off, link)
    BY <1>9, <2>0
  <2>2. link * Wrap(q + len) \in Word
    BY <1>3, <1>5
  <2> QED BY <1>2, <1>4, <2>1, <2>2 DEF F, Row, TraceRow, Kinds
<1>10. CASE item \in Jalr(q)
  <2> DEFINE F(len, rs1, link) ==
               [Row("jalr", len, rs1 - (rs1 % 2))
                  EXCEPT !.rs1_val = rs1, !.aux1 = rs1 % 2,
                         !.rd_val_after = link * Wrap(q + len)]
  <2>0. Jalr(q) = {F(len, rs1, link) : len \in InsnLens, rs1 \in Targets, link \in Links}
    BY DEF Jalr
  <2> HIDE DEF F
  <2>1. PICK len \in InsnLens, rs1 \in Targets, link \in Links : item = F(len, rs1, link)
    BY <1>10, <2>0
  <2>2. link * Wrap(q + len) \in Word
    BY <1>3, <1>5
  <2> QED BY <1>2, <1>6, <2>1, <2>2 DEF F, Row, TraceRow, Kinds
<1>11. CASE item \in System(q)
  BY <1>3, <1>6, <1>11 DEF System, Row, TraceRow, Kinds, InsnLens
<1> QED BY <1>7, <1>8, <1>9, <1>10, <1>11 DEF execute

----------------------------------------------------------------------------
(* The padded columns *)

(* The domain holds the rows. *)
LEMMA DomainHolds ==
  ASSUME NEW n \in Nat
  PROVE  nearest_power_of_two(n) \in Nat /\ nearest_power_of_two(n) >= n
<1> DEFINE P(k) == MinDomain * 2^k
           S == {P(k) : k \in 0 .. n}
           T == {s \in S : s >= n}
<1>1. ASSUME NEW k \in 0 .. n PROVE P(k) \in Nat
  <2>1. 2^k \in Nat
    BY PowerExceeds
  <2> QED BY <2>1, DomainAssumption
<1>2. P(n) >= n
  <2>1. 2^n \in Nat /\ n < 2^n
    BY PowerExceeds
  <2>2. \A m \in Nat \ {0}, p \in Nat : n < p => m * p >= n
    <3>1. ASSUME NEW m \in Nat \ {0}, NEW p \in Nat, n < p PROVE m * p >= n
      <4>1. m - 1 \in Nat /\ m * p = (m - 1) * p + p
        OBVIOUS
      <4>2. (m - 1) * p \in Nat
        BY <4>1
      <4> QED BY <3>1, <4>1, <4>2
    <3> QED BY <3>1
  <2> QED BY <2>1, <2>2, DomainAssumption
<1>3. T # {} /\ T \subseteq Nat
  BY <1>1, <1>2
<1>4. PICK s \in T : \A t \in T : s <= t
  <2> HIDE DEF T
  <2> QED BY <1>3, LeastNat
<1>5. s \in S /\ s >= n /\ \A k \in 0 .. n : P(k) >= n => s <= P(k)
  BY <1>4
<1>6. nearest_power_of_two(n) =
        CHOOSE size \in S : size >= n /\ \A k \in 0 .. n : P(k) >= n => size <= P(k)
  BY DEF nearest_power_of_two
<1> DEFINE c == CHOOSE size \in S :
                  size >= n /\ \A k \in 0 .. n : P(k) >= n => size <= P(k)
<1>7. c \in S /\ c >= n
  <2> HIDE DEF P, S
  <2> QED BY <1>5
<1> QED BY <1>1, <1>6, <1>7

(* Rows that follow each other, but for the gaps *)
Chained(s, g) == \A i \in 1 .. Len(s) - 1 : i \notin g => s[i + 1].pc = s[i].next_pc

(* What Prove commits to: the rows, then rows without a constraint that    *)
(* stay where the last row went.                                           *)
PaddedTo(s, c) ==
  /\ c \in Seq(TraceRow) /\ Len(c) >= Len(s)
  /\ \A i \in 1 .. Len(s) : c[i] = s[i]
  /\ \A i \in Len(s) + 1 .. Len(c) :
       c[i].kind = "system" /\ c[i].pc = c[i].next_pc
  /\ \A i \in Len(s) + 1 .. Len(c), j \in 1 .. Len(s) :
       j = Len(s) => c[i].pc = s[j].next_pc
  /\ \A i, j \in Len(s) + 1 .. Len(c) : c[i].pc = c[j].pc

LEMMA ProvePads ==
  ASSUME rows \in Seq(TraceRow), Prove
  PROVE  PaddedTo(rows, columns') /\ Len(columns') = nearest_power_of_two(Len(rows))
<1> DEFINE n == Len(rows)
           size == nearest_power_of_two(n)
           blank == [i \in 1 .. size - n |-> PaddingRow]
           w == IF rows = <<>> THEN 0 ELSE rows[n].next_pc
           pad == [i \in 1 .. size - n |-> [PaddingRow EXCEPT !.pc = w, !.next_pc = w]]
<1>1. n \in Nat /\ size \in Nat /\ size >= n
  BY DomainHolds
<1> HIDE DEF size
<1>2. rows # <<>> => n \in 1 .. n /\ rows[n] \in TraceRow
  BY EmptySeq
<1>3. w \in Word
  BY <1>2, WordBounds DEF TraceRow
<1>4. [PaddingRow EXCEPT !.pc = w, !.next_pc = w] \in TraceRow
  BY <1>3, WordBounds DEF PaddingRow, Row, TraceRow, Kinds
<1>5. fix_trace_padding(blank) = pad
  BY DEF fix_trace_padding, PaddingRow, Row
<1>6. pad \in Seq(TraceRow) /\ Len(pad) = size - n
  <2>1. size - n \in Nat
    BY <1>1
  <2> QED BY <1>4, <2>1
<1>7. columns' = rows \o pad
  BY <1>5 DEF Prove, size
<1>8. ASSUME NEW i \in 1 .. size - n
      PROVE  pad[i].kind = "system" /\ pad[i].pc = w /\ pad[i].next_pc = w
  BY DEF PaddingRow, Row
<1> HIDE DEF pad, blank
<1>9. /\ columns' \in Seq(TraceRow) /\ Len(columns') = size
      /\ \A i \in 1 .. n : columns'[i] = rows[i]
      /\ \A i \in n + 1 .. size : columns'[i] = pad[i - n]
  BY <1>1, <1>6, <1>7
<1>10. ASSUME NEW i \in n + 1 .. size
       PROVE  columns'[i].kind = "system" /\ columns'[i].pc = w /\ columns'[i].next_pc = w
  <2>1. i - n \in 1 .. size - n
    BY <1>1
  <2> QED BY <1>8, <1>9, <2>1
<1>11. \A j \in 1 .. n : j = n => w = rows[j].next_pc
  BY <1>1, EmptySeq
<1> QED BY <1>1, <1>9, <1>10, <1>11 DEF PaddedTo, size

LEMMA PaddingChains ==
  ASSUME NEW s \in Seq(TraceRow), NEW c, NEW g, PaddedTo(s, c), Chained(s, g)
  PROVE  Chained(c, g)
<1>1. c \in Seq(TraceRow) /\ Len(s) \in Nat /\ Len(c) \in Nat /\ Len(c) >= Len(s)
  BY DEF PaddedTo
<1>2. ASSUME NEW i \in 1 .. Len(c) - 1, i \notin g
      PROVE  c[i + 1].pc = c[i].next_pc
  <2>1. CASE i < Len(s)
    <3>1. i \in 1 .. Len(s) - 1 /\ i \in 1 .. Len(s) /\ i + 1 \in 1 .. Len(s)
      BY <1>1, <2>1
    <3> QED BY <1>2, <3>1 DEF Chained, PaddedTo
  <2>2. CASE i = Len(s)
    <3>1. i \in 1 .. Len(s) /\ i + 1 \in Len(s) + 1 .. Len(c)
      BY <1>1, <2>2
    <3> QED BY <2>2, <3>1 DEF PaddedTo
  <2>3. CASE i > Len(s)
    <3>1. i \in Len(s) + 1 .. Len(c) /\ i + 1 \in Len(s) + 1 .. Len(c)
      BY <1>1, <2>3
    <3> QED BY <3>1 DEF PaddedTo
  <2> QED BY <1>1, <2>1, <2>2, <2>3
<1> QED BY <1>2 DEF Chained

----------------------------------------------------------------------------
(* The chain of rows *)

(* The pc follows the last row, unless a trap at the fetch came between. *)
RowsInv ==
  /\ cpu_pc \in Word
  /\ rows \in Seq(TraceRow) /\ columns \in Seq(TraceRow)
  /\ Chained(rows, gaps) /\ Chained(columns, gaps)
  /\ rows # <<>> /\ Len(rows) \notin gaps => cpu_pc = rows[Len(rows)].next_pc

(* The rows of a step are rows of the trace. *)
LEMMA StepRow ==
  ASSUME RowsInv, Step
  PROVE  \E r \in TraceRow :
           /\ rows' = Append(rows, r)
           /\ r.pc = cpu_pc /\ r.next_pc = cpu_pc'
<1>1. PICK interrupted \in BOOLEAN, faults \in BOOLEAN :
        \E item \in execute(IF interrupted THEN Handler ELSE cpu_pc) :
          LET next == IF faults THEN FaultPc ELSE item.next_pc
          IN  /\ rows' = Append(rows, [item EXCEPT !.pc = cpu_pc, !.next_pc = next])
              /\ cpu_pc' = next
  BY DEF Step
<1> DEFINE q == IF interrupted THEN Handler ELSE cpu_pc
<1>2. PICK item \in execute(q) :
        /\ rows' = Append(rows, [item EXCEPT !.pc = cpu_pc,
                                            !.next_pc = IF faults THEN FaultPc ELSE item.next_pc])
        /\ cpu_pc' = IF faults THEN FaultPc ELSE item.next_pc
  BY <1>1
<1>3. q \in Word
  BY WordAssumption DEF RowsInv
<1>4. item \in TraceRow
  <2> HIDE DEF q
  <2> QED BY <1>3, ExecuteTypes
<1>5. cpu_pc \in Word /\ cpu_pc' \in Word
  BY <1>2, <1>4, WordAssumption DEF RowsInv, TraceRow, FaultPc
<1> DEFINE r == [item EXCEPT !.pc = cpu_pc, !.next_pc = cpu_pc']
<1>6. r \in TraceRow /\ r.pc = cpu_pc /\ r.next_pc = cpu_pc'
  BY <1>4, <1>5 DEF TraceRow
<1>7. rows' = Append(rows, r)
  BY <1>2, Zenon
<1> QED BY <1>6, <1>7

(* RowsInv is an invariant: every step appends a row that starts at the pc *)
(* and ends at the next one.                                               *)
THEOREM RowsInvIsInvariant == RowsSpec => []RowsInv
<1>1. RowsInit => RowsInv
  BY WordAssumption DEF RowsInit, RowsInv, Chained
<1>2. RowsInv /\ [RowsNext]_rowVars => RowsInv'
  <2> SUFFICES ASSUME RowsInv, [RowsNext]_rowVars PROVE RowsInv'
    OBVIOUS
  <2>1. CASE Step
    <3>1. PICK r \in TraceRow :
            rows' = Append(rows, r) /\ r.pc = cpu_pc /\ r.next_pc = cpu_pc'
      BY <2>1, StepRow
    <3>2. columns' = columns /\ gaps' = gaps
      BY <2>1 DEF Step
    <3>3. rows \in Seq(TraceRow) /\ Len(rows) \in Nat
      BY DEF RowsInv
    <3>4. /\ rows' \in Seq(TraceRow) /\ Len(rows') = Len(rows) + 1
          /\ \A i \in 1 .. Len(rows) : rows'[i] = rows[i]
          /\ rows'[Len(rows) + 1] = r
      BY <3>1, <3>3
    <3>5. ASSUME NEW i \in 1 .. Len(rows') - 1, i \notin gaps
          PROVE  rows'[i + 1].pc = rows'[i].next_pc
      <4>1. CASE i = Len(rows)
        <5>1. rows # <<>> /\ i \in 1 .. Len(rows)
          BY <3>3, <3>4, <4>1, EmptySeq
        <5> QED BY <3>1, <3>4, <3>5, <4>1, <5>1 DEF RowsInv
      <4>2. CASE i # Len(rows)
        <5>1. i \in 1 .. Len(rows) - 1 /\ i \in 1 .. Len(rows) /\ i + 1 \in 1 .. Len(rows)
          BY <3>3, <3>4, <4>2
        <5> QED BY <3>4, <3>5, <5>1 DEF RowsInv, Chained
      <4> QED BY <4>1, <4>2
    <3>6. cpu_pc' \in Word
      BY <3>1 DEF TraceRow
    <3> QED BY <3>1, <3>2, <3>4, <3>5, <3>6 DEF RowsInv, Chained
  <2>2. CASE FetchTrap
    BY <2>2, WordAssumption DEF FetchTrap, RowsInv, Chained
  <2>3. CASE StepFails
    BY <2>3 DEF StepFails, RowsInv
  <2>4. CASE Prove
    <3>1. PaddedTo(rows, columns')
      BY <2>4, ProvePads DEF RowsInv
    <3>2. Chained(columns', gaps)
      BY <3>1, PaddingChains DEF RowsInv
    <3> QED BY <2>4, <3>1, <3>2 DEF Prove, RowsInv, PaddedTo
  <2>5. CASE UNCHANGED rowVars
    BY <2>5 DEF rowVars, RowsInv
  <2> QED BY <2>1, <2>2, <2>3, <2>4, <2>5 DEF RowsNext, Done
<1> QED BY <1>1, <1>2, PTL DEF RowsSpec

(* Only a trap at the fetch breaks the chain of the padded columns that    *)
(* fix_trace_padding completes.                                            *)
THEOREM ContinuityCorrect == RowsSpec => []ContinuityBreaksOnlyAtTraps
<1>1. RowsInv => ContinuityBreaksOnlyAtTraps
  BY DEF RowsInv, Chained, ContinuityBreaksOnlyAtTraps, Continues
<1> QED BY <1>1, RowsInvIsInvariant, PTL

----------------------------------------------------------------------------
(* The PC constraints *)

(* A jump or branch of the code below the top of the address space, with   *)
(* forward offsets and links, leaves an acceptable row.                    *)
LEMMA BodyZero ==
  ASSUME NEW q \in Word, NEW Span \in Nat, Span >= 4, q + Span < 2^WordBits,
         Offsets \subseteq 0 .. Span, Links \subseteq {1},
         NEW item \in execute(q)
  PROVE  Body([item EXCEPT !.pc = q, !.next_pc = item.next_pc]) = 0
<1>1. q \in Nat /\ 2^WordBits \in Nat
  BY WordBounds
<1>2. ASSUME NEW d \in 0 .. Span
      PROVE  d \in Nat /\ Wrap(d) = d /\ Wrap(q + d) = q + d /\ q + d \in Nat
  <2>1. d \in Nat /\ q + d \in Nat /\ d < 2^WordBits /\ q + d < 2^WordBits
    BY <1>1
  <2> QED BY <2>1, WrapSmall
<1>3. InsnLens \subseteq 0 .. Span
  BY DEF InsnLens
<1>4. \A len \in InsnLens : Wrap(q + len) = q + len /\ len \in Nat
  BY <1>2, <1>3
<1>5. \A off \in Offsets : Wrap(q + off) = q + off /\ Wrap(off) = off /\ off \in Nat
  BY <1>2
<1> DEFINE r == [item EXCEPT !.pc = q, !.next_pc = item.next_pc]
<1>7. CASE item \in Sequential(q)
  <2>1. PICK len \in InsnLens : item = Row("sequential", len, Wrap(q + len))
    BY <1>7 DEF Sequential
  <2>2. /\ r.kind = "sequential" /\ r.pc = q /\ r.insn_len = len
        /\ r.next_pc = q + len
    BY <1>4, <2>1 DEF Row
  <2> HIDE DEF r
  <2>3. Body(r) = q + len - (q + len)
    BY <1>1, <1>4, <2>2 DEF Body
  <2> QED BY <1>1, <1>4, <2>3 DEF r
<1>8. CASE item \in Branch(q)
  <2> DEFINE F(len, off, aux1) ==
               [Row("branch", len, Wrap(q + (IF aux1 = 0 THEN off ELSE len)))
                  EXCEPT !.immediate = Wrap(off), !.aux1 = aux1]
  <2>0. Branch(q) = {F(len, off, aux1) : len \in InsnLens, off \in Offsets, aux1 \in {0, 1}}
    BY DEF Branch
  <2> HIDE DEF F
  <2>1. PICK len \in InsnLens, off \in Offsets, aux1 \in {0, 1} :
          item = F(len, off, aux1)
    BY <1>8, <2>0
  <2>2. /\ r.kind = "branch" /\ r.pc = q /\ r.insn_len = len
        /\ r.immediate = off /\ r.aux1 = aux1
        /\ r.next_pc = IF aux1 = 0 THEN q + off ELSE q + len
    <3>1. Wrap(q + (IF aux1 = 0 THEN off ELSE len)) = IF aux1 = 0 THEN q + off ELSE q + len
      BY <1>4, <1>5
    <3> QED BY <1>5, <2>1, <3>1 DEF F, Row
  <2> HIDE DEF r
  <2>3. Body(r) = LET taken == r.next_pc - (q + off)
                      not_taken == r.next_pc - (q + len)
                  IN  taken * not_taken + not_taken * aux1 + taken * (1 - aux1)
    BY <2>2 DEF Body
  <2>4. \A t \in Int : 0 * t + t * 0 + 0 * (1 - 0) = 0 /\ t * 0 + 0 * 1 + t * (1 - 1) = 0
    OBVIOUS
  <2>5. q + off \in Nat /\ q + len \in Nat
    BY <1>1, <1>4, <1>5
  <2>6. CASE aux1 = 0
    <3>1. r.next_pc - (q + off) = 0 /\ r.next_pc - (q + len) \in Int
      BY <2>2, <2>5, <2>6
    <3> QED BY <2>3, <2>4, <2>6, <3>1 DEF r
  <2>7. CASE aux1 = 1
    <3>1. r.next_pc - (q + len) = 0 /\ r.next_pc - (q + off) \in Int
      BY <2>2, <2>5, <2>7
    <3> QED BY <2>3, <2>4, <2>7, <3>1 DEF r
  <2> QED BY <2>6, <2>7
<1>9. CASE item \in Jal(q)
  <2> DEFINE F(len, off, link) ==
               [Row("jal", len, Wrap(q + off))
                  EXCEPT !.immediate = Wrap(off), !.rd_val_after = link * Wrap(q + len)]
  <2>0. Jal(q) = {F(len, off, link) : len \in InsnLens, off \in Offsets, link \in Links}
    BY DEF Jal
  <2> HIDE DEF F
  <2>1. PICK len \in InsnLens, off \in Offsets, link \in Links : item = F(len, off, link)
    BY <1>9, <2>0
  <2>2. link * Wrap(q + len) = q + len
    BY <1>1, <1>4
  <2>3. /\ r.kind = "jal" /\ r.pc = q /\ r.insn_len = len /\ r.immediate = off
        /\ r.next_pc = q + off /\ r.rd_val_after = q + len
    BY <1>5, <2>1, <2>2 DEF F, Row
  <2> HIDE DEF r
  <2>4. Body(r) = q + len - (q + len) + (q + off - (q + off))
    BY <1>1, <1>4, <1>5, <2>3 DEF Body
  <2> QED BY <1>1, <1>4, <1>5, <2>4 DEF r
<1>10. CASE item \in Jalr(q)
  <2> DEFINE F(len, rs1, link) ==
               [Row("jalr", len, rs1 - (rs1 % 2))
                  EXCEPT !.rs1_val = rs1, !.aux1 = rs1 % 2,
                         !.rd_val_after = link * Wrap(q + len)]
  <2>0. Jalr(q) = {F(len, rs1, link) : len \in InsnLens, rs1 \in Targets, link \in Links}
    BY DEF Jalr
  <2> HIDE DEF F
  <2>1. PICK len \in InsnLens, rs1 \in Targets, link \in Links : item = F(len, rs1, link)
    BY <1>10, <2>0
  <2>2. link * Wrap(q + len) = q + len
    BY <1>1, <1>4
  <2>3. /\ r.kind = "jalr" /\ r.pc = q /\ r.insn_len = len /\ r.immediate = 0
        /\ r.rs1_val = rs1 /\ r.aux1 = rs1 % 2
        /\ r.next_pc = rs1 - (rs1 % 2) /\ r.rd_val_after = q + len
    BY <2>1, <2>2 DEF F, Row
  <2>4. rs1 \in Nat /\ rs1 % 2 \in Nat
    BY WordAssumption, WordBounds
  <2> HIDE DEF r
  <2>5. Body(r) = q + len - (q + len) + (rs1 - (rs1 % 2)) - (rs1 + 0 - (rs1 % 2))
    BY <1>1, <1>4, <2>3, <2>4 DEF Body
  <2>6. \A b \in Nat : q + len - (q + len) + (rs1 - b) - (rs1 + 0 - b) = 0
    BY <1>1, <1>4, <2>4
  <2> QED BY <2>4, <2>5, <2>6 DEF r
<1>11. CASE item \in System(q)
  <2>1. r.kind = "system"
    BY <1>11 DEF System, Row
  <2> QED BY <2>1 DEF Body
<1> QED BY <1>7, <1>8, <1>9, <1>10, <1>11 DEF execute

(* Where execution goes: to a target or at most Span further. *)
LEMMA ExecuteStays ==
  ASSUME NEW q \in Word, NEW Top \in Nat, NEW Span \in Nat, Span >= 4,
         q + Span < 2^WordBits, Offsets \subseteq 0 .. Span,
         Targets \subseteq 0 .. Top, NEW item \in execute(q)
  PROVE  item.next_pc <= Top \/ item.next_pc <= q + Span
<1>1. q \in Nat /\ 2^WordBits \in Nat
  BY WordBounds
<1>2. ASSUME NEW d \in 0 .. Span PROVE Wrap(q + d) <= q + Span
  <2>1. q + d \in Nat /\ q + d < 2^WordBits
    BY <1>1
  <2>2. Wrap(q + d) = q + d
    BY <2>1, WrapSmall
  <2> QED BY <1>1, <2>2
<1>3. \A d \in InsnLens \union Offsets : Wrap(q + d) <= q + Span
  BY <1>2 DEF InsnLens
<1>4. CASE item \in Sequential(q)
  BY <1>3, <1>4 DEF Sequential, Row
<1>5. CASE item \in Branch(q)
  <2> DEFINE F(len, off, aux1) ==
               [Row("branch", len, Wrap(q + (IF aux1 = 0 THEN off ELSE len)))
                  EXCEPT !.immediate = Wrap(off), !.aux1 = aux1]
  <2>1. Branch(q) = {F(len, off, aux1) : len \in InsnLens, off \in Offsets, aux1 \in {0, 1}}
    BY DEF Branch
  <2> HIDE DEF F
  <2>2. PICK len \in InsnLens, off \in Offsets, aux1 \in {0, 1} :
          item = F(len, off, aux1)
    BY <1>5, <2>1
  <2>3. Wrap(q + (IF aux1 = 0 THEN off ELSE len)) <= q + Span
    BY <1>3
  <2> QED BY <2>2, <2>3 DEF F, Row
<1>6. CASE item \in Jal(q)
  <2> DEFINE F(len, off, link) ==
               [Row("jal", len, Wrap(q + off))
                  EXCEPT !.immediate = Wrap(off), !.rd_val_after = link * Wrap(q + len)]
  <2>1. Jal(q) = {F(len, off, link) : len \in InsnLens, off \in Offsets, link \in Links}
    BY DEF Jal
  <2> HIDE DEF F
  <2>2. PICK len \in InsnLens, off \in Offsets, link \in Links : item = F(len, off, link)
    BY <1>6, <2>1
  <2> QED BY <1>3, <2>2 DEF F, Row
<1>7. CASE item \in Jalr(q)
  <2> DEFINE F(len, rs1, link) ==
               [Row("jalr", len, rs1 - (rs1 % 2))
                  EXCEPT !.rs1_val = rs1, !.aux1 = rs1 % 2,
                         !.rd_val_after = link * Wrap(q + len)]
  <2>1. Jalr(q) = {F(len, rs1, link) : len \in InsnLens, rs1 \in Targets, link \in Links}
    BY DEF Jalr
  <2> HIDE DEF F
  <2>2. PICK len \in InsnLens, rs1 \in Targets, link \in Links : item = F(len, rs1, link)
    BY <1>7, <2>1
  <2>3. rs1 - (rs1 % 2) <= Top
    BY <2>2
  <2> QED BY <2>2, <2>3 DEF F, Row
<1>8. CASE item \in System(q)
  <2>1. PICK next \in Targets \union {Wrap(q + 4)} : item.next_pc = next
    BY <1>8 DEF System, Row
  <2>2. Wrap(q + 4) <= q + Span
    BY <1>2
  <2> QED BY <2>1, <2>2
<1> QED BY <1>4, <1>5, <1>6, <1>7, <1>8 DEF execute

(* Rows that satisfy the PC constraint, but for the steps that trapped *)
Accepted(s, t) == \A i \in 1 .. Len(s) : i \notin t => Body(s[i]) = 0

(* The code stays low: the pc has moved at most Span beyond Top per row. *)
LowInv(Top, Span) ==
  /\ Accepted(rows, trapped) /\ Accepted(columns, trapped)
  /\ cpu_pc <= Top + Len(rows) * Span

(* Where every target and the handler lie below Top, offsets are forward   *)
(* and at most Span, jumps link, and the address space has room for        *)
(* MaxRows steps beyond Top, only the steps that trapped break a PC        *)
(* constraint: compressed lengths, links, odd targets, untaken branches    *)
(* and padding agree with the field equations of control_flow.rs.          *)
THEOREM RowsAccepted ==
  ASSUME NEW Top \in Nat, NEW Span \in Nat, Span >= 4, Links \subseteq {1},
         Offsets \subseteq 0 .. Span, Targets \subseteq 0 .. Top, Handler <= Top,
         Top + MaxRows * Span < 2^WordBits
  PROVE  RowsSpec => []RowsBreakOnlyAtTraps
<1> DEFINE J == LowInv(Top, Span)
<1>0. Handler \in Nat /\ \A t \in Targets : t \in Nat /\ t <= Top
  BY WordAssumption, WordBounds
<1>1. RowsInit => J
  <2> SUFFICES ASSUME RowsInit PROVE J
    OBVIOUS
  <2>1. rows = <<>> /\ columns = <<>> /\ cpu_pc <= Top /\ cpu_pc \in Nat
    BY <1>0 DEF RowsInit
  <2>2. Len(rows) = 0 /\ Len(columns) = 0
    BY <2>1
  <2>3. cpu_pc <= Top + Len(rows) * Span
    BY <2>1, <2>2
  <2> QED BY <2>2, <2>3 DEF LowInv, Accepted
<1>2. RowsInv /\ J /\ [RowsNext]_rowVars => J'
  <2> SUFFICES ASSUME RowsInv, J, [RowsNext]_rowVars PROVE J'
    OBVIOUS
  <2>1. /\ rows \in Seq(TraceRow) /\ Len(rows) \in Nat
        /\ cpu_pc \in Word /\ cpu_pc \in Nat
        /\ Len(rows) * Span \in Nat
    <3>1. rows \in Seq(TraceRow) /\ Len(rows) \in Nat /\ cpu_pc \in Word
      BY DEF RowsInv
    <3>2. \A n \in Nat : n * Span \in Nat
      OBVIOUS
    <3> QED BY <3>1, <3>2, WordBounds
  <2>2. CASE Step
    <3>1. PICK interrupted \in BOOLEAN, faults \in BOOLEAN :
           /\ interrupted => Privileged
           /\ \E item \in execute(IF interrupted THEN Handler ELSE cpu_pc) :
              LET next == IF faults THEN FaultPc ELSE item.next_pc
              IN  /\ rows' = Append(rows, [item EXCEPT !.pc = cpu_pc, !.next_pc = next])
                  /\ cpu_pc' = next
                  /\ trapped' = IF interrupted \/ faults
                                THEN trapped \union {Len(rows) + 1} ELSE trapped
      BY <2>2 DEF Step
    <3> DEFINE q == IF interrupted THEN Handler ELSE cpu_pc
    <3>2. PICK item \in execute(q) :
            /\ rows' = Append(rows, [item EXCEPT !.pc = cpu_pc,
                                                !.next_pc = IF faults THEN FaultPc
                                                            ELSE item.next_pc])
            /\ cpu_pc' = IF faults THEN FaultPc ELSE item.next_pc
            /\ trapped' = IF interrupted \/ faults
                          THEN trapped \union {Len(rows) + 1} ELSE trapped
      BY <3>1
    <3>3. Len(rows) < MaxRows /\ columns' = columns
      BY <2>2 DEF Step
    <3>4. (Len(rows) + 1) * Span = Len(rows) * Span + Span
            /\ (Len(rows) + 1) * Span <= MaxRows * Span
      <4>1. \A m, n \in Nat : n < m => /\ (n + 1) * Span = n * Span + Span
                                       /\ (n + 1) * Span <= m * Span
        <5>1. ASSUME NEW m \in Nat, NEW n \in Nat, n < m
              PROVE  (n + 1) * Span <= m * Span
          <6>1. m - (n + 1) \in Nat
            BY <5>1
          <6>2. (m - (n + 1)) * Span \in Nat
            BY <6>1
          <6>3. m * Span = (n + 1) * Span + (m - (n + 1)) * Span
            BY Distribute
          <6>4. m * Span \in Nat /\ (n + 1) * Span \in Nat
            OBVIOUS
          <6> QED BY <6>2, <6>3, <6>4
        <5>2. \A n \in Nat : (n + 1) * Span = n * Span + Span
          OBVIOUS
        <5> QED BY <5>1, <5>2
      <4> QED BY <2>1, <3>3, <4>1, DomainAssumption
    <3>5. q \in Word /\ q \in Nat /\ q + Span < 2^WordBits
          /\ q <= Top + Len(rows) * Span
      <4>1. MaxRows * Span \in Nat
        <5>1. \A n \in Nat : n * Span \in Nat
          OBVIOUS
        <5> QED BY <5>1, DomainAssumption
      <4>2. q \in Word /\ q \in Nat /\ q <= Top + Len(rows) * Span
        BY <1>0, <2>1, WordAssumption DEF LowInv
      <4> HIDE DEF q
      <4>3. \A x, y, w, z \in Nat :
               /\ q <= Top + x /\ y = x + Span /\ y <= z /\ Top + z < w
               => q + Span < w
        BY <4>2
      <4>4. (Len(rows) + 1) * Span \in Nat /\ 2^WordBits \in Nat
        BY <2>1, <3>4, WordBounds
      <4> QED BY <2>1, <3>4, <4>1, <4>2, <4>3, <4>4
    <3> HIDE DEF q
    <3>6. item \in TraceRow /\ item.next_pc \in Nat
      BY <3>5, ExecuteTypes, WordBounds DEF TraceRow
    <3>7. item.next_pc <= Top \/ item.next_pc <= q + Span
      BY <3>5, ExecuteStays
    <3>8. cpu_pc' <= Top + (Len(rows) + 1) * Span
      <4>1. \A x, y, p \in Nat :
               /\ q <= Top + x /\ y = x + Span
               /\ p <= Top \/ p <= q + Span
               => p <= Top + y
        BY <3>5
      <4>2. cpu_pc' \in Nat /\ (cpu_pc' <= Top \/ cpu_pc' <= q + Span)
        <5>1. CASE ~faults
          BY <3>2, <3>6, <3>7, <5>1
        <5>2. CASE faults /\ Privileged
          BY <1>0, <3>2, <5>2 DEF FaultPc
        <5>3. CASE faults /\ ~Privileged
          BY <2>1, <3>1, <3>2, <5>3 DEF FaultPc, q
        <5> QED BY <5>1, <5>2, <5>3
      <4>3. (Len(rows) + 1) * Span \in Nat
        BY <2>1, <3>4
      <4> QED BY <2>1, <3>4, <3>5, <4>1, <4>2, <4>3
    <3> DEFINE r == [item EXCEPT !.pc = cpu_pc,
                                !.next_pc = IF faults THEN FaultPc ELSE item.next_pc]
    <3>9. r \in TraceRow
      BY <2>1, <3>6, WordAssumption DEF TraceRow, FaultPc
    <3>10. ~interrupted /\ ~faults => Body(r) = 0
      <4> SUFFICES ASSUME ~interrupted, ~faults PROVE Body(r) = 0
        OBVIOUS
      <4>1. q = cpu_pc
        BY DEF q
      <4>2. Body([item EXCEPT !.pc = q, !.next_pc = item.next_pc]) = 0
        BY <3>5, BodyZero
      <4>3. r = [item EXCEPT !.pc = q, !.next_pc = item.next_pc]
        BY <4>1, Zenon
      <4> QED BY <4>2, <4>3, Zenon
    <3>11. rows' = Append(rows, r)
      BY <3>2, Zenon
    <3> HIDE DEF r
    <3>12. /\ Len(rows') = Len(rows) + 1
           /\ \A i \in 1 .. Len(rows) : rows'[i] = rows[i]
           /\ rows'[Len(rows) + 1] = r
      BY <2>1, <3>9, <3>11
    <3>13. trapped \subseteq trapped'
           /\ (interrupted \/ faults => Len(rows) + 1 \in trapped')
      BY <3>2
    <3>14. ASSUME NEW i \in 1 .. Len(rows'), i \notin trapped'
           PROVE  Body(rows'[i]) = 0
      <4>1. CASE i = Len(rows) + 1
        BY <3>10, <3>12, <3>13, <3>14, <4>1
      <4>2. CASE i # Len(rows) + 1
        <5>1. i \in 1 .. Len(rows)
          BY <2>1, <3>12, <4>2
        <5>2. Body(rows[i]) = 0
          BY <3>13, <3>14, <5>1 DEF LowInv, Accepted
        <5> QED BY <3>12, <5>1, <5>2
      <4> QED BY <4>1, <4>2
    <3>15. Accepted(rows', trapped')
      BY <3>14 DEF Accepted
    <3>16. Accepted(columns', trapped')
      BY <3>3, <3>13 DEF LowInv, Accepted
    <3> QED BY <3>8, <3>12, <3>15, <3>16 DEF LowInv
  <2>3. CASE FetchTrap
    <3>1. rows' = rows /\ columns' = columns /\ trapped' = trapped /\ cpu_pc' = Handler
      BY <2>3 DEF FetchTrap
    <3>2. \A x \in Nat : Handler <= Top + x
      BY <1>0
    <3>3. Handler <= Top + Len(rows) * Span
      BY <2>1, <3>2
    <3> QED BY <3>1, <3>3 DEF LowInv
  <2>4. CASE StepFails
    BY <2>4 DEF StepFails, LowInv
  <2>5. CASE Prove
    <3>1. PaddedTo(rows, columns')
      BY <2>1, <2>5, ProvePads
    <3>2. rows' = rows /\ trapped' = trapped /\ cpu_pc' = cpu_pc
      BY <2>5 DEF Prove
    <3>3. ASSUME NEW i \in 1 .. Len(columns'), i \notin trapped
          PROVE  Body(columns'[i]) = 0
      <4>1. CASE i \in 1 .. Len(rows)
        <5>1. columns'[i] = rows[i]
          BY <3>1, <4>1 DEF PaddedTo
        <5> QED BY <3>3, <4>1, <5>1 DEF LowInv, Accepted
      <4>2. CASE i \notin 1 .. Len(rows)
        <5>1. i \in Len(rows) + 1 .. Len(columns')
          <6>1. Len(columns') \in Nat
            BY <3>1 DEF PaddedTo
          <6> QED BY <2>1, <4>2, <6>1
        <5>2. columns'[i].kind = "system"
          BY <3>1, <5>1 DEF PaddedTo
        <5> QED BY <5>2 DEF Body
      <4> QED BY <4>1, <4>2
    <3>4. Accepted(columns', trapped')
      BY <3>2, <3>3 DEF Accepted
    <3> QED BY <3>2, <3>4 DEF LowInv
  <2>6. CASE UNCHANGED rowVars
    BY <2>6 DEF rowVars, LowInv
  <2> QED BY <2>2, <2>3, <2>4, <2>5, <2>6 DEF RowsNext, Done
<1>3. J => RowsBreakOnlyAtTraps
  BY DEF LowInv, Accepted, RowsBreakOnlyAtTraps
<1> HIDE DEF J
<1> QED BY <1>1, <1>2, <1>3, RowsInvIsInvariant, PTL DEF RowsSpec

----------------------------------------------------------------------------
(* The composition that TLC runs *)

(* A behaviour of the composed execution is one of the hart, of the rows   *)
(* of a chunk and of the frames of a block, so what is proved of a part    *)
(* holds of the runs' specification.                                       *)
THEOREM ExecutionRunsParts == ExecutionSpec => Spec /\ RowsSpec /\ FramesSpec
<1>1. ExecutionInit => Init /\ RowsInit /\ FramesInit
  BY DEF ExecutionInit
<1>2. [ExecutionNext]_executionVars => [Next]_vars
  BY DEF ExecutionNext, executionVars
<1>3. [ExecutionNext]_executionVars => [RowsNext]_rowVars
  BY DEF ExecutionNext, executionVars
<1>4. [ExecutionNext]_executionVars => [FramesNext]_frameVars
  BY DEF ExecutionNext, executionVars
<1> QED BY <1>1, <1>2, <1>3, <1>4, PTL DEF ExecutionSpec, Spec, RowsSpec, FramesSpec
=============================================================================
