------------------------------ MODULE TraceRows ------------------------------
(***************************************************************************)
(* From an executed chunk to the PC columns of its proof: each step of the *)
(* VM leaves a TraceRow, the rows become columns that are padded to the    *)
(* domain size, and the proof exists only if every row satisfies the PC    *)
(* constraints and every two neighbours satisfy PC continuity.             *)
(*                                                                         *)
(* A machine word has WordBits bits and wraps; a column entry is a field   *)
(* element and does not: the scalar fields are far larger than any sum     *)
(* below, so a constraint holds in the field iff it does in the integers.  *)
(* The guest is nondeterministic.                                          *)
(***************************************************************************)
EXTENDS Integers, Sequences

CONSTANTS
  WordBits,    \* bits of a machine word (64)
  Offsets,     \* branch and JAL offsets that occur
  Targets,     \* addresses that JALR, MRET or SRET may go to
  Links,       \* destination registers of JAL and JALR: 0 for x0, 1 for others
  Privileged,  \* Vm.privileged: TRUE for prove-boot, FALSE for prove-elf
  Handler,     \* the trap handler's entry
  MinDomain,   \* the smallest domain (16, or 256 with the range table)
  MaxRows      \* bound: rows of a chunk

Word == 0 .. 2^WordBits - 1

ASSUME WordAssumption == WordBits \in Nat /\ Targets \subseteq Word /\ Handler \in Word
ASSUME OffsetsAssumption == Offsets \subseteq Int /\ Links \subseteq {0, 1}
ASSUME DomainAssumption == MinDomain \in Nat \ {0} /\ MaxRows \in Nat
ASSUME PrivilegedAssumption == Privileged \in BOOLEAN

VARIABLES
  cpu_pc,   \* Vm.cpu.pc
  rows,     \* TracingVmBorrowed.trace
  columns,  \* the padded columns, row by row, once the chunk is proved
  phase,    \* "run", "proved", or "failed" after a VmError
  gaps,     \* history: the row numbers after which a trap left no row
  trapped   \* history: rows of steps that took or passed over a trap

rowVars == <<cpu_pc, rows, columns, phase, gaps, trapped>>

Wrap(n) == n % 2^WordBits
InsnLens == {2, 4}
Kinds == {"sequential", "branch", "jal", "jalr", "system"}

TraceRow == [pc : Word, kind : Kinds, insn_len : Nat, immediate : Word,
             rs1_val : Word, rd_val_after : Word, aux1 : {0, 1}, next_pc : Word]

RowsInit ==
  /\ cpu_pc \in {t \in Targets : t % 2 = 0}
  /\ rows = <<>>
  /\ columns = <<>>
  /\ phase = "run"
  /\ gaps = {}
  /\ trapped = {}

----------------------------------------------------------------------------
(* execute at address q: the rows the instructions leave, with the entries *)
(* that their PC constraints do not look at left zero.                     *)

Row(kind, len, next) ==
  [pc |-> 0, kind |-> kind, insn_len |-> len, immediate |-> 0, rs1_val |-> 0,
   rd_val_after |-> 0, aux1 |-> 0, next_pc |-> next]

(* ALU, load, store, CSR and atomic instructions *)
Sequential(q) == {Row("sequential", len, Wrap(q + len)) : len \in InsnLens}

(* BEQ; aux1 is 0 iff the branch is taken.  The other branches differ in   *)
(* the polarity of aux1 only.                                              *)
Branch(q) ==
  {[Row("branch", len, Wrap(q + (IF aux1 = 0 THEN off ELSE len)))
      EXCEPT !.immediate = Wrap(off), !.aux1 = aux1] :
     len \in InsnLens, off \in Offsets, aux1 \in {0, 1}}

(* Faulty variant of Jal: the link ignores compressed instructions. *)
Bad_Jal(q) ==
  {[Row("jal", len, Wrap(q + off))
      EXCEPT !.immediate = Wrap(off), !.rd_val_after = link * Wrap(q + 4)] :
     len \in InsnLens, off \in Offsets, link \in Links}

(* A write to x0 is dropped, so that rd_val_after is then 0. *)
Jal(q) ==
  {[Row("jal", len, Wrap(q + off))
      EXCEPT !.immediate = Wrap(off), !.rd_val_after = link * Wrap(q + len)] :
     len \in InsnLens, off \in Offsets, link \in Links}

(* The target loses its lowest bit, which aux1 keeps. *)
Jalr(q) ==
  {[Row("jalr", len, rs1 - (rs1 % 2))
      EXCEPT !.rs1_val = rs1, !.aux1 = rs1 % 2,
             !.rd_val_after = link * Wrap(q + len)] :
     len \in InsnLens, rs1 \in Targets, link \in Links}

(* FENCE, WFI and a system call go on; MRET and SRET jump. *)
System(q) ==
  {Row("system", 4, next) : next \in Targets \union {Wrap(q + 4)}}

execute(q) ==
  Sequential(q) \union Branch(q) \union Jal(q) \union Jalr(q) \union System(q)

----------------------------------------------------------------------------
(* TracingVmBorrowed::step: pc_before is read before Vm::step, which polls *)
(* for interrupts before it fetches.  In the privileged VM a load, store,  *)
(* atomic, CSR or system instruction may deliver a trap as it executes;    *)
(* without privileges the failed read of a CSR is passed over, and the pc  *)
(* stays.                                                                  *)
FaultPc == IF Privileged THEN Handler ELSE cpu_pc
MayFault(row) ==
  IF Privileged THEN row.kind \in {"sequential", "system"}
  ELSE row.kind = "sequential" /\ row.insn_len = 4

Step ==
  /\ phase = "run"
  /\ Len(rows) < MaxRows
  /\ \E interrupted \in IF Privileged THEN BOOLEAN ELSE {FALSE}, faults \in BOOLEAN :
       \E row \in execute(IF interrupted THEN Handler ELSE cpu_pc) :
         LET next == IF faults THEN FaultPc ELSE row.next_pc
         IN  /\ faults => MayFault(row)
             /\ rows' = Append(rows, [row EXCEPT !.pc = cpu_pc, !.next_pc = next])
             /\ cpu_pc' = next
             /\ trapped' = IF interrupted \/ faults
                           THEN trapped \union {Len(rows) + 1} ELSE trapped
  /\ UNCHANGED <<columns, phase, gaps>>

(* A page fault or an illegal instruction at the fetch: last_fetched is    *)
(* None and no row is left.                                                *)
FetchTrap ==
  /\ phase = "run"
  /\ Privileged
  /\ cpu_pc' = Handler
  /\ gaps' = gaps \union {Len(rows)}
  /\ UNCHANGED <<rows, columns, phase, trapped>>

(* A VmError (without traps: a bad fetch, EBREAK) abandons the chunk. *)
StepFails ==
  /\ phase = "run"
  /\ phase' = "failed"
  /\ UNCHANGED <<cpu_pc, rows, columns, gaps, trapped>>

(* The smallest domain that holds n rows *)
nearest_power_of_two(n) ==
  CHOOSE size \in {MinDomain * 2^k : k \in 0 .. n} :
    /\ size >= n
    /\ \A k \in 0 .. n : MinDomain * 2^k >= n => size <= MinDomain * 2^k

(* Padding rows hold zeros, except that padding_selector_column selects    *)
(* "system" in them.                                                       *)
PaddingRow == Row("system", 0, 0)

(* Faulty variant of fix_trace_padding: padding repeats the last pc. *)
Bad_fix_trace_padding(padding) ==
  IF rows = <<>> THEN padding
  ELSE LET last == rows[Len(rows)]
       IN  [i \in DOMAIN padding |->
              [padding[i] EXCEPT !.pc = last.pc, !.next_pc = last.pc]]

(* Padding rows continue at the last next_pc. *)
fix_trace_padding(padding) ==
  IF rows = <<>> THEN padding
  ELSE LET last == rows[Len(rows)]
       IN  [i \in DOMAIN padding |->
              [padding[i] EXCEPT !.pc = last.next_pc, !.next_pc = last.next_pc]]

(* prove_chunk_with_scheme, as far as commit_main_columns_phase1 *)
Prove ==
  /\ phase = "run"
  /\ phase' = "proved"
  /\ LET size == nearest_power_of_two(Len(rows))
         padding == [i \in 1 .. size - Len(rows) |-> PaddingRow]
     IN  columns' = rows \o fix_trace_padding(padding)
  /\ UNCHANGED <<cpu_pc, rows, gaps, trapped>>

Done == phase # "run" /\ UNCHANGED rowVars

RowsNext == Step \/ FetchTrap \/ StepFails \/ Prove \/ Done

RowsSpec == RowsInit /\ [][RowsNext]_rowVars

----------------------------------------------------------------------------
(* The constraint system *)

(* Constraints 0 and 4 to 11: the body a row's selector picks, zero iff    *)
(* the row is accepted.                                                    *)
Body(r) ==
  LET taken == r.next_pc - (r.pc + r.immediate)
      not_taken == r.next_pc - (r.pc + r.insn_len)
      rd_check == r.rd_val_after - (r.pc + r.insn_len)
  IN  CASE r.kind = "sequential" -> not_taken
        [] r.kind = "branch" -> taken * not_taken + not_taken * r.aux1
                                  + taken * (1 - r.aux1)
        [] r.kind = "jal" -> rd_check + taken
        [] r.kind = "jalr" -> rd_check + r.next_pc
                                - (r.rs1_val + r.immediate - r.aux1)
        [] r.kind = "system" -> 0

----------------------------------------------------------------------------
(* Properties *)

Continues(i) == columns[i + 1].pc = columns[i].next_pc

(* Only a trap at the fetch breaks the chain of rows: everywhere else each *)
(* row of the padded columns starts where the one before it went, at the   *)
(* seam between the last row and the padding and in the padding, too, and  *)
(* also for chunks whose last step left no row.                            *)
ContinuityBreaksOnlyAtTraps ==
  \A i \in 1 .. Len(columns) - 1 : i \notin gaps => Continues(i)

(* With forward offsets, linking jumps and code below the top of the       *)
(* address space, only a row whose step took a trap, or passed one over,   *)
(* fails the PC constraint of its selector: compressed lengths, links, odd *)
(* jump targets and untaken branches agree with the field equations,       *)
(* padding included.                                                       *)
RowsBreakOnlyAtTraps ==
  \A i \in 1 .. Len(columns) : i \notin trapped => Body(columns[i]) = 0

(* The shifted constraint holds on the columns of every executed chunk     *)
(* (README: "PC continuity (pc(omega*X) - next_pc(X) = 0) is enforced";    *)
(* fix_trace_padding: "ensures the cross-row constraint pc[i+1] ==         *)
(* next_pc[i] is satisfied").                                              *)
PcContinuity == \A i \in 1 .. Len(columns) - 1 : Continues(i)

(* The jumps the VM records satisfy the PC constraints of their selectors  *)
(* (control_flow.rs: "JAL: rd_val_after == pc + insn_len (link register),  *)
(* next_pc == pc + immediate").                                            *)
RowsSatisfyPcConstraints ==
  \A i \in 1 .. Len(columns) :
    columns[i].kind \in {"branch", "jal", "jalr"} => Body(columns[i]) = 0

=============================================================================
