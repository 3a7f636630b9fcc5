--------------------------- MODULE MemoryArgument ---------------------------
(***************************************************************************)
(* The memory permutation argument, from the instructions that make the    *)
(* accesses to the constraints on the sorted columns: what each of the two *)
(* tracers records in mem_addr and mem_val, how the prover turns the rows  *)
(* into accesses and sorts them, and which sorted columns satisfy the      *)
(* constraints.                                                            *)
(*                                                                         *)
(* A double is two cells of one bit, so that one load or store can touch   *)
(* half of what another one does; every access starts at cell 0 or 1.      *)
(***************************************************************************)
EXTENDS Naturals, Sequences, FiniteSets

CONSTANTS
  Instructions,  \* the memory instructions of the guest program
  Operands,      \* values of rs2
  Discards,      \* whether a result may go to x0: BOOLEAN, or {FALSE}
  Tracers,       \* "owned" (TracingVm) and "borrowed" (TracingVmBorrowed)
  MaxAccesses,   \* bound: the rows of a trace
  Padded         \* the padded size of the trace

Bytes == 0 .. 1
Doubles == 0 .. 3
DoubleOps == {"LD", "SD", "LR", "SC", "AMOADD"}
ByteOps == {"LB", "LBU", "SB"}
Reads == {"LD", "LB", "LBU", "LR"}

ASSUME MemoryAssumption ==
  /\ Instructions \subseteq DoubleOps \union ByteOps
  /\ Discards \subseteq BOOLEAN
  /\ Operands \subseteq Doubles /\ Tracers \subseteq {"owned", "borrowed"}
  /\ MaxAccesses \in Nat /\ Padded \in Nat /\ MaxAccesses < Padded

VARIABLES
  tracer,    \* which tracer records the rows
  cells,     \* guest memory
  reserved,  \* whether LR's reservation on the double is held
  rows,      \* the trace: addr, val and op of every row
  truth      \* history: what each access really did

memVars == <<tracer, cells, reserved, rows, truth>>

MemInit ==
  /\ tracer \in Tracers
  /\ cells \in {<<0, 0>>, <<1, 1>>}
  /\ reserved = FALSE
  /\ rows = <<>> /\ truth = <<>>

----------------------------------------------------------------------------
(* The instructions *)

Size(op) == IF op \in DoubleOps THEN 2 ELSE 1
Content(mem, a, size) == IF size = 2 THEN mem[1] + 2 * mem[2] ELSE mem[a + 1]
Store(mem, a, size, v) ==
  IF size = 2 THEN <<v % 2, v \div 2>> ELSE [mem EXCEPT ![a + 1] = v % 2]

(* LB extends the sign of what it loads. *)
Loaded(op, v) == IF op = "LB" /\ v = 1 THEN 3 ELSE v

(* Faulty variant: the sum of an AMO keeps its carry. *)
Bad_compute_mem_val(op, rd_val_after, rs2_val) ==
  IF op = "AMOADD" THEN rd_val_after + rs2_val ELSE rs2_val

(* compute_mem_val, for the instructions modelled here *)
compute_mem_val(op, rd_val_after, rs2_val) ==
  IF op = "AMOADD" THEN (rd_val_after + rs2_val) % 4 ELSE rs2_val

(* The value either tracer records; rd_val_after is read back from the     *)
(* register file, where x0 is zero.                                        *)
mem_val(op, rd_val_after, rs2_val) ==
  IF op \in Reads THEN rd_val_after
  ELSE IF tracer = "owned" THEN compute_mem_val(op, rd_val_after, rs2_val)
  ELSE rs2_val

(* One traced instruction with effective address a, source value rs2 and   *)
(* destination x0 or not                                                   *)
Access(op, a, rs2, x0) ==
  LET old == Content(cells, a, Size(op))
      stores == op \in {"SD", "SB", "AMOADD"} \/ (op = "SC" /\ reserved)
      new == IF op = "AMOADD" THEN (old + rs2) % 4 ELSE rs2
      rd == IF op = "SC" THEN (IF reserved THEN 0 ELSE 1) ELSE Loaded(op, old)
      rd_val_after == IF x0 THEN 0 ELSE rd
  IN  /\ cells' = IF stores THEN Store(cells, a, Size(op), new) ELSE cells
      /\ reserved' = CASE op = "LR" -> TRUE
                       [] op = "SC" \/ stores -> FALSE
                       [] OTHER -> reserved
      /\ rows' = Append(rows, [addr |-> a, val |-> mem_val(op, rd_val_after, rs2),
                               op |-> op])
      /\ truth' = Append(truth, [size |-> Size(op), old |-> old, rs2 |-> rs2, x0 |-> x0,
                                 stores |-> stores, val |-> Content(cells', a, Size(op))])

(* Loads, LR and AMOs may discard their result in x0. *)
MemAccess ==
  /\ Len(rows) < MaxAccesses
  /\ \E op \in Instructions, a \in 0 .. 1, rs2 \in Operands, x0 \in Discards :
       /\ op \in DoubleOps => a = 0
       /\ op \in Reads => rs2 = 1
       /\ x0 => op \in {"LD", "LR", "AMOADD"}
       /\ Access(op, a, rs2, x0)
  /\ UNCHANGED tracer

(* Any other instruction *)
OtherRow ==
  /\ Len(rows) < MaxAccesses
  /\ rows' = Append(rows, [addr |-> 0, val |-> 0, op |-> "other"])
  /\ truth' = Append(truth, [size |-> 0, old |-> 0, rs2 |-> 0, x0 |-> TRUE,
                             stores |-> FALSE, val |-> 0])
  /\ UNCHANGED <<tracer, cells, reserved>>

MemDone == Len(rows) = MaxAccesses /\ UNCHANGED memVars

MemNext == MemAccess \/ OtherRow \/ MemDone
MemSpec == MemInit /\ [][MemNext]_memVars

----------------------------------------------------------------------------
(* The prover's step 3c and permutation.rs *)

Sentinel == 9  \* u64::MAX: an address of no access

(* Memory rows as they are; any other row and the padding is a read of     *)
(* zero at the sentinel.                                                   *)
MemoryAccesses ==
  [t \in 1 .. Padded |->
     IF t <= Len(rows) /\ rows[t].op # "other"
     THEN [addr |-> rows[t].addr, val |-> rows[t].val, ts |-> t,
           rw |-> IF rows[t].op \in Reads THEN 0 ELSE 1]
     ELSE [addr |-> Sentinel, val |-> 0, ts |-> t, rw |-> 0]]

(* Faulty variant: the order is that of the addresses, writes first. *)
Bad_Before(x, y) ==
  x.addr < y.addr \/ (x.addr = y.addr /\ (x.rw > y.rw \/ (x.rw = y.rw /\ x.ts < y.ts)))

(* sort_and_compute_aux: an access comes after all that are before it;     *)
(* inv_addr_diff is represented by the difference it is the inverse of.    *)
Before(x, y) == x.addr < y.addr \/ (x.addr = y.addr /\ x.ts < y.ts)
sorted ==
  LET acc == MemoryAccesses
      place(t) == Cardinality({u \in 1 .. Padded : Before(acc[u], acc[t])})
  IN  [i \in 1 .. Padded |-> acc[CHOOSE t \in 1 .. Padded : place(t) = i - 1]]
is_same_addr(i) == i > 1 /\ sorted[i].addr = sorted[i - 1].addr
inv_addr_diff(i) ==
  IF i > 1 /\ ~is_same_addr(i) THEN sorted[i].addr - sorted[i - 1].addr ELSE 0

(* evaluate_permutation_constraints_at_point, on the step from row i *)
PermutationConstraint(i) ==
  LET same == is_same_addr(i + 1)
      addr_diff == sorted[i + 1].addr - sorted[i].addr
  IN  /\ same => addr_diff = 0
      /\ ~same => addr_diff # 0 /\ inv_addr_diff(i + 1) = addr_diff
      /\ same /\ sorted[i + 1].rw = 0 => sorted[i + 1].val = sorted[i].val
ConstraintsHold == \A i \in 1 .. Padded - 1 : PermutationConstraint(i)

----------------------------------------------------------------------------
(* Properties *)

IsAccess(i) == rows[i].op # "other"
Earlier(i) == {j \in 1 .. i - 1 : IsAccess(j) /\ rows[j].addr = rows[i].addr}
EarlierStores(i) == {j \in Earlier(i) : rows[j].op \notin Reads}
IsLatest(j, S) == j \in S /\ \A k \in S : k <= j

(* "Every load returns the value from the most recent store to that        *)
(* address" (permutation.rs), as the trace has it.                         *)
LoadsReturnLastStore ==
  \A i \in 1 .. Len(rows) :
    rows[i].op \in Reads =>
      \A j \in Earlier(i) : IsLatest(j, EarlierStores(i)) => rows[i].val = rows[j].val

(* What is asked of a load with no earlier store to its address: to agree  *)
(* with the loads before it. "Every read must correspond to a prior write" *)
(* (permutation.rs) asks for more, and no constraint does: memory has      *)
(* contents before the first store, and the sorted columns do not hold     *)
(* them.                                                                   *)
FirstLoadsAgree ==
  \A i \in 1 .. Len(rows) :
    rows[i].op \in Reads /\ EarlierStores(i) = {} =>
      \A j \in Earlier(i) : rows[i].val = rows[j].val

(* The constraints, which look only at neighbours in the sorted columns,   *)
(* hold exactly if these two are so of the trace in execution order,       *)
(* dummies and padding included. The value of an address's first load is   *)
(* free.                                                                   *)
ConstraintsDecideConsistency ==
  ConstraintsHold <=> LoadsReturnLastStore /\ FirstLoadsAgree

(* Why row i does not hold what is in memory after its instruction: a load *)
(* that extends the sign or is discarded, a narrow store of a wide value,  *)
(* a failed SC, or an AMO's sum that the tracer does not reconstruct       *)
Cause(i) ==
  LET op == rows[i].op
      h == truth[i]
  IN  \/ op = "LB" /\ h.old = 1
      \/ op \in Reads /\ h.x0 /\ h.old # 0
      \/ op = "SB" /\ h.rs2 > 1
      \/ op = "SC" /\ ~h.stores /\ h.rs2 # h.old
      \/ op = "AMOADD" /\ h.old # 0 /\ (tracer = "borrowed" \/ h.x0)

(* A byte access and a double access always share a cell. *)
MixedSizes == \E i, j \in 1 .. Len(rows) : truth[i].size = 1 /\ truth[j].size = 2

(* What an honest trace needs for its proof to go through: its accesses    *)
(* are of one size and none meets a cause; then the constraints hold.  And *)
(* those causes, and no others, make a row differ from memory.             *)
TrueRowsAccepted ==
  /\ (\A i \in 1 .. Len(rows) : ~Cause(i)) /\ ~MixedSizes => ConstraintsHold
  /\ \A i \in 1 .. Len(rows) : Cause(i) <=> rows[i].val # truth[i].val
=============================================================================
