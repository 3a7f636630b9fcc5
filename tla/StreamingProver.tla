-------------------------- MODULE StreamingProver --------------------------
(***************************************************************************)
(* Phase 1 of prove-boot: StreamingProver runs the VM chunk by chunk and   *)
(* brackets each chunk with the hash of its boundary state; the main loop  *)
(* records the chunks until the guest halts, --max-steps is reached, the   *)
(* VM reports an error, or Ctrl+C is pressed.                              *)
(*                                                                         *)
(* A boundary hash is the record of what it covers (the digest is taken to *)
(* be injective): the page hashes, the UART bytes absorbed so far, and the *)
(* step number, which stands for the registers and CSRs read directly from *)
(* the VM at the snapshot.  The guest is nondeterministic: a step may      *)
(* store to a page, print a byte, trap without a trace row, halt or fail.  *)
(***************************************************************************)
EXTENDS Naturals, Sequences

CONSTANTS
  Pages,      \* memory pages
  Absent,     \* a page that is not allocated, or has no hash
  ChunkSize,  \* --chunk-size
  MaxSteps,   \* --max-steps, 0 for unlimited
  StepBound   \* bound: the guest has halted after this many steps

ASSUME ChunkSizeAssumption == ChunkSize \in Nat \ {0}
ASSUME MaxStepsAssumption == MaxSteps \in Nat /\ StepBound \in Nat
ASSUME AbsentAssumption == Absent \notin Nat

VARIABLES
  pc,           \* the main thread
  mem,          \* Memory.pages
  dirty,        \* Memory.dirty
  halted,       \* Vm.halted
  output,       \* bytes in mmio.uart.output
  page_hashes,  \* IncrementalMemoryHash.page_hashes
  uart_hasher,  \* bytes absorbed by the UART hasher
  global_step,
  chunk_index,
  chunk,        \* the chunk being executed
  recorded,     \* the chunks in memory or in the trace file
  stop,         \* STOP_REQUESTED
  signals,      \* history: Ctrl+C presses since the flag was last cleared
  stopped_at    \* history: chunk_index when the flag was raised

vm == <<mem, dirty, halted, output>>
prover == <<page_hashes, uart_hasher, global_step, chunk_index>>
interrupt == <<stop, signals, stopped_at>>
vars == <<pc, vm, prover, chunk, recorded, interrupt>>

Contents == {0, 1}
Hash == [Pages -> Contents \union {Absent}]
Boundary == [memory : Hash, uart : Nat, step : Nat]
ExecutionChunk == [chunk_index : Nat, initial : Boundary, final : Boundary,
                   uart_bytes : Nat, num_steps : Nat]

Running == pc \notin {"exit1", "aborted"}

(* Faulty variant of update: the hash of a page first stored to after      *)
(* start-up is forgotten.                                                  *)
Bad_update(hashes) ==
  [p \in Pages |-> IF p \in dirty /\ hashes[p] # Absent THEN mem[p]
                   ELSE hashes[p]]

(* IncrementalMemoryHash::update rehashes only the dirty pages. *)
update(hashes) ==
  [p \in Pages |-> IF p \in dirty THEN mem[p] ELSE hashes[p]]

(* snapshot_vm and hash_boundary_state *)
snapshot_vm(memory, uart, step) ==
  [memory |-> memory, uart |-> uart, step |-> step]

NoChunk(boundary) ==
  [chunk_index |-> 0, initial |-> boundary, final |-> boundary,
   uart_bytes |-> 0, num_steps |-> 0]

(* The loaded VM after StreamingProver::new and initialize_memory_hash *)
Init ==
  /\ pc = "loop"
  /\ mem \in [Pages -> {0, Absent}]
  /\ dirty = {}
  /\ halted = FALSE
  /\ output = 0
  /\ page_hashes = mem
  /\ uart_hasher = 0
  /\ global_step = 0
  /\ chunk_index = 0
  /\ chunk = NoChunk(snapshot_vm(mem, 0, 0))
  /\ recorded = <<>>
  /\ stop = FALSE
  /\ signals = 0
  /\ stopped_at = 0

MaxStepsReached == MaxSteps > 0 /\ global_step >= MaxSteps

----------------------------------------------------------------------------
(* Faulty variants, one per property: the dirty set takes an offset for a  *)
(* page number, the loop forgets the limit, the final snapshot precedes    *)
(* the UART update, an abandoned chunk still drains the UART, and the flag *)
(* survives into phase 2.                                                  *)

Bad_Store ==
  \E written \in SUBSET Pages : \E v \in [written -> Contents] :
    /\ mem' = [p \in Pages |-> IF p \in written THEN v[p] ELSE mem[p]]
    /\ dirty' = dirty \union {v[p] : p \in written}

Bad_StartChunk ==
  /\ pc = "loop"
  /\ ~halted /\ ~stop
  /\ pc' = "chunk"
  /\ page_hashes' = update(page_hashes)
  /\ dirty' = {}
  /\ chunk' = [NoChunk(snapshot_vm(page_hashes', uart_hasher, global_step))
                 EXCEPT !.chunk_index = chunk_index]
  /\ UNCHANGED <<mem, halted, output, uart_hasher, global_step, chunk_index,
                 recorded, interrupt>>

Bad_FinishChunk ==
  /\ pc = "chunk"
  /\ halted \/ chunk.num_steps = ChunkSize
  /\ uart_hasher' = uart_hasher + output
  /\ output' = 0
  /\ global_step' = global_step + chunk.num_steps
  /\ page_hashes' = update(page_hashes)
  /\ dirty' = {}
  /\ chunk' = [chunk EXCEPT
                 !.final = snapshot_vm(page_hashes', uart_hasher, global_step'),
                 !.uart_bytes = output]
  /\ chunk_index' = chunk_index + 1
  /\ pc' = "record"
  /\ UNCHANGED <<mem, halted, recorded, interrupt>>

Bad_StepFails ==
  /\ pc = "chunk"
  /\ ~halted
  /\ chunk.num_steps < ChunkSize
  /\ pc' = "flush"
  /\ uart_hasher' = uart_hasher + output
  /\ output' = 0
  /\ UNCHANGED <<mem, dirty, halted, page_hashes, global_step, chunk_index,
                 chunk, recorded, interrupt>>

Bad_Flush ==
  /\ pc = "flush"
  /\ pc' = IF recorded = <<>> THEN "exit1" ELSE "prove"
  /\ signals' = 0
  /\ UNCHANGED <<vm, prover, chunk, recorded, stop, stopped_at>>

----------------------------------------------------------------------------
(* The main loop and execute_chunk *)

(* The top of the loop, when it goes on, and the start of execute_chunk:   *)
(* bring the memory hash up to date and snapshot the initial state.        *)
StartChunk ==
  /\ pc = "loop"
  /\ ~halted /\ ~stop /\ ~MaxStepsReached
  /\ pc' = "chunk"
  /\ page_hashes' = update(page_hashes)
  /\ dirty' = {}
  /\ chunk' = [NoChunk(snapshot_vm(page_hashes', uart_hasher, global_step))
                 EXCEPT !.chunk_index = chunk_index]
  /\ UNCHANGED <<mem, halted, output, uart_hasher, global_step, chunk_index,
                 recorded, interrupt>>

(* What a guest step stores: nothing, one page (a store instruction, an    *)
(* atomic, an accessed/dirty bit written by the MMU) or several (a store   *)
(* across a page boundary, virtio DMA).  Memory::store_* allocates a page  *)
(* and marks it dirty.                                                     *)
Store ==
  \E written \in SUBSET Pages : \E v \in [written -> Contents] :
    /\ mem' = [p \in Pages |-> IF p \in written THEN v[p] ELSE mem[p]]
    /\ dirty' = dirty \union written

(* TracingVmBorrowed::step; the rows of the chunk are left to TraceRows.   *)
(* A step that only delivered a trap leaves none but is counted.           *)
VmStep ==
  /\ pc = "chunk"
  /\ ~halted
  /\ chunk.num_steps < ChunkSize
  /\ Store
  /\ output' \in {output, output + 1}
  /\ halted' \in (IF global_step + chunk.num_steps + 1 < StepBound
                  THEN BOOLEAN ELSE {TRUE})
  /\ chunk' = [chunk EXCEPT !.num_steps = @ + 1]
  /\ UNCHANGED <<pc, prover, recorded, interrupt>>

(* The step returns a VmError: execute_chunk returns at once and the main  *)
(* loop breaks; the chunk is abandoned where it stands.                    *)
StepFails ==
  /\ pc = "chunk"
  /\ ~halted
  /\ chunk.num_steps < ChunkSize
  /\ pc' = "flush"
  /\ UNCHANGED <<vm, prover, chunk, recorded, interrupt>>

(* The end of execute_chunk: drain and absorb the UART bytes, count the    *)
(* steps, snapshot the final state.                                        *)
FinishChunk ==
  /\ pc = "chunk"
  /\ halted \/ chunk.num_steps = ChunkSize
  /\ uart_hasher' = uart_hasher + output
  /\ output' = 0
  /\ global_step' = global_step + chunk.num_steps
  /\ page_hashes' = update(page_hashes)
  /\ dirty' = {}
  /\ chunk' = [chunk EXCEPT
                 !.final = snapshot_vm(page_hashes', uart_hasher', global_step'),
                 !.uart_bytes = output]
  /\ chunk_index' = chunk_index + 1
  /\ pc' = "record"
  /\ UNCHANGED <<mem, halted, recorded, interrupt>>

(* A chunk with steps is kept in memory or written to the trace file,      *)
(* which may fail.                                                         *)
Record ==
  /\ pc = "record"
  /\ \/ /\ recorded' = IF chunk.num_steps > 0 THEN Append(recorded, chunk)
                       ELSE recorded
        /\ pc' = "loop"
     \/ /\ chunk.num_steps > 0
        /\ pc' = "exit1"
        /\ UNCHANGED recorded
  /\ UNCHANGED <<vm, prover, chunk, interrupt>>

LeaveLoop ==
  /\ pc = "loop"
  /\ halted \/ stop \/ MaxStepsReached
  /\ pc' = "flush"
  /\ UNCHANGED <<vm, prover, chunk, recorded, interrupt>>

(* Flush the trace file, which may fail; with nothing recorded the program *)
(* exits, else phase 2 begins by clearing the Ctrl+C flag.                 *)
Flush ==
  /\ pc = "flush"
  /\ \/ recorded # <<>> /\ pc' = "prove" /\ stop' = FALSE /\ signals' = 0
     \/ pc' = "exit1" /\ UNCHANGED <<stop, signals>>
  /\ UNCHANGED <<vm, prover, chunk, recorded, stopped_at>>

(* handle_sigint, at any moment *)
Sigint ==
  /\ Running
  /\ signals' = signals + 1
  /\ stop' = TRUE
  /\ pc' = IF stop THEN "aborted" ELSE pc
  /\ stopped_at' = IF stop THEN stopped_at ELSE chunk_index
  /\ UNCHANGED <<vm, prover, chunk, recorded>>

(* Phase 2 goes on elsewhere (ProvePipeline). *)
Proving == pc \in {"prove", "exit1", "aborted"} /\ UNCHANGED vars

Next == \/ StartChunk \/ VmStep \/ StepFails \/ FinishChunk \/ Record
        \/ LeaveLoop \/ Flush \/ Sigint \/ Proving

Spec == Init /\ [][Next]_vars

----------------------------------------------------------------------------
(* Properties *)

(* The type invariant of phase 1. *)
TypeOK ==
  /\ pc \in {"loop", "chunk", "record", "flush", "prove", "exit1", "aborted"}
  /\ mem \in Hash
  /\ dirty \subseteq Pages
  /\ halted \in BOOLEAN
  /\ output \in Nat
  /\ page_hashes \in Hash
  /\ uart_hasher \in Nat
  /\ global_step \in Nat
  /\ chunk_index \in Nat
  /\ chunk \in ExecutionChunk
  /\ recorded \in Seq(ExecutionChunk)
  /\ stop \in BOOLEAN
  /\ signals \in Nat
  /\ stopped_at \in Nat

(* What the tree fold of phase 2 relies on: the recorded chunks are        *)
(* numbered 0, 1, 2, ... without a gap, each one starts in the boundary    *)
(* state where the one before ended, the first one at step 0, and each     *)
(* spans as many steps as it says, at least one.                           *)
ChunksFormChain ==
  \A i \in 1 .. Len(recorded) :
    /\ recorded[i].chunk_index = i - 1
    /\ recorded[i].num_steps \in 1 .. ChunkSize
    /\ recorded[i].final.step = recorded[i].initial.step + recorded[i].num_steps
    /\ IF i = 1 THEN recorded[i].initial.step = 0
       ELSE recorded[i].initial = recorded[i - 1].final

(* Rehashing only the dirty pages gives the hash of the whole memory at    *)
(* every boundary: a page that was stored to is never left with the hash   *)
(* of its old contents (doc of update: "Only re-hashes pages that were     *)
(* modified since the last call").                                         *)
BoundaryHashCoversMemory ==
  /\ pc = "chunk" /\ chunk.num_steps = 0 => chunk.initial.memory = mem
  /\ pc = "record" => chunk.final.memory = mem

(* The UART hash printed after proving (final_uart_hash) is the one in the *)
(* final state of the last proved chunk, and accounts for every byte shown *)
(* to the user, also when a VM error abandoned a chunk half-way.           *)
UartHashMatchesProof ==
  pc = "prove" => recorded[Len(recorded)].final.uart = uart_hasher

(* One Ctrl+C never kills the program: an abort takes a second press in    *)
(* the same phase ("Second Ctrl+C: abort immediately").                    *)
AbortTakesTwoSignals == pc = "aborted" => signals >= 2

(* After Ctrl+C at most the chunk under way is finished ("stopping         *)
(* execution"), and --max-steps is overshot by less than one chunk.        *)
StopsWithinOneChunk ==
  /\ stop /\ pc # "prove" => chunk_index <= stopped_at + 1
  /\ MaxSteps > 0 => global_step < MaxSteps + ChunkSize

=============================================================================
