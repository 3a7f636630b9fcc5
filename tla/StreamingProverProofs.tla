----------------------- MODULE StreamingProverProofs -----------------------
(***************************************************************************)
(* Proofs about StreamingProver, for any memory, chunk size and step       *)
(* limit.                                                                  *)
(***************************************************************************)
EXTENDS StreamingProver, TLAPS

(* The boundary the prover's state stands for *)
Here == snapshot_vm(page_hashes, uart_hasher, global_step)

Last == recorded[Len(recorded)]

(* A page that is not marked dirty has the hash of its contents. *)
CleanPagesHashed == \A p \in Pages : p \notin dirty => page_hashes[p] = mem[p]

(* Between chunks nothing is dirty; a chunk under way started here; a      *)
(* finished one ends here.                                                 *)
ChunkPosition ==
  /\ pc \in {"loop", "record"} => dirty = {}
  /\ pc = "chunk" => /\ chunk.initial = Here
                     /\ chunk.chunk_index = chunk_index
                     /\ chunk.num_steps <= ChunkSize
                     /\ chunk.num_steps = 0 => ~halted /\ dirty = {}
  /\ pc = "record" => /\ chunk.final = Here
                      /\ chunk.chunk_index + 1 = chunk_index
                      /\ chunk.num_steps \in 1 .. ChunkSize
                      /\ chunk.final.step = chunk.initial.step + chunk.num_steps

(* How the recorded chunks join up with the one under way *)
RecordPosition ==
  /\ pc \in {"loop", "chunk"} =>
       /\ Len(recorded) = chunk_index
       /\ IF recorded = <<>> THEN global_step = 0 ELSE Last.final = Here
  /\ pc = "record" =>
       /\ Len(recorded) + 1 = chunk_index
       /\ IF recorded = <<>> THEN chunk.initial.step = 0
          ELSE Last.final = chunk.initial
  /\ pc \in {"flush", "prove"} /\ recorded # <<>> => Last.final.uart = uart_hasher

(* Where the Ctrl+C flag and the step limit may find the loop *)
StopPosition ==
  /\ stop => chunk_index <= stopped_at + 1 /\ signals >= 1
  /\ stop /\ pc = "chunk" => chunk_index <= stopped_at
  /\ MaxSteps > 0 => global_step < MaxSteps + ChunkSize
  /\ MaxSteps > 0 /\ pc = "chunk" => global_step < MaxSteps

Inv == /\ TypeOK
       /\ CleanPagesHashed
       /\ ChunkPosition
       /\ RecordPosition
       /\ StopPosition
       /\ ChunksFormChain
       /\ AbortTakesTwoSignals

(* A snapshot is a boundary. *)
LEMMA SnapshotType ==
  ASSUME NEW m \in Hash, NEW u \in Nat, NEW s \in Nat
  PROVE  snapshot_vm(m, u, s) \in Boundary
  BY DEF snapshot_vm, Boundary

(* update turns hashes that are right for the clean pages into hashes that *)
(* are right for all.                                                      *)
LEMMA UpdateHashesAll ==
  ASSUME TypeOK, CleanPagesHashed
  PROVE  update(page_hashes) = mem
  BY DEF TypeOK, CleanPagesHashed, update, Hash

(* update changes nothing when nothing is dirty. *)
LEMMA UpdateClean ==
  ASSUME TypeOK, dirty = {}
  PROVE  update(page_hashes) = page_hashes
  BY DEF TypeOK, update, Hash

(* The loaded VM is between chunks. *)
LEMMA InitInv == Init => Inv
<1> SUFFICES ASSUME Init PROVE Inv
  OBVIOUS
<1> USE ChunkSizeAssumption, MaxStepsAssumption
<1>1. mem \in Hash /\ page_hashes \in Hash
  BY DEF Init, Hash, Contents
<1>2. chunk \in ExecutionChunk
  <2>1. snapshot_vm(mem, 0, 0) \in Boundary
    BY <1>1, SnapshotType
  <2> QED
    BY <2>1 DEF Init, NoChunk, ExecutionChunk
<1>3. halted \in BOOLEAN /\ stop \in BOOLEAN
  BY DEF Init
<1>4. TypeOK
  BY <1>1, <1>2, <1>3 DEF Init, TypeOK
<1>5. CleanPagesHashed /\ ChunkPosition /\ RecordPosition /\ StopPosition
  BY DEF Init, CleanPagesHashed, ChunkPosition, RecordPosition, StopPosition
<1>6. ChunksFormChain /\ AbortTakesTwoSignals
  BY DEF Init, ChunksFormChain, AbortTakesTwoSignals
<1> QED
  BY <1>4, <1>5, <1>6 DEF Inv

(* A new chunk starts where the last one ended. *)
LEMMA StartInv == Inv /\ StartChunk => Inv'
<1> SUFFICES ASSUME Inv, StartChunk PROVE Inv'
  OBVIOUS
<1> USE ChunkSizeAssumption, MaxStepsAssumption
<1>1. /\ pc = "loop" /\ pc' = "chunk" /\ ~halted /\ ~stop
      /\ MaxSteps > 0 => global_step < MaxSteps
      /\ page_hashes' = update(page_hashes) /\ dirty' = {}
      /\ chunk' = [NoChunk(snapshot_vm(page_hashes', uart_hasher, global_step))
                     EXCEPT !.chunk_index = chunk_index]
      /\ UNCHANGED <<mem, halted, output, uart_hasher, global_step, chunk_index,
                     recorded, stop, signals, stopped_at>>
  BY DEF StartChunk, MaxStepsReached, interrupt, Inv, TypeOK
<1>2. page_hashes' = page_hashes /\ page_hashes' = mem /\ page_hashes \in Hash
  BY <1>1, UpdateClean, UpdateHashesAll DEF Inv, ChunkPosition, TypeOK
<1>3. /\ Here' = Here
      /\ Here \in Boundary
      /\ chunk' = [NoChunk(Here) EXCEPT !.chunk_index = chunk_index]
  BY <1>1, <1>2, SnapshotType DEF Here, snapshot_vm, Inv, TypeOK
<1>4. /\ chunk' \in ExecutionChunk
      /\ chunk'.initial = Here /\ chunk'.chunk_index = chunk_index
      /\ chunk'.num_steps = 0
  BY <1>3 DEF NoChunk, ExecutionChunk, Inv, TypeOK
<1>5. TypeOK'
  BY <1>1, <1>2, <1>4 DEF Inv, TypeOK
<1>6. CleanPagesHashed' /\ ChunkPosition'
  BY <1>1, <1>2, <1>3, <1>4 DEF CleanPagesHashed, ChunkPosition
<1>7. RecordPosition' /\ StopPosition'
  BY <1>1, <1>3 DEF Inv, RecordPosition, StopPosition, Last
<1>8. ChunksFormChain' /\ AbortTakesTwoSignals'
  BY <1>1 DEF Inv, ChunksFormChain, AbortTakesTwoSignals
<1> QED
  BY <1>5, <1>6, <1>7, <1>8 DEF Inv

(* A step of the guest marks the page it stores to. *)
LEMMA VmStepInv == Inv /\ VmStep => Inv'
<1> SUFFICES ASSUME Inv, VmStep PROVE Inv'
  OBVIOUS
<1> USE ChunkSizeAssumption, MaxStepsAssumption
<1>1. /\ pc = "chunk" /\ pc' = pc /\ chunk.num_steps < ChunkSize
      /\ UNCHANGED <<page_hashes, uart_hasher, global_step, chunk_index, recorded,
                     stop, signals, stopped_at>>
  BY DEF VmStep, prover, interrupt
<1>2. chunk' = [chunk EXCEPT !.num_steps = @ + 1]
  BY DEF VmStep
<1>3. /\ chunk' \in ExecutionChunk
      /\ chunk'.initial = chunk.initial /\ chunk'.chunk_index = chunk.chunk_index
      /\ chunk'.num_steps = chunk.num_steps + 1 /\ chunk.num_steps \in Nat
  <2>1. chunk \in ExecutionChunk
    BY DEF Inv, TypeOK
  <2> DEFINE steps == chunk.num_steps + 1
  <2>2. chunk.num_steps \in Nat /\ steps \in Nat
    BY <2>1 DEF ExecutionChunk
  <2>3. chunk' = [chunk EXCEPT !.num_steps = steps]
    BY <1>2, <2>1 DEF ExecutionChunk
  <2>4. steps = chunk.num_steps + 1
    OBVIOUS
  <2> HIDE DEF steps
  <2>5. chunk' \in ExecutionChunk /\ chunk'.num_steps = steps
    BY <2>1, <2>2, <2>3 DEF ExecutionChunk
  <2>6. chunk'.initial = chunk.initial /\ chunk'.chunk_index = chunk.chunk_index
    BY <2>1, <2>3 DEF ExecutionChunk
  <2> QED
    BY <2>2, <2>4, <2>5, <2>6
<1>4. mem' \in Hash /\ dirty' \subseteq Pages /\ CleanPagesHashed'
  <2>1. PICK written \in SUBSET Pages :
          \E v \in [written -> Contents] :
            /\ mem' = [p \in Pages |-> IF p \in written THEN v[p] ELSE mem[p]]
            /\ dirty' = dirty \union written
    BY DEF VmStep, Store
  <2>2. PICK v \in [written -> Contents] :
          /\ mem' = [p \in Pages |-> IF p \in written THEN v[p] ELSE mem[p]]
          /\ dirty' = dirty \union written
    BY <2>1
  <2>3. mem' \in Hash /\ dirty' \subseteq Pages
    BY <2>2 DEF Inv, TypeOK, Hash
  <2>4. CleanPagesHashed'
    BY <1>1, <2>2 DEF Inv, TypeOK, CleanPagesHashed
  <2> QED
    BY <2>3, <2>4
<1>5. output' \in Nat
  BY DEF VmStep, Inv, TypeOK
<1>6. halted' \in BOOLEAN
  BY DEF VmStep
<1>7. TypeOK'
  BY <1>1, <1>3, <1>4, <1>5, <1>6 DEF Inv, TypeOK
<1>8. ChunkPosition' /\ RecordPosition' /\ StopPosition'
  BY <1>1, <1>3
     DEF Inv, ChunkPosition, RecordPosition, StopPosition, Here, snapshot_vm, Last
<1>9. ChunksFormChain' /\ AbortTakesTwoSignals'
  BY <1>1 DEF Inv, ChunksFormChain, AbortTakesTwoSignals
<1> QED
  BY <1>4, <1>7, <1>8, <1>9 DEF Inv

(* A finished chunk ends where the prover now stands. *)
LEMMA FinishInv == Inv /\ FinishChunk => Inv'
<1> SUFFICES ASSUME Inv, FinishChunk PROVE Inv'
  OBVIOUS
<1> USE ChunkSizeAssumption, MaxStepsAssumption
<1>1. /\ pc = "chunk" /\ pc' = "record"
      /\ halted \/ chunk.num_steps = ChunkSize
      /\ uart_hasher' = uart_hasher + output /\ output' = 0
      /\ global_step' = global_step + chunk.num_steps
      /\ page_hashes' = update(page_hashes) /\ dirty' = {}
      /\ chunk_index' = chunk_index + 1
      /\ UNCHANGED <<mem, halted, recorded, stop, signals, stopped_at>>
  BY DEF FinishChunk, interrupt
<1>2. chunk' = [chunk EXCEPT !.final = Here', !.uart_bytes = output]
  BY DEF FinishChunk, Here, snapshot_vm
<1>3. page_hashes' = mem /\ mem \in Hash
  BY <1>1, UpdateHashesAll DEF Inv, TypeOK
<1>4. /\ chunk.num_steps \in 1 .. ChunkSize
      /\ chunk.initial = Here
      /\ chunk.chunk_index = chunk_index
  BY <1>1 DEF Inv, ChunkPosition, TypeOK, ExecutionChunk
<1>5. uart_hasher' \in Nat /\ global_step' \in Nat
  BY <1>1, <1>4 DEF Inv, TypeOK
<1>6. Here' \in Boundary /\ Here'.step = global_step' /\ Here.step = global_step
  BY <1>3, <1>5, SnapshotType DEF Here, snapshot_vm
<1>7. /\ chunk' \in ExecutionChunk
      /\ chunk'.final = Here'
      /\ chunk'.initial = chunk.initial /\ chunk'.chunk_index = chunk.chunk_index
      /\ chunk'.num_steps = chunk.num_steps
  BY <1>2, <1>6 DEF Inv, TypeOK, ExecutionChunk
<1>8. TypeOK'
  BY <1>1, <1>3, <1>5, <1>7 DEF Inv, TypeOK
<1>9. CleanPagesHashed'
  BY <1>1, <1>3 DEF CleanPagesHashed
<1>10. ChunkPosition'
  BY <1>1, <1>4, <1>6, <1>7 DEF ChunkPosition
<1>11. RecordPosition'
  BY <1>1, <1>4, <1>6, <1>7 DEF Inv, TypeOK, RecordPosition, Last
<1>12. StopPosition'
  BY <1>1, <1>4 DEF Inv, TypeOK, StopPosition
<1>13. ChunksFormChain' /\ AbortTakesTwoSignals'
  BY <1>1 DEF Inv, ChunksFormChain, AbortTakesTwoSignals
<1> QED
  BY <1>8, <1>9, <1>10, <1>11, <1>12, <1>13 DEF Inv

(* Recording extends the chain by one link. *)
LEMMA RecordInv == Inv /\ Record => Inv'
<1> SUFFICES ASSUME Inv, Record PROVE Inv'
  OBVIOUS
<1> USE ChunkSizeAssumption, MaxStepsAssumption
<1>1. /\ pc = "record"
      /\ UNCHANGED <<mem, dirty, halted, output, page_hashes, uart_hasher,
                     global_step, chunk_index, chunk, stop, signals, stopped_at>>
  BY DEF Record, vm, prover, interrupt
<1>2. Here' = Here
  BY <1>1 DEF Here, snapshot_vm
<1>3. chunk.num_steps \in 1 .. ChunkSize
  BY <1>1 DEF Inv, ChunkPosition
<1>4. CASE pc' = "exit1" /\ recorded' = recorded
  <2>1. TypeOK' /\ CleanPagesHashed' /\ ChunkPosition' /\ RecordPosition'
    BY <1>1, <1>4 DEF Inv, TypeOK, CleanPagesHashed, ChunkPosition, RecordPosition
  <2>2. StopPosition' /\ ChunksFormChain' /\ AbortTakesTwoSignals'
    BY <1>1, <1>4 DEF Inv, StopPosition, ChunksFormChain, AbortTakesTwoSignals
  <2> QED
    BY <2>1, <2>2 DEF Inv
<1>5. CASE pc' = "loop" /\ recorded' = Append(recorded, chunk)
  <2>1. recorded \in Seq(ExecutionChunk) /\ chunk \in ExecutionChunk
    BY DEF Inv, TypeOK
  <2>2. /\ recorded' \in Seq(ExecutionChunk)
        /\ Len(recorded') = Len(recorded) + 1
        /\ Len(recorded) \in Nat
        /\ recorded'[Len(recorded')] = chunk
        /\ \A i \in 1 .. Len(recorded) : recorded'[i] = recorded[i]
        /\ recorded' # <<>>
    BY <1>5, <2>1
  <2>3. TypeOK' /\ CleanPagesHashed' /\ ChunkPosition'
    BY <1>1, <1>5, <2>2 DEF Inv, TypeOK, CleanPagesHashed, ChunkPosition
  <2>4. RecordPosition'
    BY <1>1, <1>2, <1>5, <2>2 DEF Inv, ChunkPosition, RecordPosition, Last
  <2>5. StopPosition' /\ AbortTakesTwoSignals'
    BY <1>1, <1>5 DEF Inv, StopPosition, AbortTakesTwoSignals
  <2>6. ChunksFormChain'
    <3> SUFFICES ASSUME NEW i \in 1 .. Len(recorded')
                 PROVE  /\ recorded'[i].chunk_index = i - 1
                        /\ recorded'[i].num_steps \in 1 .. ChunkSize
                        /\ recorded'[i].final.step
                             = recorded'[i].initial.step + recorded'[i].num_steps
                        /\ IF i = 1 THEN recorded'[i].initial.step = 0
                           ELSE recorded'[i].initial = recorded'[i - 1].final
      BY DEF ChunksFormChain
    <3>1. CASE i \in 1 .. Len(recorded)
      <4>1. i # 1 => i - 1 \in 1 .. Len(recorded)
        BY <2>2, <3>1
      <4> QED
        BY <2>2, <3>1, <4>1 DEF Inv, ChunksFormChain
    <3>2. CASE i = Len(recorded) + 1
      <4>1. recorded'[i] = chunk
        BY <2>2, <3>2
      <4>2. /\ chunk.chunk_index + 1 = chunk_index
            /\ Len(recorded) + 1 = chunk_index
            /\ chunk.final.step = chunk.initial.step + chunk.num_steps
        BY <1>1 DEF Inv, ChunkPosition, RecordPosition
      <4>3. chunk.chunk_index \in Nat
        BY <2>1 DEF ExecutionChunk
      <4>4. IF i = 1 THEN chunk.initial.step = 0
            ELSE chunk.initial = recorded'[i - 1].final
        <5>1. i = 1 <=> recorded = <<>>
          BY <2>1, <2>2, <3>2
        <5>2. i # 1 => recorded'[i - 1] = Last
          BY <2>2, <3>2 DEF Last
        <5> QED
          BY <1>1, <5>1, <5>2 DEF Inv, RecordPosition
      <4> QED
        BY <1>3, <2>2, <3>2, <4>1, <4>2, <4>3, <4>4
    <3> QED
      BY <2>2, <3>1, <3>2
  <2> QED
    BY <2>3, <2>4, <2>5, <2>6 DEF Inv
<1> QED
  BY <1>3, <1>4, <1>5 DEF Record

(* Leaving the loop, a failing step and the end of phase 1 keep what was   *)
(* recorded; only the flag is cleared.                                     *)
LEMMA LeaveInv == Inv /\ (StepFails \/ LeaveLoop \/ Flush) => Inv'
<1> SUFFICES ASSUME Inv, StepFails \/ LeaveLoop \/ Flush PROVE Inv'
  OBVIOUS
<1> USE ChunkSizeAssumption, MaxStepsAssumption
<1>1. /\ UNCHANGED <<mem, dirty, halted, output, page_hashes, uart_hasher,
                     global_step, chunk_index, chunk, recorded, stopped_at>>
      /\ pc \in {"loop", "chunk", "flush"} /\ pc' \in {"flush", "prove", "exit1"}
      /\ \/ UNCHANGED <<stop, signals>>
         \/ stop' = FALSE /\ signals' = 0
  BY DEF StepFails, LeaveLoop, Flush, vm, prover, interrupt
<1>2. stop' \in BOOLEAN
  BY <1>1 DEF Inv, TypeOK
<1>3. TypeOK'
  BY <1>1, <1>2 DEF Inv, TypeOK
<1>4. CleanPagesHashed' /\ ChunkPosition'
  BY <1>1 DEF Inv, CleanPagesHashed, ChunkPosition
<1>5. RecordPosition'
  BY <1>1 DEF Inv, RecordPosition, Last, Here, snapshot_vm
<1>6. StopPosition' /\ ChunksFormChain' /\ AbortTakesTwoSignals'
  BY <1>1 DEF Inv, StopPosition, ChunksFormChain, AbortTakesTwoSignals
<1> QED
  BY <1>3, <1>4, <1>5, <1>6 DEF Inv

(* Ctrl+C raises the flag, or aborts when it is raised. *)
LEMMA SigintInv == Inv /\ Sigint => Inv'
<1> SUFFICES ASSUME Inv, Sigint PROVE Inv'
  OBVIOUS
<1> USE ChunkSizeAssumption, MaxStepsAssumption
<1>1. /\ UNCHANGED <<mem, dirty, halted, output, page_hashes, uart_hasher,
                     global_step, chunk_index, chunk, recorded>>
      /\ stop' = TRUE /\ signals' = signals + 1
      /\ pc' = IF stop THEN "aborted" ELSE pc
      /\ stopped_at' = IF stop THEN stopped_at ELSE chunk_index
      /\ pc # "aborted"
  BY DEF Sigint, vm, prover, Running
<1>2. stop' \in BOOLEAN
  BY <1>1
<1>3. TypeOK'
  BY <1>1, <1>2 DEF Inv, TypeOK
<1>4. CleanPagesHashed' /\ ChunkPosition' /\ RecordPosition' /\ ChunksFormChain'
  BY <1>1 DEF Inv, CleanPagesHashed, ChunkPosition, RecordPosition, Last, Here,
              snapshot_vm, ChunksFormChain
<1>5. StopPosition' /\ AbortTakesTwoSignals'
  BY <1>1 DEF Inv, TypeOK, StopPosition, AbortTakesTwoSignals
<1> QED
  BY <1>3, <1>4, <1>5 DEF Inv

(* Inv is an inductive invariant of phase 1. *)
THEOREM InvIsInvariant == Spec => []Inv
<1>1. Inv /\ UNCHANGED vars => Inv'
  BY DEF vars, vm, prover, interrupt, Inv, TypeOK, CleanPagesHashed,
         ChunkPosition, RecordPosition, Last, Here, snapshot_vm, StopPosition,
         ChunksFormChain, AbortTakesTwoSignals
<1>2. Inv /\ [Next]_vars => Inv'
  BY <1>1, StartInv, VmStepInv, FinishInv, RecordInv, LeaveInv, SigintInv
     DEF Next, Proving
<1> QED
  BY InitInv, <1>2, PTL DEF Spec

(* Phase 1 keeps the type of its state. *)
THEOREM TypeCorrect == Spec => []TypeOK
<1>1. Inv => TypeOK
  BY DEF Inv
<1> QED
  BY <1>1, InvIsInvariant, PTL

(* What execute_chunk and the main loop record is a chain that the tree    *)
(* fold accepts.                                                           *)
THEOREM ChainRecorded == Spec => []ChunksFormChain
<1>1. Inv => ChunksFormChain
  BY DEF Inv
<1> QED
  BY <1>1, InvIsInvariant, PTL

(* IncrementalMemoryHash is the hash of the whole memory at the boundaries *)
(* of a chunk.                                                             *)
THEOREM HashCoversMemory == Spec => []BoundaryHashCoversMemory
<1>1. Inv => BoundaryHashCoversMemory
  <2> SUFFICES ASSUME Inv PROVE BoundaryHashCoversMemory
    OBVIOUS
  <2>1. dirty = {} => page_hashes = mem
    BY DEF Inv, TypeOK, CleanPagesHashed, Hash
  <2> QED
    BY <2>1 DEF Inv, ChunkPosition, Here, snapshot_vm, BoundaryHashCoversMemory
<1> QED
  BY <1>1, InvIsInvariant, PTL

(* final_uart_hash is the UART hash of the last recorded boundary. *)
THEOREM UartMatches == Spec => []UartHashMatchesProof
<1>1. Inv /\ (pc = "prove" => recorded # <<>>) => UartHashMatchesProof
  BY DEF Inv, RecordPosition, Last, UartHashMatchesProof
<1>2. Init => (pc = "prove" => recorded # <<>>)
  BY DEF Init
<1>3. (pc = "prove" => recorded # <<>>) /\ [Next]_vars
        => (pc = "prove" => recorded # <<>>)'
  BY DEF Next, vars, vm, prover, interrupt, StartChunk, VmStep, StepFails,
         FinishChunk, Record, LeaveLoop, Flush, Sigint, Proving
<1> QED
  BY <1>1, <1>2, <1>3, InvIsInvariant, PTL DEF Spec

(* handle_sigint never aborts on the first press of a phase. *)
THEOREM AbortOnSecond == Spec => []AbortTakesTwoSignals
<1>1. Inv => AbortTakesTwoSignals
  BY DEF Inv
<1> QED
  BY <1>1, InvIsInvariant, PTL

(* The flag and the limit stop the loop within a chunk. *)
THEOREM StopsSoon == Spec => []StopsWithinOneChunk
<1>1. Inv => StopsWithinOneChunk
  BY DEF Inv, StopPosition, StopsWithinOneChunk
<1> QED
  BY <1>1, InvIsInvariant, PTL
=============================================================================
