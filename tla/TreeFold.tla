------------------------------ MODULE TreeFold ------------------------------
(***************************************************************************)
(* tree_fold (and its two copies, with progress and scheme-generic): chunk *)
(* proofs arrive in order and are folded like the carries of a binary      *)
(* counter.  stack[l] holds the fold of a complete subtree or None; the    *)
(* entries left at the end are folded from the oldest to the newest.       *)
(*                                                                         *)
(* A state hash is a member of Hashes.  The accumulated claim (l_acc,      *)
(* r_acc) is a random linear combination that depends on which chunks went *)
(* in and in which order, so acc is that sequence of chunk numbers.        *)
(***************************************************************************)
EXTENDS Naturals, Sequences

CONSTANTS
  Hashes,     \* state hashes
  MaxChunks,  \* the longest input
  None,       \* an empty slot of the stack
  Err         \* the Err of a Result

ASSUME MaxChunksAssumption == MaxChunks \in Nat

ChunkProof == [initial : Hashes, final : Hashes]

RecursiveProof == [initial : Hashes, final : Hashes, depth : Nat,
                   num_folded : Nat, acc : Seq(Nat)]

ASSUME NoneAssumption ==
  None \notin RecursiveProof /\ Err \notin RecursiveProof /\ None # Err

VARIABLES
  chunks,   \* the iterator's chunk proofs
  count,    \* how many were placed on the stack
  stack,    \* stack[l + 1] is the entry of tree level l
  current,  \* the proof being carried
  level,    \* the slot it is at, or the slot being drained
  pc,
  result    \* Ok's proof, Err, or None while there is none

vars == <<chunks, count, stack, current, level, pc, result>>

(* begin_chunk / begin_chunk_scheme on the i-th chunk *)
begin_chunk(chunk, i) ==
  [initial |-> chunk.initial, final |-> chunk.final, depth |-> 1,
   num_folded |-> 1, acc |-> <<i>>]

(* Faulty variant of fold_recursive_proofs: the halves change places. *)
Bad_fold_recursive_proofs(left, right) ==
  IF left.final # right.initial
  THEN Err
  ELSE [initial |-> left.initial, final |-> right.final,
        depth |-> left.depth + right.depth,
        num_folded |-> left.num_folded + right.num_folded,
        acc |-> right.acc \o left.acc]

(* fold_recursive_proofs: the state chain must not break between halves. *)
fold_recursive_proofs(left, right) ==
  IF left.final # right.initial
  THEN Err
  ELSE [initial |-> left.initial, final |-> right.final,
        depth |-> left.depth + right.depth,
        num_folded |-> left.num_folded + right.num_folded,
        acc |-> left.acc \o right.acc]

Init ==
  /\ chunks \in UNION {[1 .. n -> ChunkProof] : n \in 0 .. MaxChunks}
  /\ count = 0
  /\ stack = <<>>
  /\ current = None
  /\ level = 0
  /\ pc = "next"
  /\ result = None

----------------------------------------------------------------------------
(* Faulty variants: a carry that goes on after a failed fold, a carry that *)
(* leaves the old entry in its slot, a drain that starts at the lowest     *)
(* level.                                                                  *)
Bad_CarryUnchecked ==
  /\ pc = "carry"
  /\ level <= Len(stack)
  /\ stack[level] # None
  /\ current' = fold_recursive_proofs(stack[level], current)
  /\ level' = level + 1
  /\ stack' = [stack EXCEPT ![level] = None]
  /\ UNCHANGED <<chunks, count, pc, result>>

Bad_Carry ==
  /\ pc = "carry"
  /\ level <= Len(stack)
  /\ stack[level] # None
  /\ LET folded == fold_recursive_proofs(stack[level], current) IN
       \/ /\ folded # Err
          /\ current' = folded
          /\ level' = level + 1
          /\ UNCHANGED <<pc, result>>
       \/ /\ folded = Err
          /\ result' = Err
          /\ pc' = "done"
          /\ UNCHANGED <<current, level>>
  /\ UNCHANGED <<chunks, count, stack>>

Bad_EndOfChunks ==
  /\ pc = "next"
  /\ count = Len(chunks)
  /\ \/ /\ count = 0
        /\ pc' = "done"
        /\ result' = Err
        /\ UNCHANGED level
     \/ /\ count > 0
        /\ pc' = "drain"
        /\ level' = 1
        /\ UNCHANGED result
  /\ UNCHANGED <<chunks, count, stack, current>>

----------------------------------------------------------------------------
(* The next chunk becomes a level-0 proof. *)
NextChunk ==
  /\ pc = "next"
  /\ count < Len(chunks)
  /\ current' = begin_chunk(chunks[count + 1], count + 1)
  /\ level' = 1
  /\ pc' = "carry"
  /\ UNCHANGED <<chunks, count, stack, result>>

(* The slot is taken: empty it, fold its entry (left) with current (right) *)
(* and carry the fold one level up.                                        *)
Carry ==
  /\ pc = "carry"
  /\ level <= Len(stack)
  /\ stack[level] # None
  /\ LET folded == fold_recursive_proofs(stack[level], current) IN
       \/ /\ folded # Err
          /\ current' = folded
          /\ level' = level + 1
          /\ UNCHANGED <<pc, result>>
       \/ /\ folded = Err
          /\ result' = Err
          /\ pc' = "done"
          /\ UNCHANGED <<current, level>>
  /\ stack' = [stack EXCEPT ![level] = None]
  /\ UNCHANGED <<chunks, count>>

(* The slot is free, or the stack grows by one. *)
Place ==
  /\ pc = "carry"
  /\ \/ /\ level > Len(stack)
        /\ stack' = Append(stack, current)
     \/ /\ level <= Len(stack)
        /\ stack[level] = None
        /\ stack' = [stack EXCEPT ![level] = current]
  /\ count' = count + 1
  /\ current' = None
  /\ level' = 0
  /\ pc' = "next"
  /\ UNCHANGED <<chunks, result>>

(* No more chunks: drain the stack from its highest level. *)
EndOfChunks ==
  /\ pc = "next"
  /\ count = Len(chunks)
  /\ \/ /\ count = 0
        /\ pc' = "done"
        /\ result' = Err
        /\ UNCHANGED level
     \/ /\ count > 0
        /\ pc' = "drain"
        /\ level' = Len(stack)
        /\ UNCHANGED result
  /\ UNCHANGED <<chunks, count, stack, current>>

(* One round of the final loop: remaining is the stack without its None    *)
(* entries, folded from its last (oldest) entry to its first.              *)
Drain ==
  /\ pc = "drain"
  /\ level > 0
  /\ LET folded == IF stack[level] = None THEN result
                   ELSE IF result = None THEN stack[level]
                   ELSE fold_recursive_proofs(result, stack[level])
     IN  /\ result' = folded
         /\ pc' = IF folded = Err THEN "done" ELSE pc
  /\ level' = level - 1
  /\ UNCHANGED <<chunks, count, stack, current>>

Finish ==
  /\ pc = "drain"
  /\ level = 0
  /\ pc' = "done"
  /\ UNCHANGED <<chunks, count, stack, current, level, result>>

Done == pc = "done" /\ UNCHANGED vars

Next == NextChunk \/ Carry \/ Place \/ EndOfChunks \/ Drain \/ Finish \/ Done

Spec == Init /\ [][Next]_vars

----------------------------------------------------------------------------
(* Properties *)

(* The type invariant of tree_fold's locals. *)
TypeOK ==
  /\ chunks \in Seq(ChunkProof)
  /\ count \in Nat
  /\ stack \in Seq(RecursiveProof \union {None})
  /\ current \in RecursiveProof \union {None}
  /\ level \in Nat
  /\ pc \in {"next", "carry", "drain", "done"}
  /\ result \in RecursiveProof \union {None, Err}

(* The state chain of the chunks from number i to number j *)
ChainHolds(i, j) ==
  \A k \in i .. j - 1 : chunks[k].final = chunks[k + 1].initial

(* fold_chunks / fold_chunks_scheme, the linear chain of recursive.rs: one *)
(* chunk after the other onto the accumulator.                             *)
LinearFold ==
  LET fold[n \in 0 .. Len(chunks)] ==
        IF n = 0 THEN Err
        ELSE IF n = 1 THEN begin_chunk(chunks[1], 1)
        ELSE IF fold[n - 1] = Err THEN Err
        ELSE fold_recursive_proofs(fold[n - 1], begin_chunk(chunks[n], n))
  IN  fold[Len(chunks)]

(* Tree folding returns exactly what the linear chain returns: the same    *)
(* chunks in the same order, the same boundary hashes and count, and Err   *)
(* for the same inputs, although the tree finds a break in another order.  *)
TreeFoldIsLinearFold == pc = "done" => result = LinearFold

(* The doc of tree_fold: Err if the state chain is broken between any      *)
(* adjacent chunks or the iterator is empty; otherwise the proof spans all *)
(* chunks, from the first initial to the last final hash, each one once    *)
(* and in order, and verify_final's num_folded = depth check passes.       *)
FoldSpansAllChunks ==
  pc = "done" =>
    IF chunks = <<>> \/ ~ChainHolds(1, Len(chunks))
    THEN result = Err
    ELSE /\ result \in RecursiveProof
         /\ result.initial = chunks[1].initial
         /\ result.final = chunks[Len(chunks)].final
         /\ result.depth = Len(chunks)
         /\ result.num_folded = Len(chunks)
         /\ result.acc = [i \in 1 .. Len(chunks) |-> i]

(* "stack[i] holds a proof at level i (folded from 2^i chunks) if present" *)
(* and never more: the levels present are the binary digits of count, so   *)
(* at most log2(n) + 1 partial proofs are alive.                           *)
StackIsBinaryCounter ==
  pc \in {"next", "drain"} =>
    \A l \in 1 .. Len(stack) :
      IF (count \div 2^(l - 1)) % 2 = 1
      THEN stack[l] # None /\ stack[l].num_folded = 2^(l - 1)
      ELSE stack[l] = None

=============================================================================
