------------------------- MODULE ProofSystemProofs -------------------------
(***************************************************************************)
(* Proofs about the proof system: TreeFold for chunk sequences of any      *)
(* length and any state hashes, CrossAirLinkage for any two traces,        *)
(* MemoryArgument for traces of any length, and ProofTranscript for every  *)
(* constraint system.                                                      *)
(***************************************************************************)
EXTENDS MCProofSystem, NumberLemmas, SequenceTheorems, TLAPS

----------------------------------------------------------------------------
(* Proofs of consecutive chunks *)

(* The proof that folds the chunks from number i to number j of s *)
Span(s, i, j) ==
  [initial |-> s[i].initial, final |-> s[j].final,
   depth |-> j - i + 1, num_folded |-> j - i + 1,
   acc |-> [k \in 1 .. j - i + 1 |-> i + k - 1]]

(* Their state chain *)
Linked(s, i, j) == \A k \in i .. j - 1 : s[k].final = s[k + 1].initial

Spans(s, p, i, j) == i <= j /\ p = Span(s, i, j) /\ Linked(s, i, j)

(* A chunk is the span of itself. *)
LEMMA SingleSpan ==
  ASSUME chunks \in Seq(ChunkProof), NEW i \in 1 .. Len(chunks)
  PROVE  Spans(chunks, begin_chunk(chunks[i], i), i, i)
<1>1. <<i>> = [k \in 1 .. i - i + 1 |-> i + k - 1]
  <2>1. i - i + 1 = 1
    OBVIOUS
  <2>2. \A k \in 1 .. 1 : i + k - 1 = i
    OBVIOUS
  <2> QED BY <2>1, <2>2
<1>2. Linked(chunks, i, i)
  BY DEF Linked
<1> QED BY <1>1, <1>2 DEF Spans, Span, begin_chunk

(* The span of existing chunks is a proof. *)
LEMMA SpanType ==
  ASSUME chunks \in Seq(ChunkProof),
         NEW i \in 1 .. Len(chunks), NEW j \in 1 .. Len(chunks), i <= j
  PROVE  Span(chunks, i, j) \in RecursiveProof
<1>1. chunks[i] \in ChunkProof /\ chunks[j] \in ChunkProof
  OBVIOUS
<1>2. [k \in 1 .. j - i + 1 |-> i + k - 1] \in Seq(Nat)
  <2>1. \A k \in 1 .. j - i + 1 : i + k - 1 \in Nat
    OBVIOUS
  <2>2. j - i + 1 \in Nat
    OBVIOUS
  <2> QED BY <2>1, <2>2
<1> QED BY <1>1, <1>2 DEF Span, RecursiveProof, ChunkProof

(* Two spans that meet fold to the span of both, or to Err if the state    *)
(* chain breaks where they meet.                                           *)
LEMMA SpansFold ==
  ASSUME chunks \in Seq(ChunkProof),
         NEW i \in 1 .. Len(chunks), NEW j \in 1 .. Len(chunks),
         NEW m \in 1 .. Len(chunks), i <= j, j < m,
         NEW p, NEW q, Spans(chunks, p, i, j), Spans(chunks, q, j + 1, m)
  PROVE  IF chunks[j].final = chunks[j + 1].initial
         THEN Spans(chunks, fold_recursive_proofs(p, q), i, m)
         ELSE fold_recursive_proofs(p, q) = Err
<1>1. p.final = chunks[j].final /\ q.initial = chunks[j + 1].initial
  BY DEF Spans, Span
<1>2. CASE chunks[j].final # chunks[j + 1].initial
  BY <1>1, <1>2 DEF fold_recursive_proofs
<1>3. CASE chunks[j].final = chunks[j + 1].initial
  <2> DEFINE a == [k \in 1 .. j - i + 1 |-> i + k - 1]
             b == [k \in 1 .. m - (j + 1) + 1 |-> j + 1 + k - 1]
  <2>1. a \o b = [k \in 1 .. m - i + 1 |-> i + k - 1]
    <3>1. a \in Seq(Nat) /\ Len(a) = j - i + 1
      <4>1. \A k \in 1 .. j - i + 1 : i + k - 1 \in Nat
        OBVIOUS
      <4>2. j - i + 1 \in Nat
        OBVIOUS
      <4> QED BY <4>1, <4>2
    <3>2. b \in Seq(Nat) /\ Len(b) = m - (j + 1) + 1
      <4>1. \A k \in 1 .. m - (j + 1) + 1 : j + 1 + k - 1 \in Nat
        OBVIOUS
      <4>2. m - (j + 1) + 1 \in Nat
        OBVIOUS
      <4> QED BY <4>1, <4>2
    <3>3. \A k \in 1 .. j - i + 1 : a[k] = i + k - 1
      OBVIOUS
    <3>4. \A k \in 1 .. m - (j + 1) + 1 : b[k] = j + 1 + k - 1
      OBVIOUS
    <3> HIDE DEF a, b
    <3>5. /\ a \o b \in Seq(Nat)
          /\ Len(a \o b) = Len(a) + Len(b)
          /\ \A k \in 1 .. Len(a) + Len(b) :
               (a \o b)[k] = IF k <= Len(a) THEN a[k] ELSE b[k - Len(a)]
      BY <3>1, <3>2, ConcatProperties
    <3>6. ASSUME NEW k \in 1 .. m - i + 1 PROVE (a \o b)[k] = i + k - 1
      <4>1. CASE k <= j - i + 1
        BY <4>1, <3>1, <3>2, <3>3, <3>5
      <4>2. CASE k > j - i + 1
        <5>1. k - (j - i + 1) \in 1 .. m - (j + 1) + 1
          BY <4>2
        <5>2. (a \o b)[k] = b[k - (j - i + 1)]
          BY <4>2, <3>1, <3>2, <3>5
        <5>3. b[k - (j - i + 1)] = j + 1 + (k - (j - i + 1)) - 1
          BY <5>1, <3>4
        <5> QED BY <5>2, <5>3
      <4>3. k <= j - i + 1 \/ k > j - i + 1
        OBVIOUS
      <4> QED BY <4>1, <4>2, <4>3, Zenon
    <3> DEFINE c == a \o b
    <3>7. c \in Seq(Nat) /\ Len(c) = m - i + 1
      BY <3>1, <3>2, <3>5
    <3> HIDE DEF c
    <3>8. c = [k \in 1 .. m - i + 1 |-> c[k]]
      BY <3>7
    <3> QED BY <3>6, <3>8 DEF c
  <2>2. fold_recursive_proofs(p, q)
          = [initial |-> p.initial, final |-> q.final,
             depth |-> p.depth + q.depth,
             num_folded |-> p.num_folded + q.num_folded, acc |-> p.acc \o q.acc]
    BY <1>1, <1>3 DEF fold_recursive_proofs
  <2>3. /\ p.initial = chunks[i].initial /\ q.final = chunks[m].final
        /\ p.depth = j - i + 1 /\ q.depth = m - (j + 1) + 1
        /\ p.num_folded = j - i + 1 /\ q.num_folded = m - (j + 1) + 1
        /\ p.acc = a /\ q.acc = b
    BY DEF Spans, Span
  <2> HIDE DEF a, b
  <2>4. j - i + 1 + (m - (j + 1) + 1) = m - i + 1
    OBVIOUS
  <2>5. fold_recursive_proofs(p, q) = Span(chunks, i, m)
    BY <2>1, <2>2, <2>3, <2>4 DEF Span
  <2>6. Linked(chunks, i, m)
    <3>1. ASSUME NEW k \in i .. m - 1
          PROVE  chunks[k].final = chunks[k + 1].initial
      <4>1. k \in i .. j - 1 \/ k = j \/ k \in j + 1 .. m - 1
        OBVIOUS
      <4> QED BY <4>1, <1>3 DEF Spans, Linked
    <3> QED BY <3>1 DEF Linked
  <2> QED BY <1>3, <2>5, <2>6 DEF Spans
<1> QED BY <1>2, <1>3

----------------------------------------------------------------------------
(* The linear chain *)

(* What the linear chain of recursive.rs returns: Err if there is no chunk *)
(* or the state chain breaks anywhere, else the span of all chunks.        *)
LinearValue(n) == IF n = 0 \/ ~Linked(chunks, 1, n) THEN Err ELSE Span(chunks, 1, n)

(* The equation that defines the linear chain *)
LinearStep(f, n) ==
  IF n = 0 THEN Err
  ELSE IF n = 1 THEN begin_chunk(chunks[1], 1)
  ELSE IF f[n - 1] = Err THEN Err
  ELSE fold_recursive_proofs(f[n - 1], begin_chunk(chunks[n], n))

(* LinearValue solves it. *)
LEMMA LinearValueSolves ==
  ASSUME chunks \in Seq(ChunkProof), NEW n \in 0 .. Len(chunks)
  PROVE  LinearValue(n)
           = LinearStep([m \in 0 .. Len(chunks) |-> LinearValue(m)], n)
<1> DEFINE f == [m \in 0 .. Len(chunks) |-> LinearValue(m)]
<1>1. CASE n = 0
  BY <1>1 DEF LinearValue, LinearStep
<1>2. CASE n = 1
  <2>1. Spans(chunks, begin_chunk(chunks[1], 1), 1, 1)
    BY <1>2, SingleSpan
  <2> QED BY <1>2, <2>1 DEF LinearValue, LinearStep, Spans
<1>3. CASE n > 1
  <2>1. f[n - 1] = LinearValue(n - 1)
    BY <1>3
  <2> HIDE DEF f
  <2>2. Linked(chunks, 1, n)
          <=> Linked(chunks, 1, n - 1) /\ chunks[n - 1].final = chunks[n].initial
    <3>1. ASSUME NEW k \in 1 .. n - 1 PROVE k \in 1 .. n - 1 - 1 \/ k = n - 1
      BY <1>3
    <3>2. n - 1 \in 1 .. n - 1 /\ n - 1 + 1 = n
      BY <1>3
    <3>3. 1 .. n - 1 - 1 \subseteq 1 .. n - 1
      OBVIOUS
    <3> QED BY <3>1, <3>2, <3>3 DEF Linked
  <2>3. CASE ~Linked(chunks, 1, n - 1)
    BY <1>3, <2>1, <2>2, <2>3 DEF LinearValue, LinearStep
  <2>4. CASE Linked(chunks, 1, n - 1)
    <3>1. f[n - 1] = Span(chunks, 1, n - 1)
      BY <1>3, <2>1, <2>4 DEF LinearValue
    <3>2. f[n - 1] # Err
      <4>1. Span(chunks, 1, n - 1) \in RecursiveProof
        BY <1>3, SpanType
      <4> QED BY <3>1, <4>1, NoneAssumption
    <3>3. Spans(chunks, f[n - 1], 1, n - 1)
      BY <1>3, <2>4, <3>1 DEF Spans
    <3>4. Spans(chunks, begin_chunk(chunks[n], n), n, n)
      BY <1>3, SingleSpan
    <3>5. n - 1 \in 1 .. Len(chunks) /\ 1 \in 1 .. Len(chunks)
            /\ n \in 1 .. Len(chunks) /\ n - 1 + 1 = n /\ n - 1 < n /\ 1 <= n - 1
      BY <1>3
    <3>6. IF chunks[n - 1].final = chunks[n].initial
          THEN Spans(chunks, fold_recursive_proofs(f[n - 1], begin_chunk(chunks[n], n)), 1, n)
          ELSE fold_recursive_proofs(f[n - 1], begin_chunk(chunks[n], n)) = Err
      <4> DEFINE j == n - 1
      <4>1. j \in 1 .. Len(chunks) /\ 1 <= j /\ j < n /\ j + 1 = n
        BY <3>5
      <4>2. Spans(chunks, f[j], 1, j)
        BY <3>3
      <4> HIDE DEF j
      <4>3. IF chunks[j].final = chunks[j + 1].initial
            THEN Spans(chunks, fold_recursive_proofs(f[j], begin_chunk(chunks[n], n)), 1, n)
            ELSE fold_recursive_proofs(f[j], begin_chunk(chunks[n], n)) = Err
        BY <4>1, <4>2, <3>4, <3>5, SpansFold
      <4> QED BY <4>1, <4>3 DEF j
    <3>7. LinearStep(f, n) = fold_recursive_proofs(f[n - 1], begin_chunk(chunks[n], n))
      BY <1>3, <3>2 DEF LinearStep
    <3> QED BY <1>3, <2>2, <2>4, <3>6, <3>7 DEF LinearValue, Spans
  <2> QED BY <2>3, <2>4 DEF f
<1> QED BY <1>1, <1>2, <1>3

(* It has one solution only. *)
LEMMA LinearUnique ==
  ASSUME NEW N \in Nat, NEW f, NEW g,
         f = [n \in 0 .. N |-> LinearStep(f, n)],
         g = [n \in 0 .. N |-> LinearStep(g, n)]
  PROVE  f = g
<1> DEFINE T == {n \in 0 .. N : f[n] # g[n]}
<1>1. SUFFICES ASSUME T # {} PROVE FALSE
  BY Zenon
<1>2. PICK x \in T : x - 1 \notin T
  <2>1. T \subseteq Nat
    OBVIOUS
  <2> HIDE DEF T
  <2> QED BY <1>1, <2>1, FirstNat
<1>3. f[x] = LinearStep(f, x) /\ g[x] = LinearStep(g, x)
  OBVIOUS
<1>4. CASE x = 0
  BY <1>3, <1>4 DEF LinearStep
<1>5. CASE x # 0
  <2>1. x - 1 \in 0 .. N /\ x - 1 < x
    BY <1>5
  <2>2. f[x - 1] = g[x - 1]
    BY <1>2, <2>1
  <2> QED BY <1>3, <2>2 DEF LinearStep
<1> QED BY <1>4, <1>5

LEMMA LinearFoldValue ==
  ASSUME chunks \in Seq(ChunkProof)
  PROVE  LinearFold = LinearValue(Len(chunks))
<1> DEFINE N == Len(chunks)
           v == [n \in 0 .. N |-> LinearValue(n)]
           f == CHOOSE h : h = [n \in 0 .. N |-> LinearStep(h, n)]
<1>1. v = [n \in 0 .. N |-> LinearStep(v, n)]
  BY LinearValueSolves
<1>2. LinearFold = f[N]
  BY DEF LinearFold, LinearStep
<1> HIDE DEF v
<1>3. \E h : h = [n \in 0 .. N |-> LinearStep(h, n)]
  BY <1>1
<1>4. f = [n \in 0 .. N |-> LinearStep(f, n)]
  BY <1>3
<1> HIDE DEF f
<1>5. f = v
  BY <1>1, <1>4, LinearUnique
<1> QED BY <1>2, <1>5 DEF v

----------------------------------------------------------------------------
(* The stack cuts the chunks taken so far into consecutive spans *)

(* b[l] is the number of chunks in the entries from slot l upwards. *)
Cut(b) ==
  /\ b \in [1 .. Len(stack) + 1 -> Nat]
  /\ b[Len(stack) + 1] = 0
  /\ \A l \in 1 .. Len(stack) :
       IF stack[l] = None THEN b[l] = b[l + 1]
       ELSE b[l] \in 1 .. Len(chunks) /\ Spans(chunks, stack[l], b[l + 1] + 1, b[l])

Taking(b) == b[1] = count /\ count <= Len(chunks) /\ result = None

(* The carried proof goes on where the entries above it end. *)
Carrying(b) ==
  /\ count < Len(chunks) /\ result = None
  /\ level \in 1 .. Len(stack) + 1
  /\ \A l \in 1 .. level - 1 : stack[l] = None
  /\ Spans(chunks, current, b[level] + 1, count + 1)

(* The drained entries are the oldest chunks. *)
Draining(b) ==
  /\ b[1] = count /\ count = Len(chunks) /\ count > 0
  /\ level \in 0 .. Len(stack)
  /\ IF b[level + 1] = 0 THEN result = None
     ELSE b[level + 1] <= Len(chunks) /\ Spans(chunks, result, 1, b[level + 1])

Progress ==
  \E b \in [1 .. Len(stack) + 1 -> Nat] :
    /\ Cut(b)
    /\ pc = "next" => Taking(b)
    /\ pc = "carry" => Carrying(b)
    /\ pc = "drain" => Draining(b)

FoldInv ==
  /\ TypeOK
  /\ pc # "done" => Progress
  /\ FoldSpansAllChunks

(* A break of the state chain anywhere makes Err the answer. *)
LEMMA BreakIsErr ==
  ASSUME chunks \in Seq(ChunkProof), NEW k \in 1 .. Len(chunks) - 1,
         chunks[k].final # chunks[k + 1].initial
  PROVE  ~ChainHolds(1, Len(chunks))
BY DEF ChainHolds

LEMMA FoldInit == Init => FoldInv
<1> SUFFICES ASSUME Init PROVE FoldInv
  OBVIOUS
<1>1. chunks \in Seq(ChunkProof)
  BY DEF Init
<1>2. TypeOK
  BY <1>1 DEF Init, TypeOK
<1>3. Progress
  <2> DEFINE b == [l \in 1 .. 1 |-> 0]
  <2>1. Len(stack) = 0 /\ count = 0 /\ result = None /\ pc = "next"
    BY DEF Init
  <2>2. b \in [1 .. Len(stack) + 1 -> Nat] /\ b[1] = 0
    BY <2>1
  <2> HIDE DEF b
  <2>3. Cut(b) /\ Taking(b)
    BY <1>1, <2>1, <2>2 DEF Cut, Taking
  <2> QED BY <2>1, <2>2, <2>3 DEF Progress
<1> QED BY <1>2, <1>3 DEF Init, FoldInv, FoldSpansAllChunks

LEMMA NextChunkStep ==
  ASSUME FoldInv, NextChunk
  PROVE  FoldInv'
<1> USE DEF NextChunk
<1>1. TypeOK /\ Progress
  BY DEF FoldInv
<1>2. PICK b \in [1 .. Len(stack) + 1 -> Nat] : Cut(b) /\ Taking(b)
  BY <1>1 DEF Progress
<1>3. count + 1 \in 1 .. Len(chunks)
  BY <1>1 DEF TypeOK
<1>4. Spans(chunks, current', count + 1, count + 1)
  BY <1>1, <1>3, SingleSpan DEF TypeOK
<1>5. current' \in RecursiveProof
  BY <1>1, <1>3, <1>4, SpanType DEF TypeOK, Spans
<1>6. TypeOK'
  BY <1>1, <1>5 DEF TypeOK
<1>7. Cut(b)'
  BY <1>2 DEF Cut
<1>8. Carrying(b)'
  <2>1. level' \in 1 .. Len(stack) + 1
    BY <1>1 DEF TypeOK
  <2> QED BY <1>1, <1>2, <1>4, <2>1 DEF Carrying, Taking, TypeOK
<1>9. Progress'
  BY <1>7, <1>8 DEF Progress
<1> QED BY <1>6, <1>9 DEF FoldInv, FoldSpansAllChunks

(* After a carry the slots below the new level hold nothing. *)
LEMMA CarryStep ==
  ASSUME FoldInv, Carry
  PROVE  FoldInv'
<1> USE DEF Carry
<1>1. TypeOK /\ Progress
  BY DEF FoldInv
<1>2. PICK b \in [1 .. Len(stack) + 1 -> Nat] : Cut(b) /\ Carrying(b)
  BY <1>1 DEF Progress
<1>3. level \in 1 .. Len(stack) /\ level + 1 \in 1 .. Len(stack) + 1
  BY <1>1, <1>2 DEF TypeOK, Carrying
<1> DEFINE i == b[level + 1] + 1
           j == b[level]
           m == count + 1
           folded == fold_recursive_proofs(stack[level], current)
<1>4. /\ j \in 1 .. Len(chunks) /\ i \in 1 .. Len(chunks) /\ i <= j
      /\ m \in 1 .. Len(chunks) /\ j < m
      /\ Spans(chunks, stack[level], i, j) /\ Spans(chunks, current, j + 1, m)
  <2>1. b[level] \in 1 .. Len(chunks) /\ Spans(chunks, stack[level], b[level + 1] + 1, b[level])
    BY <1>2, <1>3 DEF Cut
  <2>2. Spans(chunks, current, b[level] + 1, count + 1) /\ count + 1 \in 1 .. Len(chunks)
    BY <1>1, <1>2 DEF Carrying, TypeOK
  <2>3. b[level + 1] + 1 <= b[level] /\ b[level] + 1 <= count + 1
    BY <2>1, <2>2 DEF Spans
  <2>4. b[level + 1] \in Nat
    BY <1>2, <1>3
  <2>5. Len(chunks) \in Nat
    BY <1>1 DEF TypeOK
  <2> QED BY <1>1, <2>1, <2>2, <2>3, <2>4, <2>5 DEF TypeOK
<1>5. b[level + 1] \in Nat /\ i = b[level + 1] + 1
  BY <1>2, <1>3
<1> HIDE DEF i, j, m
<1>6. chunks \in Seq(ChunkProof)
  BY <1>1 DEF TypeOK
<1>7. IF chunks[j].final = chunks[j + 1].initial
      THEN Spans(chunks, folded, i, m) ELSE folded = Err
  BY <1>4, <1>6, SpansFold
<1>8. stack' \in Seq(RecursiveProof \union {None}) /\ Len(stack') = Len(stack)
  BY <1>1, <1>3 DEF TypeOK
<1>9. CASE chunks[j].final # chunks[j + 1].initial
  <2>1. folded = Err
    BY <1>7, <1>9
  <2>2. result' = Err /\ pc' = "done" /\ UNCHANGED <<current, level, chunks, count>>
    BY <2>1
  <2>3. j \in 1 .. Len(chunks) - 1
    BY <1>4, <1>6
  <2>4. ~ChainHolds(1, Len(chunks))'
    BY <1>6, <1>9, <2>2, <2>3, BreakIsErr DEF ChainHolds
  <2> QED BY <1>1, <1>8, <2>2, <2>4 DEF FoldInv, TypeOK, FoldSpansAllChunks
<1>10. CASE chunks[j].final = chunks[j + 1].initial
  <2>1. Spans(chunks, folded, i, m)
    BY <1>7, <1>10
  <2>2. folded \in RecursiveProof
    BY <1>4, <1>6, <2>1, SpanType DEF Spans
  <2>3. folded # Err
    BY <2>2, NoneAssumption
  <2>4. /\ current' = folded /\ level' = level + 1 /\ pc' = "carry" /\ pc = "carry"
        /\ UNCHANGED <<result, chunks, count>>
    BY <2>3
  <2>5. TypeOK'
    BY <1>1, <1>8, <2>2, <2>4 DEF TypeOK
  <2>6. PICK c \in [1 .. Len(stack) + 1 -> Nat] :
          /\ \A l \in 1 .. level + 1 : c[l] = b[level + 1]
          /\ \A l \in level + 1 .. Len(stack) + 1 : c[l] = b[l]
    <3> DEFINE d == [l \in 1 .. Len(stack) + 1 |->
                       IF l <= level THEN b[level + 1] ELSE b[l]]
    <3>1. d \in [1 .. Len(stack) + 1 -> Nat]
      BY <1>3, <1>5
    <3>2. /\ \A l \in 1 .. level + 1 : d[l] = b[level + 1]
          /\ \A l \in level + 1 .. Len(stack) + 1 : d[l] = b[l]
      BY <1>1, <1>3 DEF TypeOK
    <3> QED BY <3>1, <3>2
  <2>8. Cut(c)'
    <3>1. c[Len(stack) + 1] = 0
      BY <1>1, <1>2, <1>3, <2>6 DEF Cut, TypeOK
    <3>2. ASSUME NEW l \in 1 .. Len(stack)
          PROVE  IF stack'[l] = None THEN c[l] = c[l + 1]
                 ELSE c[l] \in 1 .. Len(chunks) /\ Spans(chunks, stack'[l], c[l + 1] + 1, c[l])
      <4>1. CASE l < level
        <5>1. stack'[l] = None
          BY <1>1, <1>2, <4>1 DEF TypeOK, Carrying
        <5> QED BY <1>1, <1>3, <2>6, <4>1, <5>1 DEF TypeOK
      <4>2. CASE l = level
        <5>1. stack'[l] = None
          BY <1>1, <1>3, <4>2 DEF TypeOK
        <5> QED BY <1>3, <2>6, <4>2, <5>1
      <4>3. CASE l > level
        <5>1. stack'[l] = stack[l]
          BY <1>1, <4>3 DEF TypeOK
        <5>2. c[l] = b[l] /\ c[l + 1] = b[l + 1]
          BY <1>1, <1>3, <2>6, <4>3 DEF TypeOK
        <5> QED BY <1>2, <5>1, <5>2 DEF Cut
      <4> QED BY <1>3, <4>1, <4>2, <4>3
    <3> QED BY <1>8, <2>4, <2>6, <3>1, <3>2 DEF Cut
  <2>9. Carrying(c)'
    <3>1. level' \in 1 .. Len(stack') + 1
      BY <1>3, <1>8, <2>4
    <3>2. ASSUME NEW l \in 1 .. level' - 1 PROVE stack'[l] = None
      BY <1>1, <1>2, <1>3, <2>4 DEF TypeOK, Carrying
    <3>3. c[level'] + 1 = i
      BY <1>3, <1>5, <2>4, <2>6
    <3> QED BY <1>2, <2>1, <2>4, <3>1, <3>2, <3>3
            DEF Carrying, m
  <2>10. Progress'
    BY <1>8, <2>4, <2>6, <2>8, <2>9 DEF Progress
  <2> QED BY <2>4, <2>5, <2>10 DEF FoldInv, FoldSpansAllChunks
<1> QED BY <1>9, <1>10

(* The carried proof fills the slot it stands at, new or free. *)
LEMMA PlaceStep ==
  ASSUME FoldInv, Place
  PROVE  FoldInv'
<1> USE DEF Place
<1>1. TypeOK /\ Progress
  BY DEF FoldInv
<1>2. PICK b \in [1 .. Len(stack) + 1 -> Nat] : Cut(b) /\ Carrying(b)
  BY <1>1 DEF Progress
<1>3. /\ stack \in Seq(RecursiveProof \union {None}) /\ Len(stack) \in Nat
      /\ level \in 1 .. Len(stack) + 1 /\ count \in Nat /\ Len(chunks) \in Nat
      /\ count + 1 \in 1 .. Len(chunks)
  BY <1>1, <1>2 DEF TypeOK, Carrying
<1>4. b[level] \in Nat /\ Spans(chunks, current, b[level] + 1, count + 1)
  BY <1>2, <1>3 DEF Carrying
<1>5. current \in RecursiveProof /\ current # None
  <2>1. b[level] + 1 \in 1 .. Len(chunks) /\ b[level] + 1 <= count + 1
    BY <1>3, <1>4 DEF Spans
  <2>2. current \in RecursiveProof
    BY <1>1, <1>3, <1>4, <2>1, SpanType DEF TypeOK, Spans
  <2> QED BY <2>2, NoneAssumption
<1>6. /\ stack' \in Seq(RecursiveProof \union {None})
      /\ level \in 1 .. Len(stack') /\ Len(stack) <= Len(stack')
      /\ Len(stack') \in Nat
      /\ stack'[level] = current
      /\ \A l \in 1 .. level - 1 : stack'[l] = None
      /\ \A l \in level + 1 .. Len(stack') : l <= Len(stack) /\ stack'[l] = stack[l]
  <2>1. CASE level > Len(stack)
    <3>1. level = Len(stack) + 1
      BY <1>3, <2>1
    <3>2. stack' = Append(stack, current)
      BY <1>3, <2>1
    <3> QED BY <1>2, <1>3, <1>5, <3>1, <3>2 DEF Carrying
  <2>2. CASE level <= Len(stack)
    <3>1. stack' = [stack EXCEPT ![level] = current]
      BY <1>3, <2>2
    <3> QED BY <1>2, <1>3, <1>5, <2>2, <3>1 DEF Carrying
  <2> QED BY <1>3, <2>1, <2>2
<1>7. b[level] = IF level < Len(stack') THEN b[level + 1] ELSE 0
  <2>1. CASE level > Len(stack)
    <3>1. level = Len(stack) + 1
      BY <1>3, <2>1
    <3>2. stack' = Append(stack, current)
      BY <1>3, <2>1
    <3> QED BY <1>2, <1>3, <3>1, <3>2 DEF Cut
  <2>2. CASE level <= Len(stack)
    <3>1. stack[level] = None /\ Len(stack') = Len(stack)
      BY <1>3, <2>2
    <3>2. b[level] = b[level + 1]
      BY <1>2, <1>3, <2>2, <3>1 DEF Cut
    <3> QED BY <1>2, <1>3, <2>2, <3>1, <3>2 DEF Cut
  <2> QED BY <1>3, <2>1, <2>2
<1>8. PICK c \in [1 .. Len(stack') + 1 -> Nat] :
        /\ \A l \in 1 .. level : c[l] = count + 1
        /\ \A l \in level + 1 .. Len(stack') : c[l] = b[l]
        /\ c[Len(stack') + 1] = 0
  <2> DEFINE d == [l \in 1 .. Len(stack') + 1 |->
                     IF l <= level THEN count + 1
                     ELSE IF l <= Len(stack') THEN b[l] ELSE 0]
  <2>1. \A l \in level + 1 .. Len(stack') : b[l] \in Nat
    BY <1>3, <1>6
  <2>2. d \in [1 .. Len(stack') + 1 -> Nat]
    BY <1>3, <1>6, <2>1
  <2>3. /\ \A l \in 1 .. level : d[l] = count + 1
        /\ \A l \in level + 1 .. Len(stack') : d[l] = b[l]
        /\ d[Len(stack') + 1] = 0
    BY <1>3, <1>6
  <2> QED BY <2>2, <2>3
<1>9. c[level + 1] = b[level]
  <2>1. CASE level < Len(stack')
    <3>1. level + 1 \in level + 1 .. Len(stack')
      BY <1>3, <1>6, <2>1
    <3> QED BY <1>7, <1>8, <2>1, <3>1
  <2>2. CASE ~(level < Len(stack'))
    <3>1. level = Len(stack')
      BY <1>3, <1>6, <2>2
    <3> QED BY <1>7, <1>8, <2>2, <3>1
  <2> QED BY <2>1, <2>2
<1>10. Cut(c)'
  <2>1. ASSUME NEW l \in 1 .. Len(stack')
        PROVE  IF stack'[l] = None THEN c[l] = c[l + 1]
               ELSE c[l] \in 1 .. Len(chunks) /\ Spans(chunks, stack'[l], c[l + 1] + 1, c[l])
    <3>1. CASE l < level
      <4>1. stack'[l] = None
        BY <1>3, <1>6, <3>1
      <4>2. c[l] = count + 1 /\ c[l + 1] = count + 1
        BY <1>3, <1>8, <3>1
      <4> QED BY <4>1, <4>2
    <3>2. CASE l = level
      BY <1>3, <1>4, <1>5, <1>6, <1>8, <1>9, <3>2
    <3>3. CASE l > level
      <4>1. stack'[l] = stack[l] /\ l \in 1 .. Len(stack)
        BY <1>3, <1>6, <3>3
      <4>2. c[l] = b[l]
        <5>1. l \in level + 1 .. Len(stack')
          BY <1>3, <1>6, <3>3
        <5> QED BY <1>8, <5>1
      <4>3. c[l + 1] = b[l + 1]
        <5>1. CASE l < Len(stack')
          <6>1. l + 1 \in level + 1 .. Len(stack')
            BY <1>3, <1>6, <3>3, <5>1
          <6> QED BY <1>8, <6>1
        <5>2. CASE ~(l < Len(stack'))
          <6>1. l = Len(stack') /\ l = Len(stack)
            BY <1>3, <1>6, <3>3, <4>1, <5>2
          <6> QED BY <1>2, <1>8, <6>1 DEF Cut
        <5> QED BY <5>1, <5>2
      <4> QED BY <1>2, <4>1, <4>2, <4>3 DEF Cut
    <3> QED BY <1>3, <3>1, <3>2, <3>3
  <2> QED BY <1>8, <2>1 DEF Cut
<1>11. Taking(c)'
  BY <1>2, <1>3, <1>8 DEF Taking, Carrying
<1>12. TypeOK'
  BY <1>1, <1>3, <1>6 DEF TypeOK
<1>13. Progress'
  BY <1>10, <1>11 DEF Progress
<1> QED BY <1>12, <1>13 DEF FoldInv, FoldSpansAllChunks

LEMMA EndOfChunksStep ==
  ASSUME FoldInv, EndOfChunks
  PROVE  FoldInv'
<1> USE DEF EndOfChunks
<1>1. TypeOK /\ Progress
  BY DEF FoldInv
<1>2. PICK b \in [1 .. Len(stack) + 1 -> Nat] : Cut(b) /\ Taking(b)
  BY <1>1 DEF Progress
<1>3. TypeOK'
  BY <1>1 DEF TypeOK
<1>4. CASE count = 0
  <2>1. chunks' = <<>> /\ result' = Err /\ pc' = "done"
    <3>1. chunks \in Seq(ChunkProof) /\ Len(chunks) = 0
      BY <1>1, <1>4 DEF TypeOK
    <3> QED BY <1>4, <3>1, EmptySeq
  <2> QED BY <1>3, <2>1 DEF FoldInv, FoldSpansAllChunks
<1>5. CASE count # 0
  <2>1. pc' = "drain" /\ level' = Len(stack) /\ result' = result
    BY <1>1, <1>5 DEF TypeOK
  <2>2. Cut(b)'
    BY <1>2 DEF Cut
  <2>3. Draining(b)'
    <3>1. b[level' + 1] = 0 /\ level' \in 0 .. Len(stack)
      BY <1>1, <1>2, <2>1 DEF Cut, TypeOK
    <3> QED BY <1>1, <1>2, <1>5, <2>1, <3>1 DEF Draining, Taking, TypeOK
  <2>4. Progress'
    BY <2>1, <2>2, <2>3 DEF Progress
  <2> QED BY <1>3, <2>1, <2>4 DEF FoldInv, FoldSpansAllChunks
<1> QED BY <1>4, <1>5

(* An entry that is drained continues the result. *)
LEMMA DrainStep ==
  ASSUME FoldInv, Drain
  PROVE  FoldInv'
<1> USE DEF Drain
<1>1. TypeOK /\ Progress
  BY DEF FoldInv
<1>2. PICK b \in [1 .. Len(stack) + 1 -> Nat] : Cut(b) /\ Draining(b)
  BY <1>1 DEF Progress
<1>3. /\ level \in 1 .. Len(stack) /\ level' = level - 1 /\ level' \in 0 .. Len(stack)
      /\ level' + 1 = level /\ Len(chunks) \in Nat /\ Len(stack) \in Nat
      /\ b[level] \in Nat /\ b[level + 1] \in Nat
      /\ chunks \in Seq(ChunkProof)
  BY <1>1, <1>2 DEF Draining, TypeOK
<1>4. Cut(b)'
  BY <1>2 DEF Cut
<1>5. ASSUME IF b[level] = 0 THEN result' = None
             ELSE b[level] <= Len(chunks) /\ Spans(chunks, result', 1, b[level]),
             result' # Err, result' \in RecursiveProof \union {None}
      PROVE  FoldInv'
  <2>1. pc' = "drain"
    BY <1>5
  <2>2. Draining(b)'
    BY <1>2, <1>3, <1>5 DEF Draining
  <2>3. TypeOK'
    BY <1>1, <1>3, <1>5, <2>1 DEF TypeOK
  <2> QED BY <1>4, <2>1, <2>2, <2>3 DEF FoldInv, Progress, FoldSpansAllChunks
<1>6. None # Err /\ \A p \in RecursiveProof : p # Err /\ p # None
  BY NoneAssumption
<1>7. result \in RecursiveProof \union {None}
  <2>1. CASE b[level + 1] = 0
    BY <1>2, <2>1 DEF Draining
  <2>2. CASE b[level + 1] # 0
    <3>1. b[level + 1] \in 1 .. Len(chunks) /\ Spans(chunks, result, 1, b[level + 1])
      BY <1>2, <1>3, <2>2 DEF Draining
    <3> QED BY <1>3, <3>1, SpanType DEF Spans
  <2> QED BY <2>1, <2>2
<1>8. CASE stack[level] = None
  <2>1. result' = result /\ b[level] = b[level + 1]
    BY <1>2, <1>3, <1>8 DEF Cut
  <2> QED BY <1>2, <1>5, <1>6, <1>7, <2>1 DEF Draining
<1>9. CASE stack[level] # None
  <2>1. b[level] \in 1 .. Len(chunks) /\ Spans(chunks, stack[level], b[level + 1] + 1, b[level])
    BY <1>2, <1>3, <1>9 DEF Cut
  <2>2. b[level + 1] < b[level]
    BY <1>3, <2>1 DEF Spans
  <2>3. CASE b[level + 1] = 0
    <3>1. result' = stack[level] /\ b[level + 1] + 1 = 1
      BY <1>2, <1>9, <2>3 DEF Draining
    <3>2. Spans(chunks, result', 1, b[level])
      BY <2>1, <3>1
    <3>3. result' \in RecursiveProof
      BY <1>3, <2>1, <2>2, <3>2, SpanType DEF Spans
    <3> QED BY <1>3, <1>5, <1>6, <2>1, <3>2, <3>3
  <2>4. CASE b[level + 1] # 0
    <3> DEFINE j == b[level + 1]
    <3>1. j \in 1 .. Len(chunks) /\ j < b[level] /\ 1 \in 1 .. Len(chunks) /\ 1 <= j
      BY <1>3, <2>1, <2>2, <2>4
    <3>2. Spans(chunks, result, 1, j)
      BY <1>2, <2>4 DEF Draining
    <3>3. Spans(chunks, stack[level], j + 1, b[level])
      BY <2>1
    <3>4. result # None
      BY <1>3, <1>6, <3>1, <3>2, SpanType DEF Spans
    <3>5. result' = fold_recursive_proofs(result, stack[level])
      BY <1>9, <3>4
    <3> HIDE DEF j
    <3>6. IF chunks[j].final = chunks[j + 1].initial
          THEN Spans(chunks, result', 1, b[level]) ELSE result' = Err
      BY <1>3, <2>1, <3>1, <3>2, <3>3, <3>5, SpansFold
    <3>7. CASE chunks[j].final # chunks[j + 1].initial
      <4>1. result' = Err /\ pc' = "done"
        BY <3>6, <3>7
      <4>2. j \in 1 .. Len(chunks) - 1
        BY <1>3, <2>1, <3>1
      <4>3. ~ChainHolds(1, Len(chunks))'
        BY <1>3, <3>7, <4>2, BreakIsErr DEF ChainHolds
      <4>4. TypeOK'
        BY <1>1, <1>3, <4>1 DEF TypeOK
      <4> QED BY <4>1, <4>3, <4>4 DEF FoldInv, FoldSpansAllChunks
    <3>8. CASE chunks[j].final = chunks[j + 1].initial
      <4>1. Spans(chunks, result', 1, b[level])
        BY <3>6, <3>8
      <4>2. result' \in RecursiveProof
        BY <1>3, <2>1, <3>1, <4>1, SpanType DEF Spans
      <4> QED BY <1>3, <1>5, <1>6, <2>1, <4>1, <4>2
    <3> QED BY <3>7, <3>8
  <2> QED BY <2>3, <2>4
<1> QED BY <1>8, <1>9

LEMMA FinishStep ==
  ASSUME FoldInv, Finish
  PROVE  FoldInv'
<1> USE DEF Finish
<1>1. TypeOK /\ Progress
  BY DEF FoldInv
<1>2. PICK b \in [1 .. Len(stack) + 1 -> Nat] : Cut(b) /\ Draining(b)
  BY <1>1 DEF Progress
<1> DEFINE n == Len(chunks)
<1>3. n \in Nat /\ n > 0 /\ chunks \in Seq(ChunkProof) /\ Spans(chunks, result, 1, n)
  BY <1>1, <1>2 DEF Draining, TypeOK
<1>4. result \in RecursiveProof
  BY <1>3, SpanType DEF Spans
<1>5. /\ result.initial = chunks[1].initial /\ result.final = chunks[n].final
      /\ result.depth = n /\ result.num_folded = n
  BY <1>3 DEF Spans, Span
<1>6. result.acc = [i \in 1 .. n |-> i]
  <2>1. result.acc = [k \in 1 .. n - 1 + 1 |-> 1 + k - 1]
    BY <1>3 DEF Spans, Span
  <2>2. n - 1 + 1 = n /\ \A k \in 1 .. n : 1 + k - 1 = k
    BY <1>3
  <2> HIDE DEF n
  <2> QED BY <2>1, <2>2
<1>7. ChainHolds(1, n) /\ chunks # <<>>
  BY <1>3 DEF Spans, Linked, ChainHolds
<1>8. FoldSpansAllChunks'
  BY <1>4, <1>5, <1>6, <1>7 DEF FoldSpansAllChunks, ChainHolds
<1>9. TypeOK'
  BY <1>1 DEF TypeOK
<1> QED BY <1>8, <1>9 DEF FoldInv

LEMMA FoldStutter ==
  ASSUME FoldInv, UNCHANGED vars
  PROVE  FoldInv'
<1> USE DEF vars
<1>1. TypeOK'
  BY DEF FoldInv, TypeOK
<1>2. FoldSpansAllChunks'
  BY DEF FoldInv, FoldSpansAllChunks, ChainHolds
<1>3. ASSUME pc # "done" PROVE Progress'
  BY <1>3 DEF FoldInv, Progress, Cut, Taking, Carrying, Draining
<1> QED BY <1>1, <1>2, <1>3 DEF FoldInv

(* The stack always cuts the chunks taken so far into consecutive spans,   *)
(* the carried proof and the drained result fit into the cut, and a break  *)
(* of the state chain is reported wherever the tree meets it.              *)
THEOREM FoldInvIsInvariant == Spec => []FoldInv
<1>1. FoldInv /\ [Next]_vars => FoldInv'
  BY NextChunkStep, CarryStep, PlaceStep, EndOfChunksStep, DrainStep, FinishStep,
     FoldStutter
     DEF Next, Done
<1> QED BY <1>1, FoldInit, PTL DEF Spec

(* The doc of tree_fold, for every number of chunks: the proof spans all   *)
(* chunks, each once and in order, or the answer is Err because there is   *)
(* no chunk or the state chain breaks.                                     *)
THEOREM FoldSpans == Spec => []FoldSpansAllChunks
<1>1. FoldInv => FoldSpansAllChunks
  BY DEF FoldInv
<1> QED BY <1>1, FoldInvIsInvariant, PTL

(* Tree folding and the linear chain of recursive.rs agree on every input. *)
THEOREM TreeIsLinear == Spec => []TreeFoldIsLinearFold
<1>1. FoldInv => TreeFoldIsLinearFold
  <2> SUFFICES ASSUME FoldInv, pc = "done" PROVE result = LinearFold
    BY DEF TreeFoldIsLinearFold
  <2> DEFINE n == Len(chunks)
  <2>1. chunks \in Seq(ChunkProof) /\ n \in Nat /\ FoldSpansAllChunks
    BY DEF FoldInv, TypeOK
  <2>2. LinearFold = LinearValue(n)
    BY <2>1, LinearFoldValue
  <2>3. CASE chunks = <<>> \/ ~ChainHolds(1, n)
    BY <2>1, <2>2, <2>3 DEF FoldSpansAllChunks, LinearValue, Linked, ChainHolds
  <2>4. CASE ~(chunks = <<>> \/ ~ChainHolds(1, n))
    <3>1. n # 0 /\ Linked(chunks, 1, n)
      BY <2>1, <2>4 DEF Linked, ChainHolds
    <3>2. LinearFold = Span(chunks, 1, n)
      BY <2>2, <3>1 DEF LinearValue
    <3>3. /\ result \in RecursiveProof
          /\ result.initial = chunks[1].initial
          /\ result.final = chunks[n].final
          /\ result.depth = n
          /\ result.num_folded = n
          /\ result.acc = [i \in 1 .. n |-> i]
      BY <2>1, <2>4 DEF FoldSpansAllChunks
    <3>4. n - 1 + 1 = n /\ \A k \in 1 .. n : 1 + k - 1 = k
      BY <2>1
    <3> HIDE DEF n
    <3>5. [i \in 1 .. n |-> i] = [k \in 1 .. n - 1 + 1 |-> 1 + k - 1]
      BY <3>4
    <3>6. result = Span(chunks, 1, n)
      BY <3>3, <3>4, <3>5 DEF Span, RecursiveProof
    <3> QED BY <3>2, <3>6
  <2> QED BY <2>3, <2>4
<1> QED BY <1>1, FoldInvIsInvariant, PTL

----------------------------------------------------------------------------
(* The stack as a binary counter *)

(* An entry of slot l, and a proof carried to it, folds 2^(l - 1) chunks. *)
Sized ==
  /\ \A l \in 1 .. Len(stack) :
       stack[l] # None => stack[l].num_folded = 2^(l - 1)
  /\ pc = "carry" => current.num_folded = 2^(level - 1)

LEMMA SizedStep ==
  ASSUME FoldInv, Sized, [Next]_vars
  PROVE  Sized'
<1>1. TypeOK
  BY DEF FoldInv
<1>2. stack \in Seq(RecursiveProof \union {None}) /\ Len(stack) \in Nat
        /\ level \in Nat /\ count \in Nat
  BY <1>1 DEF TypeOK
<1>3. CASE NextChunk
  <2>1. current'.num_folded = 1 /\ level' = 1
    BY <1>3 DEF NextChunk, begin_chunk
  <2>2. 2^(level' - 1) = 1
    BY <2>1
  <2> QED BY <1>3, <2>1, <2>2 DEF NextChunk, Sized
<1>4. CASE Carry
  <2>1. level \in 1 .. Len(stack)
    <3>1. PICK b : Carrying(b)
      BY <1>4 DEF FoldInv, Progress, Carry
    <3> QED BY <1>2, <1>4, <3>1 DEF Carry, Carrying
  <2>2. stack' = [stack EXCEPT ![level] = None]
    BY <1>4 DEF Carry
  <2>3. ASSUME NEW l \in 1 .. Len(stack'), stack'[l] # None
        PROVE  stack'[l].num_folded = 2^(l - 1)
    <3>1. l \in 1 .. Len(stack) /\ l # level
      BY <1>2, <2>1, <2>2, <2>3
    <3>2. stack'[l] = stack[l]
      BY <1>2, <2>2, <3>1
    <3> QED BY <2>3, <3>1, <3>2 DEF Sized
  <2>4. CASE pc' # "carry"
    BY <2>3, <2>4 DEF Sized
  <2>5. CASE pc' = "carry"
    <3>1. /\ current' = fold_recursive_proofs(stack[level], current)
          /\ current' # Err /\ level' = level + 1
      BY <1>4, <2>5 DEF Carry
    <3>2. current'.num_folded = stack[level].num_folded + current.num_folded
      BY <3>1 DEF fold_recursive_proofs
    <3>3. stack[level].num_folded = 2^(level - 1) /\ current.num_folded = 2^(level - 1)
      BY <1>4, <2>1 DEF Carry, Sized
    <3>4. level - 1 \in Nat /\ level' - 1 = level - 1 + 1
      BY <2>1, <3>1
    <3>5. 2^(level' - 1) = 2^(level - 1) + 2^(level - 1)
      BY <3>4, PowerDoubles
    <3>6. current'.num_folded = 2^(level' - 1)
      BY <3>2, <3>3, <3>5, Zenon
    <3> QED BY <2>3, <3>6 DEF Sized
  <2> QED BY <2>4, <2>5
<1>5. CASE Place
  <2>1. level \in 1 .. Len(stack) + 1 /\ current.num_folded = 2^(level - 1)
    <3>1. PICK b : Carrying(b)
      BY <1>5 DEF FoldInv, Progress, Place
    <3> QED BY <1>2, <1>5, <3>1 DEF Place, Carrying, Sized
  <2>2. current \in RecursiveProof \union {None}
    BY <1>1 DEF TypeOK
  <2>3. ASSUME NEW l \in 1 .. Len(stack')
        PROVE  (l = level /\ stack'[l] = current) \/ (l \in 1 .. Len(stack) /\ stack'[l] = stack[l])
    <3>1. CASE level > Len(stack)
      <4>1. level = Len(stack) + 1 /\ stack' = Append(stack, current)
        BY <1>2, <1>5, <2>1, <3>1 DEF Place
      <4> QED BY <1>2, <2>2, <2>3, <4>1
    <3>2. CASE level <= Len(stack)
      <4>1. stack' = [stack EXCEPT ![level] = current]
        BY <1>2, <1>5, <3>2 DEF Place
      <4> QED BY <1>2, <2>1, <2>3, <4>1
    <3> QED BY <1>2, <3>1, <3>2
  <2>4. pc' = "next"
    BY <1>5 DEF Place
  <2> QED BY <2>1, <2>3, <2>4 DEF Sized
<1>6. CASE EndOfChunks \/ Drain \/ Finish
  BY <1>6 DEF EndOfChunks, Drain, Finish, Sized
<1>7. CASE Done \/ UNCHANGED vars
  BY <1>7 DEF Done, vars, Sized
<1> QED BY <1>3, <1>4, <1>5, <1>6, <1>7 DEF Next

(* With entries of these sizes, the cut is the binary notation of count. *)
LEMMA CutIsBinary ==
  ASSUME FoldInv, Sized
  PROVE  StackIsBinaryCounter
<1> SUFFICES ASSUME pc \in {"next", "drain"}, NEW m \in 1 .. Len(stack)
             PROVE  IF (count \div 2^(m - 1)) % 2 = 1
                    THEN stack[m] # None /\ stack[m].num_folded = 2^(m - 1)
                    ELSE stack[m] = None
  BY DEF StackIsBinaryCounter
<1> DEFINE N == Len(stack)
<1>1. TypeOK /\ Progress
  BY DEF FoldInv
<1>2. N \in Nat
  BY <1>1 DEF TypeOK
<1>3. PICK b \in [1 .. N + 1 -> Nat] : Cut(b) /\ b[1] = count
  BY <1>1 DEF Progress, Taking, Draining
<1>4. PICK p : /\ p \in [1 .. N + 1 -> Nat] /\ p[1] = 1
               /\ \A l \in 1 .. N : p[l] = 2^(l - 1)
               /\ \A l \in 1 .. N : p[l + 1] = p[l] + p[l]
  <2> DEFINE e == [l \in 1 .. N + 1 |-> 2^(l - 1)]
  <2>1. ASSUME NEW l \in 1 .. N + 1 PROVE 2^(l - 1) \in Nat
    <3>1. l - 1 \in Nat
      OBVIOUS
    <3> QED BY <3>1, PowerCounts
  <2>2. 2^(1 - 1) = 1
    OBVIOUS
  <2>3. ASSUME NEW l \in 1 .. N PROVE 2^(l + 1 - 1) = 2^(l - 1) + 2^(l - 1)
    <3>1. l - 1 \in Nat /\ l - 1 + 1 = l + 1 - 1
      OBVIOUS
    <3> QED BY <3>1, PowerDoubles
  <2>4. e \in [1 .. N + 1 -> Nat]
    BY <2>1
  <2>5. e[1] = 1
    BY <1>2, <2>2
  <2>6. ASSUME NEW l \in 1 .. N PROVE e[l] = 2^(l - 1) /\ e[l + 1] = e[l] + e[l]
    <3>1. e[l + 1] = 2^(l + 1 - 1) /\ e[l] = 2^(l - 1)
      BY <1>2
    <3> QED BY <2>3, <3>1, Zenon
  <2> QED BY <2>4, <2>5, <2>6
<1>5. ASSUME NEW l \in 1 .. N
      PROVE  IF stack[l] = None THEN b[l] = b[l + 1]
             ELSE b[l] = b[l + 1] + p[l] /\ b[l] # b[l + 1]
  <2>1. CASE stack[l] = None
    BY <1>3, <2>1 DEF Cut
  <2>2. CASE stack[l] # None
    <3>1. Spans(chunks, stack[l], b[l + 1] + 1, b[l])
      BY <1>3, <2>2 DEF Cut
    <3>2. stack[l].num_folded = b[l] - (b[l + 1] + 1) + 1 /\ b[l + 1] + 1 <= b[l]
      BY <3>1 DEF Spans, Span
    <3>3. stack[l].num_folded = p[l]
      BY <1>4, <2>2 DEF Sized
    <3>4. b[l] \in Nat /\ b[l + 1] \in Nat /\ p[l] \in Nat
      <4>1. l \in 1 .. N + 1 /\ l + 1 \in 1 .. N + 1
        BY <1>2
      <4> HIDE DEF N
      <4> QED BY <1>3, <1>4, <4>1
    <3>5. b[l] - (b[l + 1] + 1) + 1 = p[l]
      BY <3>2, <3>3
    <3> QED BY <2>2, <3>2, <3>4, <3>5
  <2> QED BY <2>1, <2>2
<1>6. b[N + 1] = 0
  BY <1>3 DEF Cut
<1> HIDE DEF N
<1>7. \A l \in 1 .. N : (b[1] \div p[l]) % 2 = IF b[l] = b[l + 1] THEN 0 ELSE 1
  <2>1. \A l \in 1 .. N : b[l] = b[l + 1] \/ b[l] = b[l + 1] + p[l]
    BY <1>5
  <2> QED BY <1>2, <1>3, <1>4, <1>6, <2>1, BinaryDigits
<1>8. m \in 1 .. N
  BY DEF N
<1>9. p[m] = 2^(m - 1) /\ (count \div p[m]) % 2 = IF b[m] = b[m + 1] THEN 0 ELSE 1
  BY <1>3, <1>4, <1>7, <1>8
<1>10. CASE stack[m] = None
  <2>1. (count \div 2^(m - 1)) % 2 = 0
    BY <1>5, <1>8, <1>9, <1>10
  <2> QED BY <1>10, <2>1
<1>11. CASE stack[m] # None
  <2>1. (count \div 2^(m - 1)) % 2 = 1
    BY <1>5, <1>8, <1>9, <1>11
  <2>2. stack[m].num_folded = 2^(m - 1)
    BY <1>11 DEF Sized
  <2> QED BY <1>11, <2>1, <2>2
<1> QED BY <1>10, <1>11

(* The comment on tree_fold's stack, for every number of chunks: between   *)
(* chunks the occupied levels are the binary digits of the number of       *)
(* chunks taken and the entry of level i folds exactly 2^i chunks, so that *)
(* log2(n) + 1 partial proofs are alive at most.                           *)
THEOREM StackCounts == Spec => []StackIsBinaryCounter
<1>1. Init => Sized
  BY DEF Init, Sized
<1>2. FoldInv /\ Sized /\ [Next]_vars => Sized'
  BY SizedStep
<1>3. FoldInv /\ Sized => StackIsBinaryCounter
  BY CutIsBinary
<1> QED BY <1>1, <1>2, <1>3, FoldInvIsInvariant, PTL DEF Spec

----------------------------------------------------------------------------
(* What a linkage computes, as functions of the two traces a *)

PadOf(a, s) ==
  LET native == nearest_power_of_two(Len(a[s].tuple))
  IN  IF a[s].lookups THEN Larger(native, RangeTable) ELSE native
SizeOf(a) == Larger(PadOf(a, "A"), PadOf(a, "B"))
FixOf(a, s) == IF a[s].fixes THEN a[s].tuple[Len(a[s].tuple)] ELSE 0
TupleOf(a, s, i) == IF i <= Len(a[s].tuple) THEN a[s].tuple[i] ELSE FixOf(a, s)
LiveOf(a, s, i) == a[s].gate = "none" \/ (i <= Len(a[s].tuple) /\ a[s].sel[i] # 0)
LiveRows(a, s) == {i \in 1 .. SizeOf(a) : LiveOf(a, s, i)}

(* How often A looks t up in its rows below n, and in all of them *)
CountTo(a, t, n) == Cardinality({i \in 1 .. n : i \in LiveRows(a, "A") /\ TupleOf(a, "A", i) = t})
CountOf(a, t) == CountTo(a, t, SizeOf(a))

(* Row i of B is the first with its tuple. *)
FirstOf(a, i) ==
  /\ i \in LiveRows(a, "B")
  /\ \A j \in LiveRows(a, "B") : j < i => TupleOf(a, "B", j) # TupleOf(a, "B", i)
WeightOf(a, i) == IF FirstOf(a, i) THEN CountOf(a, TupleOf(a, "B", i)) ELSE 0

(* The running sums: A's lookups so far, and the counts of the tuples that *)
(* B has shown so far                                                      *)
SumOf(a, s, n) ==
  [t \in Tuples |->
     IF s = "A" THEN CountTo(a, t, n)
     ELSE IF \E i \in 1 .. n : i \in LiveRows(a, "B") /\ TupleOf(a, "B", i) = t
          THEN CountOf(a, t) ELSE 0]

ActiveOf(a, s) == [i \in 1 .. SizeOf(a) |-> IF i \in LiveRows(a, s) THEN 1 ELSE 0]
TuplesOf(a, s) == Column(a[s].tuple, SizeOf(a), FixOf(a, s))
FsOf(a, s) ==
  [i \in 1 .. SizeOf(a) |->
     IF s = "A" THEN Times(IF i \in LiveRows(a, "A") THEN 1 ELSE 0, TupleOf(a, "A", i))
     ELSE Times(WeightOf(a, i), TupleOf(a, "B", i))]
HsOf(a, s) == [i \in 1 .. SizeOf(a) |-> SumOf(a, s, i - 1)]

InflatedOf(a) ==
  [s \in Sides |-> [tuple |-> TuplesOf(a, s), sel |-> Column(a[s].sel, SizeOf(a), 0)]]
CommittedOf(a) ==
  [s \in Sides |->
     [tuple |-> TuplesOf(a, s),
      sel |-> Column(a[s].sel, SizeOf(a), IF a[s].gate = "padding" THEN 1 ELSE 0)]]
WitnessOf(a) ==
  [s \in Sides |->
     [f |-> FsOf(a, s), h |-> HsOf(a, s), closure |-> SumOf(a, s, SizeOf(a))]]
LinkageOf(a) ==
  [s \in Sides |->
     [tuple |-> TuplesOf(a, s), active |-> ActiveOf(a, s),
      m |-> [i \in 1 .. SizeOf(a) |-> IF s = "A" THEN 0 ELSE WeightOf(a, i)],
      f |-> FsOf(a, s), h |-> HsOf(a, s)]]

IncludedIn(a) ==
  \A i \in LiveRows(a, "A") : \E j \in LiveRows(a, "B") :
    TupleOf(a, "A", i) = TupleOf(a, "B", j)

(* The selectors are those the linkage was built with. *)
SelectorsFit(a) ==
  \A s \in Sides :
    a[s].gate # "none" =>
      /\ \A i \in 1 .. Len(a[s].tuple) : a[s].sel[i] <= 1
      /\ a[s].gate = "padding" => Len(a[s].tuple) >= SizeOf(a)

(* Two traces with a selector value for every row *)
Pair(a) ==
  /\ a \in [Sides -> Traces]
  /\ \A s \in Sides : Len(a[s].tuple) > 0 /\ Len(a[s].sel) = Len(a[s].tuple)

(* The inductive invariant: each phase has stored what these functions say *)
(* of the traces.                                                          *)
LinkageInv ==
  /\ Pair(air)
  /\ lpc \in {"inflate", "commit", "witness", "linkage", "verify", "done"}
  /\ lpc # "inflate" => inflated = InflatedOf(air)
  /\ lpc \notin {"inflate", "commit"} => committed = CommittedOf(air)
  /\ lpc \in {"linkage", "verify"} => IncludedIn(air) /\ witness = WitnessOf(air)
  /\ lpc = "verify" => linkage = LinkageOf(air)
  /\ lpc = "done" =>
       \/ verdict = "unmatched" /\ ~IncludedIn(air)
       \/ /\ IncludedIn(air) /\ linkage = LinkageOf(air)
          /\ verdict = IF SelectorsFit(air) THEN "accepted" ELSE "rejected"

(* The padded size is a number and both traces fit. *)
LEMMA NearestHolds ==
  ASSUME NEW n \in Nat
  PROVE  nearest_power_of_two(n) \in Nat /\ nearest_power_of_two(n) >= n
<1> DEFINE P(k) == MinPad * 2^k
           S == {P(k) : k \in 0 .. n}
           T == {s \in S : n <= s}
<1>1. ASSUME NEW k \in 0 .. n PROVE P(k) \in Nat
  <2>1. 2^k \in Nat
    BY PowerExceeds
  <2> QED BY <2>1, LinkageAssumption
<1>2. P(n) >= n
  <2>1. 2^n \in Nat /\ n < 2^n
    BY PowerExceeds
  <2>2. \A m \in Nat \ {0}, p \in Nat : n < p => m * p >= n
    <3>1. ASSUME NEW m \in Nat \ {0}, NEW p \in Nat, n < p PROVE m * p >= n
      <4>1. m - 1 \in Nat /\ m * p = (m - 1) * p + p
        OBVIOUS
      <4>2. (m - 1) * p \in Nat
        BY <4>1
      <4> QED BY <3>1, <4>1, <4>2
    <3> QED BY <3>1
  <2> QED BY <2>1, <2>2, LinkageAssumption
<1>3. T # {} /\ T \subseteq Nat
  BY <1>1, <1>2
<1>4. PICK s \in T : \A t \in T : s <= t
  <2> HIDE DEF T
  <2> QED BY <1>3, LeastNat
<1>5. s \in S /\ n <= s /\ \A q \in S : n <= q => s <= q
  BY <1>4
<1> DEFINE c == CHOOSE p \in S : n <= p /\ \A q \in S : n <= q => p <= q
<1>6. nearest_power_of_two(n) = c
  BY DEF nearest_power_of_two
<1>7. c \in S /\ n <= c
  <2> HIDE DEF P, S
  <2> QED BY <1>5
<1>8. S \subseteq Nat
  BY <1>1
<1> HIDE DEF c, S
<1> QED BY <1>6, <1>7, <1>8

LEMMA SizeHolds ==
  ASSUME NEW a, Pair(a)
  PROVE  /\ SizeOf(a) \in Nat \ {0}
         /\ \A s \in Sides : Len(a[s].tuple) \in 1 .. SizeOf(a)
<1>1. ASSUME NEW s \in Sides
      PROVE  /\ Len(a[s].tuple) \in Nat /\ Len(a[s].tuple) >= 1
             /\ a[s].lookups \in BOOLEAN
  BY DEF Pair, Traces
<1>2. ASSUME NEW s \in Sides
      PROVE  PadOf(a, s) \in Nat /\ PadOf(a, s) >= Len(a[s].tuple)
  <2> DEFINE native == nearest_power_of_two(Len(a[s].tuple))
  <2>1. native \in Nat /\ native >= Len(a[s].tuple)
    BY <1>1, NearestHolds
  <2>2. PadOf(a, s) = IF a[s].lookups THEN Larger(native, RangeTable) ELSE native
    BY DEF PadOf
  <2> HIDE DEF native
  <2> QED BY <1>1, <2>1, <2>2, LinkageAssumption DEF Larger
<1> QED BY <1>1, <1>2 DEF SizeOf, Larger, Sides

(* The state functions of the model are these functions of air. *)
LEMMA OfAir ==
  /\ target_padded = SizeOf(air)
  /\ \A s \in Sides : fix_trace_padding(s) = FixOf(air, s)
  /\ \A s \in Sides : Rows(s) = Len(air[s].tuple)
BY DEF target_padded, effective_padded, SizeOf, PadOf, fix_trace_padding, FixOf, Rows, Sides

(* The tuples and the live rows of the inflated columns *)
LEMMA InflatedRows ==
  ASSUME Pair(air), inflated = InflatedOf(air), NEW s \in Sides
  PROVE  /\ \A i \in 1 .. SizeOf(air) : inflated[s].tuple[i] = TupleOf(air, s, i)
         /\ build_active_column(s) = LiveRows(air, s)
<1>1. SizeOf(air) \in Nat
  BY SizeHolds
<1>2. ASSUME NEW i \in 1 .. SizeOf(air)
      PROVE  /\ inflated[s].tuple[i] = TupleOf(air, s, i)
             /\ inflated[s].sel[i] = IF i <= Len(air[s].tuple) THEN air[s].sel[i] ELSE 0
  BY DEF InflatedOf, TuplesOf, Column, TupleOf, Pair
<1>3. ASSUME NEW i \in 1 .. SizeOf(air)
      PROVE  (air[s].gate = "none" \/ inflated[s].sel[i] # 0) <=> LiveOf(air, s, i)
  BY <1>2 DEF LiveOf
<1> QED BY <1>2, <1>3, OfAir DEF build_active_column, LiveRows

(* A count goes up by one at a row that counts. *)
LEMMA CountSteps ==
  ASSUME NEW a, NEW t, NEW n \in Nat
  PROVE  /\ CountTo(a, t, n) \in Nat /\ CountTo(a, t, 0) = 0
         /\ CountTo(a, t, n + 1) =
              CountTo(a, t, n)
                + (IF n + 1 \in LiveRows(a, "A") /\ TupleOf(a, "A", n + 1) = t THEN 1 ELSE 0)
<1> DEFINE R(m) == {i \in 1 .. m : i \in LiveRows(a, "A") /\ TupleOf(a, "A", i) = t}
<1>1. \A m \in Nat : IsFiniteSet(R(m))
  <2>1. ASSUME NEW m \in Nat PROVE IsFiniteSet(R(m))
    <3>1. IsFiniteSet(1 .. m) /\ R(m) \subseteq 1 .. m
      BY FS_Interval
    <3> HIDE DEF R
    <3> QED BY <3>1, FS_Subset
  <2> QED BY <2>1
<1>2. R(0) = {}
  OBVIOUS
<1>3. R(n + 1) = IF n + 1 \in LiveRows(a, "A") /\ TupleOf(a, "A", n + 1) = t
                 THEN R(n) \union {n + 1} ELSE R(n)
  OBVIOUS
<1>4. n + 1 \notin R(n)
  OBVIOUS
<1>5. \A m \in Nat : CountTo(a, t, m) = Cardinality(R(m))
  BY DEF CountTo
<1> HIDE DEF R
<1> QED BY <1>1, <1>2, <1>3, <1>4, <1>5, FS_EmptySet, FS_AddElement, FS_CardinalityType

(* What a_count's recursion computes *)
LEMMA CountIsCardinality ==
  ASSUME Pair(air), inflated = InflatedOf(air), NEW t
  PROVE  a_count(t) = CountOf(air, t)
<1> DEFINE N == target_padded
           Step(g, n) == IF n = 0 THEN 0
                         ELSE g[n - 1] + (IF n \in build_active_column("A")
                                               /\ inflated["A"].tuple[n] = t
                                          THEN 1 ELSE 0)
           v == [n \in 0 .. N |-> CountTo(air, t, n)]
           f == CHOOSE g : g = [n \in 0 .. N |-> Step(g, n)]
<1>1. a_count(t) = f[N]
  BY DEF a_count
<1>2. N \in Nat /\ N = SizeOf(air) /\ "A" \in Sides
  BY OfAir, SizeHolds DEF Sides
<1> HIDE DEF N
<1>3. ASSUME NEW n \in 0 .. N PROVE v[n] = Step(v, n)
  <2>1. CASE n = 0
    BY <2>1, CountSteps
  <2>2. CASE n # 0
    <3>1. n - 1 \in Nat /\ n \in 1 .. N /\ (n - 1) + 1 = n /\ n - 1 \in 0 .. N
      BY <1>2, <2>2
    <3>2. CountTo(air, t, n) = CountTo(air, t, n - 1)
            + (IF n \in LiveRows(air, "A") /\ TupleOf(air, "A", n) = t THEN 1 ELSE 0)
      <4> DEFINE k == n - 1
      <4>1. k \in Nat /\ k + 1 = n
        BY <3>1
      <4> HIDE DEF k
      <4>2. CountTo(air, t, k + 1) = CountTo(air, t, k)
              + (IF k + 1 \in LiveRows(air, "A") /\ TupleOf(air, "A", k + 1) = t
                 THEN 1 ELSE 0)
        BY <4>1, CountSteps
      <4>3. CountTo(air, t, n) = CountTo(air, t, k)
              + (IF n \in LiveRows(air, "A") /\ TupleOf(air, "A", n) = t THEN 1 ELSE 0)
        BY <4>1, <4>2, Zenon
      <4> QED BY <4>3 DEF k
    <3>3. inflated["A"].tuple[n] = TupleOf(air, "A", n)
          /\ build_active_column("A") = LiveRows(air, "A")
      BY <1>2, <3>1, InflatedRows
    <3> QED BY <2>2, <3>1, <3>2, <3>3
  <2> QED BY <2>1, <2>2
<1>4. v = [n \in 0 .. N |-> Step(v, n)]
  BY <1>3
<1>5. f = [n \in 0 .. N |-> Step(f, n)]
  <2> HIDE DEF v, Step
  <2> QED BY <1>4
<1> HIDE DEF f
<1>6. f = v
  <2>1. f = [n \in 0 .. N |-> f[n]] /\ v = [n \in 0 .. N |-> v[n]]
    BY <1>5
  <2>2. \A n \in 0 .. N : f[n] = Step(f, n) /\ v[n] = Step(v, n)
    <3> HIDE DEF v, Step
    <3> QED BY <1>3, <1>5
  <2> DEFINE G == {n \in 0 .. N : f[n] = v[n]}
  <2>3. 0 \in G
    <3>1. 0 \in 0 .. N
      BY <1>2
    <3>2. Step(f, 0) = 0 /\ Step(v, 0) = 0
      OBVIOUS
    <3> HIDE DEF v, Step
    <3> QED BY <2>2, <3>1, <3>2
  <2>4. ASSUME NEW n \in 0 + 1 .. N, n - 1 \in G PROVE n \in G
    <3>1. n \in 0 .. N /\ n # 0
      BY <1>2
    <3>2. Step(f, n) = Step(v, n)
      <4> HIDE DEF v
      <4> QED BY <2>4, <3>1
    <3> QED BY <2>2, <3>1, <3>2
  <2>5. \A n \in 0 .. N : n \in G
    <3> HIDE DEF G
    <3> QED BY <1>2, <2>3, <2>4, IntervalInduction
  <2> HIDE DEF v
  <2> QED BY <2>1, <2>5
<1>7. v[N] = CountOf(air, t)
  BY <1>2 DEF CountOf
<1> HIDE DEF v
<1> QED BY <1>1, <1>6, <1>7

LEMMA TupleTypes ==
  ASSUME NEW a, Pair(a), NEW s \in Sides, NEW i \in 1 .. SizeOf(a)
  PROVE  TupleOf(a, s, i) \in Tuples
<1>1. a[s].tuple \in Seq(Tuples) /\ Len(a[s].tuple) \in Nat /\ Len(a[s].tuple) > 0
  BY DEF Pair, Traces
<1>2. SizeOf(a) \in Nat
  BY SizeHolds
<1>3. FixOf(a, s) \in Tuples
  BY <1>1, LinkageAssumption DEF FixOf
<1> QED BY <1>1, <1>2, <1>3 DEF TupleOf

LEMMA CountType == ASSUME NEW a, Pair(a), NEW t PROVE CountOf(a, t) \in Nat
BY SizeHolds, CountSteps DEF CountOf

(* The running sums *)
LEMMA SumSteps ==
  ASSUME NEW a, Pair(a), NEW s \in Sides
  PROVE  /\ SumOf(a, s, 0) = Zero
         /\ \A n \in 1 .. SizeOf(a) :
              SumOf(a, s, n) = Plus(SumOf(a, s, n - 1), FsOf(a, s)[n])
<1>1. SizeOf(a) \in Nat
  BY SizeHolds
<1>2. SumOf(a, s, 0) = Zero
  <2>1. ASSUME NEW t \in Tuples PROVE SumOf(a, s, 0)[t] = 0
    BY CountSteps DEF SumOf
  <2> QED BY <2>1 DEF SumOf, Zero
<1>3. ASSUME NEW n \in 1 .. SizeOf(a), NEW t \in Tuples
      PROVE  SumOf(a, s, n)[t] = SumOf(a, s, n - 1)[t] + FsOf(a, s)[n][t]
  <2> DEFINE k == n - 1
  <2>1. k \in Nat /\ k + 1 = n
    BY <1>1
  <2>2. CASE s = "A"
    <3>1. CountTo(a, t, k + 1) = CountTo(a, t, k)
            + (IF k + 1 \in LiveRows(a, "A") /\ TupleOf(a, "A", k + 1) = t THEN 1 ELSE 0)
      <4> HIDE DEF k
      <4> QED BY <2>1, CountSteps
    <3>2. FsOf(a, s)[n] = Times(IF n \in LiveRows(a, "A") THEN 1 ELSE 0, TupleOf(a, "A", n))
      BY <2>2 DEF FsOf
    <3>3. FsOf(a, s)[n][t] = IF n \in LiveRows(a, "A") /\ TupleOf(a, "A", n) = t
                             THEN 1 ELSE 0
      BY <3>2 DEF Times, Zero
    <3>4. SumOf(a, s, n)[t] = CountTo(a, t, n) /\ SumOf(a, s, k)[t] = CountTo(a, t, k)
      BY <2>2 DEF SumOf
    <3> HIDE DEF k
    <3>5. SumOf(a, s, n)[t] = SumOf(a, s, k)[t] + FsOf(a, s)[n][t]
      BY <2>1, <3>1, <3>3, <3>4, Zenon
    <3> QED BY <3>5 DEF k
  <2>3. CASE s = "B"
    <3> DEFINE Seen(m) == \E i \in 1 .. m : i \in LiveRows(a, "B") /\ TupleOf(a, "B", i) = t
    <3>1. FsOf(a, s)[n] = Times(WeightOf(a, n), TupleOf(a, "B", n))
      BY <2>3 DEF FsOf
    <3>2. FsOf(a, s)[n][t] = IF TupleOf(a, "B", n) = t THEN WeightOf(a, n) ELSE 0
      BY <3>1 DEF Times, Zero
    <3>3. SumOf(a, s, n)[t] = (IF Seen(n) THEN CountOf(a, t) ELSE 0)
          /\ SumOf(a, s, k)[t] = (IF Seen(k) THEN CountOf(a, t) ELSE 0)
      BY <2>3 DEF SumOf
    <3>4. Seen(n) <=> Seen(k) \/ (n \in LiveRows(a, "B") /\ TupleOf(a, "B", n) = t)
      BY <2>1
    <3>5. TupleOf(a, "B", n) = t =>
            WeightOf(a, n) = IF n \in LiveRows(a, "B") /\ ~Seen(k) THEN CountOf(a, t) ELSE 0
      <4>1. TupleOf(a, "B", n) = t =>
              (FirstOf(a, n) <=> n \in LiveRows(a, "B") /\ ~Seen(k))
        <5>1. \A j \in LiveRows(a, "B") : j \in Nat /\ (j < n <=> j \in 1 .. k)
          BY <1>1 DEF LiveRows
        <5> QED BY <5>1 DEF FirstOf
      <4> QED BY <4>1 DEF WeightOf
    <3>6. CountOf(a, t) \in Nat
      BY CountType
    <3> HIDE DEF Seen, k
    <3>7. SumOf(a, s, n)[t] = SumOf(a, s, k)[t] + FsOf(a, s)[n][t]
      BY <3>2, <3>3, <3>4, <3>5, <3>6
    <3> QED BY <3>7 DEF k
  <2> QED BY <2>2, <2>3 DEF Sides
<1>4. ASSUME NEW n \in 1 .. SizeOf(a)
      PROVE  SumOf(a, s, n) = Plus(SumOf(a, s, n - 1), FsOf(a, s)[n])
  <2>1. \A m : SumOf(a, s, m) = [t \in Tuples |-> SumOf(a, s, m)[t]]
    BY DEF SumOf
  <2>2. \A t \in Tuples : SumOf(a, s, n)[t] = Plus(SumOf(a, s, n - 1), FsOf(a, s)[n])[t]
    BY <1>3 DEF Plus
  <2>3. Plus(SumOf(a, s, n - 1), FsOf(a, s)[n])
          = [t \in Tuples |-> Plus(SumOf(a, s, n - 1), FsOf(a, s)[n])[t]]
    BY DEF Plus
  <2> QED BY <2>1, <2>2, <2>3
<1> QED BY <1>2, <1>4

(* What h_column's recursion computes *)
LEMMA HColumnIsSums ==
  ASSUME NEW a, Pair(a), NEW s \in Sides
  PROVE  h_column(FsOf(a, s)) = HsOf(a, s) /\ Len(FsOf(a, s)) = SizeOf(a)
<1> DEFINE fs == FsOf(a, s)
           N == SizeOf(a)
           Step(g, i) == IF i = 1 THEN Zero ELSE Plus(g[i - 1], fs[i - 1])
           h == CHOOSE g : g = [i \in 1 .. N |-> Step(g, i)]
           v == HsOf(a, s)
<1>1. N \in Nat \ {0}
  BY SizeHolds
<1>2. Len(fs) = N
  <2>1. fs \in Seq({fs[i] : i \in 1 .. N}) /\ Len(fs) = N
    BY <1>1 DEF FsOf
  <2> QED BY <2>1
<1>3. h_column(fs) = h
  BY <1>2 DEF h_column
<1> HIDE DEF fs, N
<1>4. ASSUME NEW i \in 1 .. N PROVE v[i] = Step(v, i)
  <2>1. v[i] = SumOf(a, s, i - 1)
    BY DEF HsOf, N
  <2>2. CASE i = 1
    BY <2>1, <2>2, SumSteps
  <2>3. CASE i # 1
    <3>1. i - 1 \in 1 .. N
      BY <1>1, <2>3
    <3>2. SumOf(a, s, i - 1) = Plus(SumOf(a, s, (i - 1) - 1), fs[i - 1])
      BY <3>1, SumSteps DEF N, fs
    <3>3. v[i - 1] = SumOf(a, s, (i - 1) - 1)
      BY <3>1 DEF HsOf, N
    <3> HIDE DEF v
    <3> QED BY <2>1, <2>3, <3>2, <3>3
  <2> QED BY <2>2, <2>3
<1>5. v = [i \in 1 .. N |-> v[i]]
  BY DEF HsOf, N
<1> HIDE DEF v
<1>6. v = [i \in 1 .. N |-> Step(v, i)]
  <2> HIDE DEF Step
  <2> QED BY <1>4, <1>5
<1>7. h = [i \in 1 .. N |-> Step(h, i)]
  <2> HIDE DEF Step
  <2> QED BY <1>6
<1> HIDE DEF h
<1>8. h = v
  <2> DEFINE G == {i \in 1 .. N : h[i] = v[i]}
  <2>1. \A i \in 1 .. N : h[i] = Step(h, i) /\ v[i] = Step(v, i)
    <3> HIDE DEF Step
    <3> QED BY <1>4, <1>7
  <2>2. 1 \in G
    BY <1>1, <2>1
  <2>3. ASSUME NEW n \in 1 + 1 .. N, n - 1 \in G PROVE n \in G
    <3>1. n \in 1 .. N /\ n # 1
      BY <1>1
    <3>2. Step(h, n) = Step(v, n)
      BY <2>3, <3>1
    <3> HIDE DEF Step
    <3> QED BY <2>1, <3>1, <3>2
  <2>4. \A n \in 1 .. N : n \in G
    <3> HIDE DEF G
    <3> QED BY <1>1, <2>2, <2>3, IntervalInduction
  <2>5. h = [i \in 1 .. N |-> h[i]]
    <3> HIDE DEF Step
    <3> QED BY <1>7
  <2> QED BY <1>5, <2>4, <2>5
<1> QED BY <1>2, <1>3, <1>8 DEF fs, v, N

LEMMA WitnessColumns ==
  ASSUME Pair(air), inflated = InflatedOf(air)
  PROVE  /\ \A i \in 1 .. SizeOf(air) : m_column(i) = WeightOf(air, i)
         /\ \A s \in Sides : [i \in 1 .. SizeOf(air) |-> f_column(s, i)] = FsOf(air, s)
<1>1. /\ \A i \in 1 .. SizeOf(air) : inflated["B"].tuple[i] = TupleOf(air, "B", i)
      /\ build_active_column("B") = LiveRows(air, "B")
      /\ LiveRows(air, "B") \subseteq 1 .. SizeOf(air)
  BY InflatedRows DEF Sides, LiveRows
<1>2. /\ \A i \in 1 .. SizeOf(air) : inflated["A"].tuple[i] = TupleOf(air, "A", i)
      /\ build_active_column("A") = LiveRows(air, "A")
  BY InflatedRows DEF Sides
<1>3. ASSUME NEW i \in 1 .. SizeOf(air) PROVE m_column(i) = WeightOf(air, i)
  <2>1. (/\ i \in build_active_column("B")
         /\ \A j \in build_active_column("B") :
              j < i => inflated["B"].tuple[j] # inflated["B"].tuple[i])
        <=> FirstOf(air, i)
    BY <1>1 DEF FirstOf
  <2>2. a_count(inflated["B"].tuple[i]) = CountOf(air, TupleOf(air, "B", i))
    BY <1>1, CountIsCardinality
  <2> QED BY <2>1, <2>2 DEF m_column, WeightOf
<1>4. ASSUME NEW s \in Sides
      PROVE  [i \in 1 .. SizeOf(air) |-> f_column(s, i)] = FsOf(air, s)
  <2>1. ASSUME NEW i \in 1 .. SizeOf(air) PROVE f_column(s, i) = FsOf(air, s)[i]
    BY <1>1, <1>2, <1>3 DEF f_column, FsOf
  <2> QED BY <2>1 DEF FsOf
<1> QED BY <1>3, <1>4

LEMMA UnmatchedIffNotIncluded ==
  ASSUME Pair(air), inflated = InflatedOf(air)
  PROVE  unmatched <=> ~IncludedIn(air)
<1>1. /\ \A i \in 1 .. SizeOf(air) : inflated["B"].tuple[i] = TupleOf(air, "B", i)
      /\ \A i \in 1 .. SizeOf(air) : inflated["A"].tuple[i] = TupleOf(air, "A", i)
      /\ build_active_column("B") = LiveRows(air, "B")
      /\ build_active_column("A") = LiveRows(air, "A")
      /\ LiveRows(air, "B") \subseteq 1 .. SizeOf(air)
      /\ LiveRows(air, "A") \subseteq 1 .. SizeOf(air)
  BY InflatedRows DEF Sides, LiveRows
<1> QED BY <1>1 DEF unmatched, IncludedIn

(* The two closures: all of A's lookups *)
LEMMA ClosuresAgree ==
  ASSUME NEW a, Pair(a), IncludedIn(a)
  PROVE  \A s \in Sides : SumOf(a, s, SizeOf(a)) = [t \in Tuples |-> CountOf(a, t)]
<1>1. SizeOf(a) \in Nat
  BY SizeHolds
<1>2. SumOf(a, "A", SizeOf(a)) = [t \in Tuples |-> CountOf(a, t)]
  BY DEF SumOf, CountOf
<1>3. ASSUME NEW t \in Tuples PROVE SumOf(a, "B", SizeOf(a))[t] = CountOf(a, t)
  <2>1. CASE \E i \in 1 .. SizeOf(a) : i \in LiveRows(a, "B") /\ TupleOf(a, "B", i) = t
    BY <2>1 DEF SumOf
  <2>2. CASE ~(\E i \in 1 .. SizeOf(a) : i \in LiveRows(a, "B") /\ TupleOf(a, "B", i) = t)
    <3>1. {i \in 1 .. SizeOf(a) : i \in LiveRows(a, "A") /\ TupleOf(a, "A", i) = t} = {}
      BY <2>2 DEF IncludedIn, LiveRows
    <3>2. CountOf(a, t) = 0
      BY <3>1, FS_EmptySet DEF CountOf, CountTo
    <3> QED BY <2>2, <3>2 DEF SumOf
  <2> QED BY <2>1, <2>2
<1>4. SumOf(a, "B", SizeOf(a)) = [t \in Tuples |-> SumOf(a, "B", SizeOf(a))[t]]
  BY DEF SumOf
<1> QED BY <1>2, <1>3, <1>4 DEF Sides

(* The columns of the linkage *)
LEMMA LinkageColumns ==
  ASSUME Pair(air), linkage = LinkageOf(air), NEW s \in Sides
  PROVE  /\ Len(linkage[s].tuple) = SizeOf(air)
         /\ Len(linkage[s].f) = SizeOf(air) /\ Len(linkage[s].h) = SizeOf(air)
         /\ RowsHold(s)
         /\ derived_closure(s) = SumOf(air, s, SizeOf(air))
<1> DEFINE N == SizeOf(air)
           l == linkage[s]
<1>1. N \in Nat \ {0}
  BY SizeHolds
<1>2. /\ l.tuple = TuplesOf(air, s) /\ l.f = FsOf(air, s) /\ l.h = HsOf(air, s)
      /\ l.active = ActiveOf(air, s)
      /\ l.m = [i \in 1 .. SizeOf(air) |-> IF s = "A" THEN 0 ELSE WeightOf(air, i)]
  BY DEF LinkageOf
<1>3. Len(TuplesOf(air, s)) = N /\ \A i \in 1 .. N : TuplesOf(air, s)[i] = TupleOf(air, s, i)
  <2>1. \A r, n, p : n \in Nat => Len(Column(r, n, p)) = n
    BY DEF Column
  <2> QED BY <1>1, <2>1 DEF TuplesOf, Column, TupleOf
<1>4. Len(HsOf(air, s)) = N
  BY <1>1 DEF HsOf
<1>5. Len(FsOf(air, s)) = N
  BY HColumnIsSums
<1> HIDE DEF N
<1>6. ASSUME NEW i \in 1 .. N
      PROVE  l.f[i] = Times(IF s = "A" THEN l.active[i] ELSE l.m[i], l.tuple[i])
  BY <1>2, <1>3 DEF FsOf, ActiveOf, N, Sides
<1>7. ASSUME NEW i \in 1 .. N - 1 PROVE l.h[i + 1] = Plus(l.h[i], l.f[i])
  <2>1. i \in 1 .. N /\ i + 1 \in 1 .. N
    BY <1>1
  <2>2. HsOf(air, s)[i + 1] = SumOf(air, s, (i + 1) - 1) /\ HsOf(air, s)[i] = SumOf(air, s, i - 1)
    BY <2>1 DEF HsOf, N
  <2>3. (i + 1) - 1 = i
    BY <1>1
  <2>4. SumOf(air, s, i) = Plus(SumOf(air, s, i - 1), FsOf(air, s)[i])
    BY <2>1, SumSteps DEF N
  <2> QED BY <1>2, <2>2, <2>3, <2>4, Zenon
<1>8. derived_closure(s) = SumOf(air, s, N)
  <2>1. N \in 1 .. N
    BY <1>1
  <2>2. HsOf(air, s)[N] = SumOf(air, s, N - 1)
    BY <2>1 DEF HsOf, N
  <2>3. SumOf(air, s, N) = Plus(SumOf(air, s, N - 1), FsOf(air, s)[N])
    BY <2>1, SumSteps DEF N
  <2> QED BY <1>2, <1>4, <1>5, <2>2, <2>3 DEF derived_closure
<1>9. RowsHold(s)
  BY <1>2, <1>3, <1>6, <1>7 DEF RowsHold
<1> QED BY <1>2, <1>3, <1>4, <1>5, <1>8, <1>9 DEF N

(* The linkage's active column is the committed selector. *)
LEMMA ActiveIsSelector ==
  ASSUME NEW a, Pair(a), NEW s \in Sides, a[s].gate # "none"
  PROVE  ActiveOf(a, s) = Column(a[s].sel, SizeOf(a), IF a[s].gate = "padding" THEN 1 ELSE 0)
         <=> /\ \A i \in 1 .. Len(a[s].tuple) : a[s].sel[i] <= 1
             /\ a[s].gate = "padding" => Len(a[s].tuple) >= SizeOf(a)
<1> DEFINE N == SizeOf(a)
           L == Len(a[s].tuple)
           pad == IF a[s].gate = "padding" THEN 1 ELSE 0
           col == Column(a[s].sel, N, pad)
<1>1. N \in Nat /\ L \in 1 .. N /\ Len(a[s].sel) = L
  BY SizeHolds DEF Pair
<1>2. \A i \in 1 .. L : a[s].sel[i] \in Nat
  BY DEF Pair, Traces
<1>3. ActiveOf(a, s) = col <=> \A i \in 1 .. N : ActiveOf(a, s)[i] = col[i]
  <2>1. ActiveOf(a, s) = [i \in 1 .. N |-> ActiveOf(a, s)[i]] /\ col = [i \in 1 .. N |-> col[i]]
    BY DEF ActiveOf, Column
  <2> HIDE DEF col
  <2> QED BY <2>1
<1>4. ASSUME NEW i \in 1 .. N
      PROVE  /\ ActiveOf(a, s)[i] = IF i <= L /\ a[s].sel[i] # 0 THEN 1 ELSE 0
             /\ col[i] = IF i <= L THEN a[s].sel[i] ELSE pad
  BY <1>1 DEF ActiveOf, LiveRows, LiveOf, Column
<1> HIDE DEF N, L, col
<1>5. ASSUME NEW i \in 1 .. N
      PROVE  ActiveOf(a, s)[i] = col[i] <=> IF i <= L THEN a[s].sel[i] <= 1 ELSE pad = 0
  <2>1. i <= L => a[s].sel[i] \in Nat
    BY <1>1, <1>2
  <2> QED BY <1>4, <2>1
<1>6. (\A i \in 1 .. N : ActiveOf(a, s)[i] = col[i])
        <=> (\A i \in 1 .. L : a[s].sel[i] <= 1) /\ (pad = 1 => L >= N)
  <2>1. ASSUME \A i \in 1 .. N : ActiveOf(a, s)[i] = col[i]
        PROVE  (\A i \in 1 .. L : a[s].sel[i] <= 1) /\ (pad = 1 => L >= N)
    <3>1. \A i \in 1 .. L : a[s].sel[i] <= 1
      BY <1>1, <1>5, <2>1
    <3>2. ASSUME L < N PROVE pad = 0
      <4>1. L + 1 \in 1 .. N /\ ~(L + 1 <= L)
        BY <1>1, <3>2
      <4> QED BY <1>5, <2>1, <4>1
    <3> QED BY <1>1, <3>1, <3>2
  <2>2. ASSUME \A i \in 1 .. L : a[s].sel[i] <= 1, pad = 1 => L >= N, NEW i \in 1 .. N
        PROVE  ActiveOf(a, s)[i] = col[i]
    BY <1>1, <1>5, <2>2
  <2> QED BY <2>1, <2>2
<1> QED BY <1>3, <1>6 DEF N, L, col

(* What joint_verify finds *)
LEMMA VerifiesIffFits ==
  ASSUME Pair(air), IncludedIn(air), committed = CommittedOf(air),
         witness = WitnessOf(air), linkage = LinkageOf(air)
  PROVE  Verifies <=> SelectorsFit(air)
<1>1. ASSUME NEW s \in Sides
      PROVE  /\ RowsHold(s) /\ linkage[s].tuple = committed[s].tuple
             /\ witness[s].closure = derived_closure(s)
             /\ linkage[s].active = ActiveOf(air, s)
             /\ committed[s].sel = Column(air[s].sel, SizeOf(air),
                                          IF air[s].gate = "padding" THEN 1 ELSE 0)
  <2>1. RowsHold(s) /\ derived_closure(s) = SumOf(air, s, SizeOf(air))
    BY LinkageColumns
  <2>2. linkage[s].tuple = committed[s].tuple
    BY DEF LinkageOf, CommittedOf
  <2>3. witness[s].closure = SumOf(air, s, SizeOf(air))
    BY DEF WitnessOf
  <2>4. /\ linkage[s].active = ActiveOf(air, s)
        /\ committed[s].sel = Column(air[s].sel, SizeOf(air),
                                     IF air[s].gate = "padding" THEN 1 ELSE 0)
    BY DEF LinkageOf, CommittedOf
  <2> QED BY <2>1, <2>2, <2>3, <2>4
<1>2. derived_closure("A") = derived_closure("B")
  BY LinkageColumns, ClosuresAgree DEF Sides
<1>3. ASSUME NEW s \in Sides
      PROVE  (air[s].gate # "none" => linkage[s].active = committed[s].sel)
             <=> (air[s].gate # "none" =>
                    /\ \A i \in 1 .. Len(air[s].tuple) : air[s].sel[i] <= 1
                    /\ air[s].gate = "padding" => Len(air[s].tuple) >= SizeOf(air))
  BY <1>1, ActiveIsSelector
<1> QED BY <1>1, <1>2, <1>3 DEF Verifies, SelectorsFit

LEMMA LinkageInitial == LinkageInit => LinkageInv
<1> SUFFICES ASSUME LinkageInit PROVE LinkageInv
  OBVIOUS
<1>1. PICK a \in AirsA, b \in AirsB : air = [s \in Sides |-> IF s = "A" THEN a ELSE b]
  BY DEF LinkageInit
<1>2. \A s \in Sides : air[s] \in AirsA \union AirsB
  BY <1>1
<1>3. Pair(air)
  <2>1. air = [s \in Sides |-> air[s]]
    BY <1>1
  <2>2. \A s \in Sides : /\ air[s] \in Traces /\ Len(air[s].tuple) > 0
                         /\ Len(air[s].sel) = Len(air[s].tuple)
    BY <1>2, LinkageAssumption
  <2> QED BY <2>1, <2>2 DEF Pair
<1> QED BY <1>3 DEF LinkageInit, LinkageInv

LEMMA LinkageSteps ==
  ASSUME LinkageInv, [LinkageNext]_linkageVars
  PROVE  LinkageInv'
<1>1. CASE Inflate
  <2>1. inflated' = InflatedOf(air)
    BY <1>1, OfAir DEF Inflate, InflatedOf, TuplesOf
  <2> QED BY <1>1, <2>1 DEF Inflate, LinkageInv
<1>2. CASE CommitMain
  <2>1. committed' = CommittedOf(air)
    BY <1>2, OfAir DEF CommitMain, CommittedOf, TuplesOf
  <2> QED BY <1>2, <2>1 DEF CommitMain, LinkageInv
<1>3. CASE ComputeWitness
  <2>1. Pair(air) /\ inflated = InflatedOf(air) /\ committed = CommittedOf(air)
    BY <1>3 DEF ComputeWitness, LinkageInv
  <2>2. unmatched <=> ~IncludedIn(air)
    BY <2>1, UnmatchedIffNotIncluded
  <2>3. CASE unmatched /\ verdict' = "unmatched" /\ lpc' = "done"
    BY <1>3, <2>1, <2>2, <2>3 DEF ComputeWitness, LinkageInv
  <2>4. CASE ~unmatched /\ lpc' = "linkage"
    <3> DEFINE fs(s) == [i \in 1 .. target_padded |-> f_column(s, i)]
    <3>1. witness' = [s \in Sides |->
            [f |-> fs(s), h |-> h_column(fs(s)),
             closure |-> Plus(h_column(fs(s))[Len(fs(s))], fs(s)[Len(fs(s))])]]
      BY <1>3, <2>4 DEF ComputeWitness
    <3>2. ASSUME NEW s \in Sides
          PROVE  /\ fs(s) = FsOf(air, s) /\ h_column(fs(s)) = HsOf(air, s)
                 /\ Plus(h_column(fs(s))[Len(fs(s))], fs(s)[Len(fs(s))])
                      = SumOf(air, s, SizeOf(air))
      <4>1. fs(s) = FsOf(air, s)
        BY <2>1, WitnessColumns, OfAir
      <4>2. h_column(FsOf(air, s)) = HsOf(air, s) /\ Len(FsOf(air, s)) = SizeOf(air)
        BY <2>1, HColumnIsSums
      <4>3. SizeOf(air) \in 1 .. SizeOf(air)
        BY <2>1, SizeHolds
      <4>4. HsOf(air, s)[SizeOf(air)] = SumOf(air, s, SizeOf(air) - 1)
        BY <4>3 DEF HsOf
      <4>5. SumOf(air, s, SizeOf(air))
              = Plus(SumOf(air, s, SizeOf(air) - 1), FsOf(air, s)[SizeOf(air)])
        BY <2>1, <4>3, SumSteps
      <4> HIDE DEF fs
      <4> QED BY <4>1, <4>2, <4>4, <4>5
    <3> HIDE DEF fs
    <3>3. witness' = WitnessOf(air)
      BY <3>1, <3>2 DEF WitnessOf
    <3> QED BY <1>3, <2>1, <2>2, <2>4, <3>3 DEF ComputeWitness, LinkageInv
  <2> QED BY <1>3, <2>3, <2>4 DEF ComputeWitness
<1>4. CASE BuildLinkage
  <2>1. Pair(air) /\ inflated = InflatedOf(air) /\ witness = WitnessOf(air)
    BY <1>4 DEF BuildLinkage, LinkageInv
  <2>2. target_padded = SizeOf(air)
    BY OfAir
  <2>3. ASSUME NEW s \in Sides
        PROVE  /\ inflated[s].tuple = TuplesOf(air, s)
               /\ [i \in 1 .. target_padded |-> IF i \in build_active_column(s) THEN 1 ELSE 0]
                    = ActiveOf(air, s)
               /\ [i \in 1 .. target_padded |-> IF s = "A" THEN 0 ELSE m_column(i)]
                    = [i \in 1 .. SizeOf(air) |-> IF s = "A" THEN 0 ELSE WeightOf(air, i)]
               /\ witness[s].f = FsOf(air, s) /\ witness[s].h = HsOf(air, s)
    <3>1. inflated[s].tuple = TuplesOf(air, s)
      BY <2>1 DEF InflatedOf
    <3>2. build_active_column(s) = LiveRows(air, s)
      BY <2>1, InflatedRows
    <3>3. \A i \in 1 .. SizeOf(air) : m_column(i) = WeightOf(air, i)
      BY <2>1, WitnessColumns
    <3>4. witness[s].f = FsOf(air, s) /\ witness[s].h = HsOf(air, s)
      BY <2>1 DEF WitnessOf
    <3> QED BY <2>2, <3>1, <3>2, <3>3, <3>4 DEF ActiveOf
  <2>4. linkage' = LinkageOf(air)
    BY <1>4, <2>3 DEF BuildLinkage, LinkageOf
  <2> QED BY <1>4, <2>4 DEF BuildLinkage, LinkageInv
<1>5. CASE JointVerify
  <2>1. /\ Pair(air) /\ IncludedIn(air) /\ committed = CommittedOf(air)
        /\ witness = WitnessOf(air) /\ linkage = LinkageOf(air)
    BY <1>5 DEF JointVerify, LinkageInv
  <2>2. Verifies <=> SelectorsFit(air)
    BY <2>1, VerifiesIffFits
  <2> QED BY <1>5, <2>2 DEF JointVerify, LinkageInv
<1>6. CASE UNCHANGED linkageVars
  BY <1>6 DEF linkageVars, LinkageInv
<1> QED BY <1>1, <1>2, <1>3, <1>4, <1>5, <1>6 DEF LinkageNext, LinkageDone

(* Through every phase of joint_prove the columns are what the two traces  *)
(* say, and joint_verify finds exactly what they imply.                    *)
THEOREM LinkageInvIsInvariant == LinkageSpec => []LinkageInv
BY LinkageInitial, LinkageSteps, PTL DEF LinkageSpec

(* For all traces, sizes and selectors: joint_prove succeeds exactly if    *)
(* every tuple A looks up is in B's table, joint_verify accepts exactly if *)
(* the selectors are binary and none has padding to fill, and the closure  *)
(* it derives is all of A's lookups with their multiplicity.               *)
THEOREM LinkageDecides == LinkageSpec => []LinkageAcceptedIffIncluded
<1>1. LinkageInv => LinkageAcceptedIffIncluded
  <2> SUFFICES ASSUME LinkageInv, lpc = "done" PROVE LinkageAcceptedIffIncluded
    BY DEF LinkageAcceptedIffIncluded
  <2>1. Pair(air)
    BY DEF LinkageInv
  <2>2. ASSUME NEW s \in Sides, NEW i \in 1 .. SizeOf(air)
        PROVE  TupleAt(s, i) = TupleOf(air, s, i) /\ (Live(s, i) <=> LiveOf(air, s, i))
    BY OfAir DEF TupleAt, TupleOf, Live, LiveOf
  <2>3. \A s \in Sides : LiveTuples(s) = {TupleOf(air, s, i) : i \in LiveRows(air, s)}
    BY <2>2, OfAir DEF LiveTuples, LiveRows
  <2>4. LiveTuples("A") \subseteq LiveTuples("B") <=> IncludedIn(air)
    BY <2>3 DEF IncludedIn, Sides
  <2>5. SelectorsFit(air) <=>
          ~ \E s \in Sides :
              /\ air[s].gate # "none"
              /\ \/ \E i \in 1 .. Rows(s) : air[s].sel[i] > 1
                 \/ air[s].gate = "padding" /\ Rows(s) < target_padded
    <3>1. ASSUME NEW s \in Sides
          PROVE  /\ \A i \in 1 .. Len(air[s].tuple) : air[s].sel[i] \in Nat
                 /\ Len(air[s].tuple) \in Nat /\ SizeOf(air) \in Nat
      BY <2>1, SizeHolds DEF Pair, Traces
    <3>2. ASSUME NEW s \in Sides
          PROVE  (/\ \A i \in 1 .. Len(air[s].tuple) : air[s].sel[i] <= 1
                  /\ air[s].gate = "padding" => Len(air[s].tuple) >= SizeOf(air))
                 <=> ~(\/ \E i \in 1 .. Rows(s) : air[s].sel[i] > 1
                       \/ air[s].gate = "padding" /\ Rows(s) < target_padded)
      <4>1. \A i \in 1 .. Len(air[s].tuple) : air[s].sel[i] <= 1 <=> ~(air[s].sel[i] > 1)
        BY <3>1
      <4>2. Len(air[s].tuple) >= SizeOf(air) <=> ~(Len(air[s].tuple) < SizeOf(air))
        BY <3>1
      <4> QED BY <4>1, <4>2, OfAir
    <3> QED BY <3>2 DEF SelectorsFit
  <2>6. ASSUME IncludedIn(air), linkage = LinkageOf(air), NEW s \in Sides, NEW t \in Tuples
        PROVE  derived_closure(s)[t] =
                 Cardinality({i \in 1 .. target_padded : Live("A", i) /\ TupleAt("A", i) = t})
    <3>1. derived_closure(s) = SumOf(air, s, SizeOf(air))
      BY <2>1, <2>6, LinkageColumns
    <3>2. SumOf(air, s, SizeOf(air))[t] = CountOf(air, t)
      BY <2>1, <2>6, ClosuresAgree
    <3>3. {i \in 1 .. SizeOf(air) : i \in LiveRows(air, "A") /\ TupleOf(air, "A", i) = t}
            = {i \in 1 .. target_padded : Live("A", i) /\ TupleAt("A", i) = t}
      BY <2>2, OfAir DEF LiveRows, Sides
    <3> QED BY <3>1, <3>2, <3>3 DEF CountOf, CountTo
  <2>7. CASE verdict = "unmatched" /\ ~IncludedIn(air)
    BY <2>4, <2>7 DEF LinkageAcceptedIffIncluded
  <2>8. CASE /\ IncludedIn(air) /\ linkage = LinkageOf(air)
             /\ verdict = IF SelectorsFit(air) THEN "accepted" ELSE "rejected"
    BY <2>4, <2>5, <2>6, <2>8 DEF LinkageAcceptedIffIncluded
  <2> QED BY <2>7, <2>8 DEF LinkageInv
<1> QED BY <1>1, LinkageInvIsInvariant, PTL

----------------------------------------------------------------------------
(* The memory argument *)

MemRow == [addr : 0 .. 1, val : Nat, op : DoubleOps \union ByteOps \union {"other"}]

(* The rows fit the padded trace. *)
RowsType == rows \in Seq(MemRow) /\ Len(rows) <= MaxAccesses

(* Any list of accesses: numbers for addresses, its index as time stamp *)
AccessList(acc) ==
  \A t \in 1 .. Padded : acc[t].addr \in Nat /\ acc[t].ts = t

(* As many accesses are before access t. *)
Rank(acc, t) == Cardinality({u \in 1 .. Padded : Before(acc[u], acc[t])})

(* The last access before t to the same address *)
LastBefore(acc, u, t) ==
  /\ acc[u].addr = acc[t].addr /\ u < t
  /\ \A w \in 1 .. Padded : acc[w].addr = acc[t].addr /\ w < t => w <= u

(* Before is a strict total order of a list of accesses. *)
LEMMA BeforeOrders ==
  ASSUME NEW acc, AccessList(acc),
         NEW t \in 1 .. Padded, NEW u \in 1 .. Padded, NEW w \in 1 .. Padded
  PROVE  /\ ~Before(acc[t], acc[t])
         /\ t # u => Before(acc[t], acc[u]) \/ Before(acc[u], acc[t])
         /\ Before(acc[t], acc[u]) /\ Before(acc[u], acc[w]) => Before(acc[t], acc[w])
<1>1. /\ Padded \in Nat /\ t \in Nat /\ u \in Nat /\ w \in Nat
      /\ acc[t].addr \in Nat /\ acc[u].addr \in Nat /\ acc[w].addr \in Nat
      /\ acc[t].ts = t /\ acc[u].ts = u /\ acc[w].ts = w
  BY MemoryAssumption DEF AccessList
<1> QED BY <1>1 DEF Before

(* So places are different numbers below Padded, in that order. *)
LEMMA PlacesOrder ==
  ASSUME NEW acc, AccessList(acc)
  PROVE  /\ \A t \in 1 .. Padded : Rank(acc, t) \in 0 .. Padded - 1
         /\ \A t, u \in 1 .. Padded :
              Before(acc[t], acc[u]) => Rank(acc, t) < Rank(acc, u)
<1> DEFINE Prior(t) == {u \in 1 .. Padded : Before(acc[u], acc[t])}
<1>1. Padded \in Nat /\ IsFiniteSet(1 .. Padded) /\ Cardinality(1 .. Padded) = Padded
  BY MemoryAssumption, FS_Interval
<1>2. ASSUME NEW t \in 1 .. Padded
      PROVE  /\ IsFiniteSet(Prior(t)) /\ Cardinality(Prior(t)) \in Nat
             /\ Rank(acc, t) = Cardinality(Prior(t))
  <2>1. Prior(t) \subseteq 1 .. Padded
    OBVIOUS
  <2>2. Rank(acc, t) = Cardinality(Prior(t))
    BY DEF Rank
  <2> HIDE DEF Prior
  <2> QED BY <1>1, <2>1, <2>2, FS_Subset, FS_CardinalityType
<1>3. ASSUME NEW S, NEW T, IsFiniteSet(T), S \subseteq T, NEW x \in T, x \notin S
      PROVE  Cardinality(S) < Cardinality(T)
  <2>1. S \in SUBSET T /\ S # T
    BY <1>3
  <2>2. Cardinality(S) <= Cardinality(T) /\ Cardinality(S) # Cardinality(T) /\ IsFiniteSet(S)
    BY <1>3, <2>1, FS_Subset
  <2>3. Cardinality(S) \in Nat /\ Cardinality(T) \in Nat
    BY <1>3, <2>2, FS_CardinalityType
  <2> QED BY <2>2, <2>3
<1>4. ASSUME NEW t \in 1 .. Padded PROVE Cardinality(Prior(t)) < Padded
  <2>1. Prior(t) \subseteq 1 .. Padded /\ t \notin Prior(t)
    BY BeforeOrders
  <2> HIDE DEF Prior
  <2> QED BY <1>1, <1>3, <2>1
<1>5. ASSUME NEW t \in 1 .. Padded, NEW u \in 1 .. Padded, Before(acc[t], acc[u])
      PROVE  Cardinality(Prior(t)) < Cardinality(Prior(u))
  <2>1. Prior(t) \subseteq Prior(u)
    BY <1>5, BeforeOrders
  <2>2. t \in Prior(u) /\ t \notin Prior(t)
    BY <1>5, BeforeOrders
  <2> HIDE DEF Prior
  <2> QED BY <1>2, <1>3, <2>1, <2>2
<1> HIDE DEF Prior
<1>6. \A t \in 1 .. Padded : Rank(acc, t) \in 0 .. Padded - 1
  BY <1>1, <1>2, <1>4
<1> QED BY <1>2, <1>5, <1>6

(* Every place is taken. *)
LEMMA PlacesTaken ==
  ASSUME NEW acc, AccessList(acc), NEW k \in 0 .. Padded - 1
  PROVE  \E t \in 1 .. Padded : Rank(acc, t) = k
<1> DEFINE S == 1 .. Padded
           T == 0 .. Padded - 1
           f == [t \in S |-> Rank(acc, t)]
<1>1. /\ IsFiniteSet(S) /\ IsFiniteSet(T) /\ Cardinality(S) = Cardinality(T)
  BY MemoryAssumption, FS_Interval
<1>2. f \in [S -> T]
  BY PlacesOrder
<1>3. ASSUME NEW t \in S, NEW u \in S, f[t] = f[u] PROVE t = u
  <2> SUFFICES ASSUME t # u PROVE FALSE
    OBVIOUS
  <2>1. Rank(acc, t) < Rank(acc, u) \/ Rank(acc, u) < Rank(acc, t)
    BY BeforeOrders, PlacesOrder
  <2>2. Rank(acc, t) = Rank(acc, u)
    BY <1>3
  <2>3. Rank(acc, t) \in 0 .. Padded - 1
    BY PlacesOrder
  <2> QED BY <2>1, <2>2, <2>3, MemoryAssumption
<1> HIDE DEF f
<1>4. f \in Injection(S, T)
  BY <1>2, <1>3 DEF Injection, IsInjective
<1>5. f \in Surjection(S, T)
  BY <1>1, <1>4, FS_Injection
<1>6. \E t \in S : f[t] = k
  BY <1>5 DEF Surjection
<1> QED BY <1>6 DEF f

LEMMA RowFields ==
  ASSUME RowsType, NEW t \in 1 .. Len(rows)
  PROVE  /\ rows[t] \in MemRow /\ rows[t].addr \in 0 .. 1 /\ rows[t].val \in Nat
         /\ rows[t].op \in DoubleOps \union ByteOps \union {"other"}
<1>1. rows[t] \in MemRow
  BY DEF RowsType
<1> QED BY <1>1 DEF MemRow

(* The accesses the prover takes from the rows *)
LEMMA AccessesListed ==
  ASSUME RowsType
  PROVE  AccessList(MemoryAccesses)
<1>1. \A t \in 1 .. Len(rows) : rows[t].addr \in 0 .. 1
  BY RowFields
<1> QED BY <1>1, MemoryAssumption DEF AccessList, MemoryAccesses, Sentinel, RowsType

(* What the sorted columns hold: p[i] is the access in row i. *)
LEMMA SortedColumns ==
  ASSUME RowsType
  PROVE  \E p \in [1 .. Padded -> 1 .. Padded] :
           /\ \A i \in 1 .. Padded : sorted[i] = MemoryAccesses[p[i]]
           /\ \A t \in 1 .. Padded : \E i \in 1 .. Padded : p[i] = t
           /\ \A i, j \in 1 .. Padded :
                i < j <=> Before(MemoryAccesses[p[i]], MemoryAccesses[p[j]])
<1> DEFINE acc == MemoryAccesses
           p == [i \in 1 .. Padded |-> CHOOSE t \in 1 .. Padded : Rank(acc, t) = i - 1]
<1>1. AccessList(acc) /\ Padded \in Nat
  BY AccessesListed, MemoryAssumption
<1>2. sorted = [i \in 1 .. Padded |-> acc[p[i]]]
  BY DEF sorted, Rank
<1> HIDE DEF acc
<1>3. ASSUME NEW i \in 1 .. Padded PROVE p[i] \in 1 .. Padded /\ Rank(acc, p[i]) = i - 1
  <2>1. i - 1 \in 0 .. Padded - 1
    BY <1>1
  <2>2. \E t \in 1 .. Padded : Rank(acc, t) = i - 1
    BY <1>1, <2>1, PlacesTaken
  <2> QED BY <2>2
<1>4. p = [i \in 1 .. Padded |-> p[i]]
  OBVIOUS
<1>5. \A i \in 1 .. Padded : sorted[i] = acc[p[i]]
  BY <1>2
<1> HIDE DEF p
<1>6. ASSUME NEW t \in 1 .. Padded PROVE \E i \in 1 .. Padded : p[i] = t
  <2> DEFINE i == Rank(acc, t) + 1
  <2>1. Rank(acc, t) \in 0 .. Padded - 1
    BY <1>1, PlacesOrder
  <2>2. i \in 1 .. Padded /\ i - 1 = Rank(acc, t)
    BY <1>1, <2>1
  <2> HIDE DEF i
  <2>3. p[i] \in 1 .. Padded /\ Rank(acc, p[i]) = Rank(acc, t)
    BY <1>3, <2>2
  <2>4. p[i] = t
    <3> SUFFICES ASSUME p[i] # t PROVE FALSE
      OBVIOUS
    <3>1. Rank(acc, p[i]) < Rank(acc, t) \/ Rank(acc, t) < Rank(acc, p[i])
      BY <1>1, <2>3, BeforeOrders, PlacesOrder
    <3> QED BY <2>1, <2>3, <3>1
  <2> QED BY <2>2, <2>4
<1>7. ASSUME NEW i \in 1 .. Padded, NEW j \in 1 .. Padded
      PROVE  i < j <=> Before(acc[p[i]], acc[p[j]])
  <2>1. /\ p[i] \in 1 .. Padded /\ Rank(acc, p[i]) = i - 1
        /\ p[j] \in 1 .. Padded /\ Rank(acc, p[j]) = j - 1
    BY <1>3
  <2>2. Before(acc[p[i]], acc[p[j]]) => i - 1 < j - 1
    BY <1>1, <2>1, PlacesOrder
  <2>3. Before(acc[p[j]], acc[p[i]]) => j - 1 < i - 1
    BY <1>1, <2>1, PlacesOrder
  <2>4. p[i] = p[j] => i - 1 = j - 1
    BY <2>1
  <2>5. p[i] # p[j] => Before(acc[p[i]], acc[p[j]]) \/ Before(acc[p[j]], acc[p[i]])
    BY <1>1, <2>1, BeforeOrders
  <2> QED BY <1>1, <2>2, <2>3, <2>4, <2>5
<1>8. p \in [1 .. Padded -> 1 .. Padded]
  BY <1>3, <1>4
<1>9. \A i, j \in 1 .. Padded : i < j <=> Before(acc[p[i]], acc[p[j]])
  BY <1>7
<1>10. \A t \in 1 .. Padded : \E i \in 1 .. Padded : p[i] = t
  BY <1>6
<1> QED BY <1>5, <1>8, <1>9, <1>10 DEF acc

(* Neighbours in the sorted columns that have one address are accesses to  *)
(* it that follow each other.                                              *)
LEMMA ConstraintsCompareNeighbours ==
  ASSUME RowsType
  PROVE  ConstraintsHold
         <=> \A u, t \in 1 .. Padded :
               LastBefore(MemoryAccesses, u, t) /\ MemoryAccesses[t].rw = 0
                 => MemoryAccesses[t].val = MemoryAccesses[u].val
<1> DEFINE acc == MemoryAccesses
<1>1. AccessList(acc) /\ Padded \in Nat
  BY AccessesListed, MemoryAssumption
<1>2. PICK p \in [1 .. Padded -> 1 .. Padded] :
        /\ \A i \in 1 .. Padded : sorted[i] = acc[p[i]]
        /\ \A t \in 1 .. Padded : \E i \in 1 .. Padded : p[i] = t
        /\ \A i, j \in 1 .. Padded : i < j <=> Before(acc[p[i]], acc[p[j]])
  BY SortedColumns
<1> HIDE DEF acc
<1>3. ASSUME NEW t \in 1 .. Padded PROVE acc[t].addr \in Nat /\ acc[t].ts = t
  BY <1>1 DEF AccessList
<1>4. ASSUME NEW i \in 1 .. Padded - 1
      PROVE  /\ i \in 1 .. Padded /\ i + 1 \in 1 .. Padded
             /\ p[i] \in 1 .. Padded /\ p[i + 1] \in 1 .. Padded
  BY <1>1
<1>5. ASSUME NEW i \in 1 .. Padded - 1
      PROVE  PermutationConstraint(i)
             <=> (acc[p[i + 1]].addr = acc[p[i]].addr /\ acc[p[i + 1]].rw = 0
                    => acc[p[i + 1]].val = acc[p[i]].val)
  <2>1. sorted[i] = acc[p[i]] /\ sorted[i + 1] = acc[p[i + 1]]
    BY <1>2, <1>4
  <2>2. i \in Nat /\ i + 1 > 1 /\ (i + 1) - 1 = i
    BY <1>1
  <2>3. is_same_addr(i + 1) <=> acc[p[i + 1]].addr = acc[p[i]].addr
    BY <2>1, <2>2 DEF is_same_addr
  <2>4. acc[p[i + 1]].addr \in Nat /\ acc[p[i]].addr \in Nat
    BY <1>3, <1>4
  <2>5. ~is_same_addr(i + 1) =>
          inv_addr_diff(i + 1) = sorted[i + 1].addr - sorted[i].addr
    BY <2>2 DEF inv_addr_diff
  <2> QED BY <2>1, <2>3, <2>4, <2>5 DEF PermutationConstraint
<1>6. ASSUME NEW i \in 1 .. Padded - 1, acc[p[i + 1]].addr = acc[p[i]].addr
      PROVE  LastBefore(acc, p[i], p[i + 1])
  <2>0. i < i + 1
    BY <1>1
  <2>1. Before(acc[p[i]], acc[p[i + 1]])
    BY <1>2, <1>4, <2>0
  <2>2. p[i] < p[i + 1]
    BY <1>3, <1>4, <1>6, <2>1 DEF Before
  <2>3. ASSUME NEW w \in 1 .. Padded, acc[w].addr = acc[p[i + 1]].addr, w < p[i + 1], p[i] < w
        PROVE  FALSE
    <3>1. PICK k \in 1 .. Padded : p[k] = w
      BY <1>2
    <3>2. Before(acc[w], acc[p[i + 1]]) /\ Before(acc[p[i]], acc[w])
      BY <1>3, <1>4, <1>6, <2>3 DEF Before
    <3>3. k < i + 1 /\ i < k
      BY <1>2, <1>4, <3>1, <3>2
    <3> QED BY <1>1, <3>3
  <2>4. \A w \in 1 .. Padded : acc[w].addr = acc[p[i + 1]].addr /\ w < p[i + 1] => w <= p[i]
    BY <1>1, <1>4, <2>3
  <2> QED BY <1>6, <2>2, <2>4 DEF LastBefore
<1>7. ASSUME NEW u \in 1 .. Padded, NEW t \in 1 .. Padded, LastBefore(acc, u, t)
      PROVE  \E i \in 1 .. Padded - 1 : p[i] = u /\ p[i + 1] = t
  <2>1. PICK i \in 1 .. Padded : p[i] = u
    BY <1>2
  <2>2. PICK j \in 1 .. Padded : p[j] = t
    BY <1>2
  <2>3. Before(acc[u], acc[t])
    BY <1>3, <1>7 DEF LastBefore, Before
  <2>4. i < j
    BY <1>2, <2>1, <2>2, <2>3
  <2>5. i \in 1 .. Padded - 1
    BY <1>1, <2>4
  <2>6. j = i + 1
    <3> SUFFICES ASSUME i + 1 < j PROVE FALSE
      BY <1>1, <2>4
    <3> DEFINE w == p[i + 1]
    <3>1. i + 1 \in 1 .. Padded /\ w \in 1 .. Padded
      BY <1>4, <2>5
    <3>2. i < i + 1
      BY <1>1
    <3>3. Before(acc[u], acc[w])
      BY <1>2, <2>1, <3>1, <3>2
    <3>4. Before(acc[w], acc[t])
      BY <1>2, <2>2, <3>1
    <3> HIDE DEF w
    <3>5. /\ acc[u].addr \in Nat /\ acc[w].addr \in Nat /\ acc[t].addr \in Nat
          /\ acc[u].ts = u /\ acc[w].ts = w /\ acc[t].ts = t
      BY <1>3, <3>1
    <3>6. acc[u].addr = acc[t].addr
      BY <1>7 DEF LastBefore
    <3>7. acc[w].addr = acc[t].addr /\ u < w /\ w < t
      BY <3>3, <3>4, <3>5, <3>6 DEF Before
    <3>8. w <= u
      BY <1>7, <3>1, <3>7 DEF LastBefore
    <3> QED BY <1>1, <3>1, <3>7, <3>8
  <2> QED BY <2>1, <2>2, <2>5, <2>6
<1>8. ASSUME ConstraintsHold, NEW u \in 1 .. Padded, NEW t \in 1 .. Padded,
             LastBefore(acc, u, t), acc[t].rw = 0
      PROVE  acc[t].val = acc[u].val
  <2>1. PICK i \in 1 .. Padded - 1 : p[i] = u /\ p[i + 1] = t
    BY <1>7, <1>8
  <2>2. acc[t].addr = acc[u].addr
    BY <1>8 DEF LastBefore
  <2>3. PermutationConstraint(i)
    BY <1>8 DEF ConstraintsHold
  <2> QED BY <1>5, <1>8, <2>1, <2>2, <2>3
<1>9. ASSUME \A u, t \in 1 .. Padded :
               LastBefore(acc, u, t) /\ acc[t].rw = 0 => acc[t].val = acc[u].val,
             NEW i \in 1 .. Padded - 1
      PROVE  PermutationConstraint(i)
  BY <1>4, <1>5, <1>6, <1>9
<1> QED BY <1>8, <1>9 DEF ConstraintsHold, acc

(* The latest access before row i to its address *)
Previous(u, i) == u \in Earlier(i) /\ \A w \in Earlier(i) : w <= u

(* Padding and rows that are no accesses hold zeroes, so that only the     *)
(* rows of reads matter.                                                   *)
LEMMA ConstraintsOnRows ==
  ASSUME RowsType
  PROVE  ConstraintsHold
         <=> \A i \in 1 .. Len(rows) : \A u \in Earlier(i) :
               rows[i].op \in Reads /\ Previous(u, i) => rows[i].val = rows[u].val
<1> DEFINE acc == MemoryAccesses
           n == Len(rows)
<1>1. Padded \in Nat /\ n \in Nat /\ n < Padded
  BY MemoryAssumption DEF RowsType
<1>2. ASSUME NEW t \in 1 .. n
      PROVE  /\ t \in 1 .. Padded /\ rows[t].addr \in 0 .. 1 /\ rows[t].addr # Sentinel
             /\ rows[t].op \in Reads => IsAccess(t)
             /\ IsAccess(t) => /\ acc[t].addr = rows[t].addr /\ acc[t].val = rows[t].val
                               /\ acc[t].rw = 0 <=> rows[t].op \in Reads
  <2>1. t \in 1 .. Padded /\ t <= Len(rows)
    BY <1>1
  <2>2. rows[t].addr \in 0 .. 1 /\ rows[t].addr # Sentinel
    BY RowFields DEF Sentinel
  <2>3. "other" \notin Reads
    BY DEF Reads
  <2> QED BY <2>1, <2>2, <2>3 DEF MemoryAccesses, IsAccess
<1>3. ASSUME NEW t \in 1 .. Padded, ~(t \in 1 .. n /\ IsAccess(t))
      PROVE  acc[t].addr = Sentinel /\ acc[t].val = 0
  BY <1>1, <1>3 DEF MemoryAccesses, IsAccess
<1> HIDE DEF acc
<1>4. ASSUME NEW t \in 1 .. n, IsAccess(t), NEW u \in 1 .. Padded
      PROVE  LastBefore(acc, u, t) <=> Previous(u, t)
  <2>1. ASSUME NEW w \in 1 .. Padded
        PROVE  acc[w].addr = acc[t].addr /\ w < t <=> w \in Earlier(t)
    <3>1. acc[t].addr = rows[t].addr /\ rows[t].addr # Sentinel
      BY <1>2, <1>4
    <3>2. CASE w \in 1 .. n /\ IsAccess(w)
      BY <1>1, <1>2, <3>1, <3>2 DEF Earlier
    <3>3. CASE ~(w \in 1 .. n /\ IsAccess(w))
      BY <1>1, <1>3, <3>1, <3>3 DEF Earlier
    <3> QED BY <3>2, <3>3
  <2>2. Earlier(t) \subseteq 1 .. Padded
    BY <1>1 DEF Earlier
  <2> QED BY <2>1, <2>2 DEF LastBefore, Previous
<1>5. ASSUME NEW i \in 1 .. n, NEW u \in Earlier(i)
      PROVE  u \in 1 .. n /\ IsAccess(u) /\ u \in 1 .. Padded
  BY <1>1 DEF Earlier
<1>6. ConstraintsHold
      <=> \A u, t \in 1 .. Padded :
            LastBefore(acc, u, t) /\ acc[t].rw = 0 => acc[t].val = acc[u].val
  BY ConstraintsCompareNeighbours DEF acc
<1>7. ASSUME ConstraintsHold, NEW i \in 1 .. n, NEW u \in Earlier(i),
             rows[i].op \in Reads, Previous(u, i)
      PROVE  rows[i].val = rows[u].val
  <2>1. IsAccess(i) /\ u \in 1 .. n /\ IsAccess(u) /\ u \in 1 .. Padded /\ i \in 1 .. Padded
    BY <1>2, <1>5, <1>7
  <2>2. LastBefore(acc, u, i) /\ acc[i].rw = 0
    BY <1>2, <1>4, <1>7, <2>1
  <2>3. acc[i].val = acc[u].val
    BY <1>6, <1>7, <2>1, <2>2
  <2> QED BY <1>2, <2>1, <2>3
<1>8. ASSUME \A i \in 1 .. n : \A u \in Earlier(i) :
               rows[i].op \in Reads /\ Previous(u, i) => rows[i].val = rows[u].val,
             NEW u \in 1 .. Padded, NEW t \in 1 .. Padded,
             LastBefore(acc, u, t), acc[t].rw = 0
      PROVE  acc[t].val = acc[u].val
  <2>1. acc[u].addr = acc[t].addr
    BY <1>8 DEF LastBefore
  <2>2. CASE t \in 1 .. n /\ IsAccess(t)
    <3>1. Previous(u, t) /\ u \in Earlier(t)
      BY <1>4, <1>8, <2>2 DEF Previous
    <3>2. rows[t].op \in Reads
      BY <1>2, <1>8, <2>2
    <3>3. rows[t].val = rows[u].val
      BY <1>8, <2>2, <3>1, <3>2
    <3> QED BY <1>2, <1>5, <2>2, <3>1, <3>3
  <2>3. CASE ~(t \in 1 .. n /\ IsAccess(t))
    <3>1. acc[t].addr = Sentinel /\ acc[t].val = 0
      BY <1>3, <2>3
    <3>2. ~(u \in 1 .. n /\ IsAccess(u))
      BY <1>2, <2>1, <3>1
    <3> QED BY <1>3, <3>1, <3>2
  <2> QED BY <2>2, <2>3
<1> QED BY <1>6, <1>7, <1>8

(* What the trace must have at row i, by the latest access and by the      *)
(* latest store                                                            *)
AgreesWithPrevious(i) ==
  \A u \in Earlier(i) : rows[i].op \in Reads /\ Previous(u, i) => rows[i].val = rows[u].val
AgreesWithStore(i) ==
  rows[i].op \in Reads =>
    /\ \A j \in Earlier(i) : IsLatest(j, EarlierStores(i)) => rows[i].val = rows[j].val
    /\ EarlierStores(i) = {} => \A j \in Earlier(i) : rows[i].val = rows[j].val

LEMMA EarlierRows ==
  ASSUME RowsType, NEW i \in 1 .. Len(rows)
  PROVE  /\ Earlier(i) \subseteq 1 .. Len(rows) /\ Earlier(i) \subseteq 0 .. Len(rows)
         /\ EarlierStores(i) \subseteq Earlier(i)
         /\ \A u \in Earlier(i) : u < i /\ IsAccess(u) /\ rows[u].addr = rows[i].addr
         /\ \A u \in Earlier(i), w \in 1 .. Len(rows) :
              w < u => (w \in Earlier(i) <=> w \in Earlier(u))
BY DEF RowsType, Earlier, EarlierStores

(* If every read agrees with the access just before it, then by following  *)
(* reads back each agrees with the store they all come from.               *)
LEMMA PreviousDecide ==
  ASSUME RowsType
  PROVE  (\A i \in 1 .. Len(rows) : AgreesWithPrevious(i))
           <=> LoadsReturnLastStore /\ FirstLoadsAgree
<1> DEFINE n == Len(rows)
<1>1. n \in Nat
  BY DEF RowsType
<1>2. LoadsReturnLastStore /\ FirstLoadsAgree <=> \A i \in 1 .. n : AgreesWithStore(i)
  BY DEF LoadsReturnLastStore, FirstLoadsAgree, AgreesWithStore
<1>3. ASSUME NEW i \in 1 .. n, NEW S, S \subseteq Earlier(i), S # {}
      PROVE  \E j \in S : \A k \in S : k <= j
  <2>1. S \subseteq 0 .. n
    BY <1>3, EarlierRows
  <2> HIDE DEF n
  <2> QED BY <1>1, <1>3, <2>1, GreatestNat
<1>4. ASSUME NEW i \in 1 .. n, NEW u \in Earlier(i), Previous(u, i)
      PROVE  /\ u \in 1 .. n /\ u < i
             /\ \A w \in Earlier(i) : w # u => w \in Earlier(u)
             /\ Earlier(u) \subseteq Earlier(i)
             /\ rows[u].op \in Reads => EarlierStores(i) = EarlierStores(u)
  <2>1. u \in 1 .. n /\ u < i /\ Earlier(i) \subseteq 1 .. n
    BY EarlierRows
  <2>2. ASSUME NEW w \in Earlier(i), w # u PROVE w \in Earlier(u)
    <3>1. w \in 1 .. n /\ w <= u
      BY <1>4, <2>1 DEF Previous
    <3>2. w < u
      BY <1>1, <2>1, <2>2, <3>1
    <3> QED BY <3>1, <3>2, EarlierRows
  <2>3. ASSUME NEW w \in Earlier(u) PROVE w \in Earlier(i) /\ w < u
    <3>1. w \in 1 .. n /\ w < u
      BY <2>1, EarlierRows
    <3> QED BY <3>1, EarlierRows
  <2>4. ASSUME rows[u].op \in Reads PROVE EarlierStores(i) = EarlierStores(u)
    BY <2>2, <2>3, <2>4 DEF EarlierStores
  <2> QED BY <2>1, <2>2, <2>3, <2>4
<1>5. ASSUME \A i \in 1 .. n : AgreesWithStore(i),
             NEW i \in 1 .. n, NEW u \in Earlier(i), rows[i].op \in Reads, Previous(u, i)
      PROVE  rows[i].val = rows[u].val
  <2>1. AgreesWithStore(i) /\ AgreesWithStore(u)
    BY <1>4, <1>5
  <2>2. CASE rows[u].op \notin Reads
    <3>1. IsLatest(u, EarlierStores(i))
      BY <1>5, <2>2 DEF IsLatest, EarlierStores, Previous
    <3> QED BY <1>5, <2>1, <3>1 DEF AgreesWithStore
  <2>3. CASE rows[u].op \in Reads /\ EarlierStores(i) = {}
    BY <1>5, <2>1, <2>3 DEF AgreesWithStore
  <2>4. CASE rows[u].op \in Reads /\ EarlierStores(i) # {}
    <3>1. EarlierStores(i) \subseteq Earlier(i) /\ EarlierStores(i) = EarlierStores(u)
      BY <1>4, <1>5, <2>4, EarlierRows
    <3>2. PICK j \in EarlierStores(i) : \A k \in EarlierStores(i) : k <= j
      BY <1>3, <2>4, <3>1
    <3>3. j \in Earlier(i) /\ j \in Earlier(u)
      BY <3>1, <3>2, EarlierRows, <1>4, <1>5
    <3>4. IsLatest(j, EarlierStores(i)) /\ IsLatest(j, EarlierStores(u))
      BY <3>1, <3>2 DEF IsLatest
    <3> QED BY <1>5, <2>1, <2>4, <3>3, <3>4 DEF AgreesWithStore
  <2> QED BY <2>2, <2>3, <2>4
<1>6. ASSUME \A i \in 1 .. n : AgreesWithPrevious(i),
             NEW i \in 1 .. n, \A k \in 1 .. n : k < i => AgreesWithStore(k)
      PROVE  AgreesWithStore(i)
  <2> SUFFICES ASSUME rows[i].op \in Reads, Earlier(i) # {} PROVE AgreesWithStore(i)
    BY DEF AgreesWithStore
  <2>1. PICK u \in Earlier(i) : \A k \in Earlier(i) : k <= u
    BY <1>3
  <2>2. Previous(u, i)
    BY <2>1 DEF Previous
  <2>3. rows[i].val = rows[u].val
    BY <1>6, <2>2 DEF AgreesWithPrevious
  <2>4. CASE rows[u].op \notin Reads
    <3>1. u \in EarlierStores(i) /\ EarlierStores(i) \subseteq Earlier(i)
      BY <2>4, EarlierRows DEF EarlierStores
    <3>2. ASSUME NEW j \in Earlier(i), IsLatest(j, EarlierStores(i)) PROVE j = u
      <4>1. u <= j /\ j <= u
        BY <2>1, <3>1, <3>2 DEF IsLatest
      <4>2. u \in Nat /\ j \in Nat
        BY EarlierRows
      <4> QED BY <4>1, <4>2
    <3> QED BY <2>3, <3>1, <3>2 DEF AgreesWithStore
  <2>5. CASE rows[u].op \in Reads
    <3>1. EarlierStores(i) = EarlierStores(u) /\ u \in 1 .. n /\ AgreesWithStore(u)
      BY <1>4, <1>6, <2>2, <2>5
    <3>2. ASSUME NEW j \in Earlier(i), IsLatest(j, EarlierStores(i))
          PROVE  rows[i].val = rows[j].val
      <4>1. IsLatest(j, EarlierStores(u)) /\ j \in Earlier(u)
        BY <3>1, <3>2, EarlierRows DEF IsLatest
      <4> QED BY <2>3, <2>5, <3>1, <4>1 DEF AgreesWithStore
    <3>3. ASSUME EarlierStores(i) = {}, NEW j \in Earlier(i)
          PROVE  rows[i].val = rows[j].val
      <4>1. CASE j = u
        BY <2>3, <4>1
      <4>2. CASE j # u
        <5>1. j \in Earlier(u)
          BY <1>4, <2>2, <4>2
        <5> QED BY <2>3, <2>5, <3>1, <3>3, <5>1 DEF AgreesWithStore
      <4> QED BY <4>1, <4>2
    <3> QED BY <3>2, <3>3 DEF AgreesWithStore
  <2> QED BY <2>4, <2>5
<1>7. ASSUME \A i \in 1 .. n : AgreesWithPrevious(i)
      PROVE  \A i \in 1 .. n : AgreesWithStore(i)
  <2> DEFINE U == {i \in 1 .. n : ~AgreesWithStore(i)}
  <2> SUFFICES ASSUME U # {} PROVE FALSE
    OBVIOUS
  <2>1. U \subseteq Nat
    BY <1>1
  <2>2. PICK i \in U : \A k \in U : i <= k
    <3> HIDE DEF U
    <3> QED BY <2>1, LeastNat
  <2>3. \A k \in 1 .. n : k < i => AgreesWithStore(k)
    BY <1>1, <2>2
  <2>4. i \in 1 .. n /\ ~AgreesWithStore(i)
    BY <2>2
  <2> QED BY <1>6, <1>7, <2>3, <2>4
<1>8. ASSUME \A i \in 1 .. n : AgreesWithStore(i)
      PROVE  \A i \in 1 .. n : AgreesWithPrevious(i)
  BY <1>5, <1>8 DEF AgreesWithPrevious
<1> QED BY <1>2, <1>7, <1>8

(* The constraints on the sorted columns hold exactly if every load        *)
(* returns what was stored last, whatever the rows.                        *)
LEMMA ConstraintsDecide ==
  ASSUME RowsType
  PROVE  ConstraintsDecideConsistency
<1>1. ConstraintsHold <=> \A i \in 1 .. Len(rows) : AgreesWithPrevious(i)
  BY ConstraintsOnRows DEF AgreesWithPrevious
<1> QED BY <1>1, PreviousDecide DEF ConstraintsDecideConsistency

(* What an access really did *)
MemTruth == [size : 0 .. 2, old : Doubles, rs2 : Doubles, x0 : BOOLEAN, stores : BOOLEAN,
             val : Doubles]

(* The state of the guest and of the tracer *)
MemTypeOK ==
  /\ tracer \in {"owned", "borrowed"} /\ reserved \in BOOLEAN
  /\ cells \in [1 .. 2 -> Bytes]
  /\ RowsType
  /\ truth \in Seq(MemTruth) /\ Len(truth) = Len(rows)

(* A row and what it is about: a double access starts at cell 0, and a row *)
(* differs from memory for one of the causes.                              *)
RowIsRight(i) ==
  /\ IsAccess(i) <=> truth[i].size # 0
  /\ truth[i].size = 2 => rows[i].addr = 0
  /\ Cause(i) <=> rows[i].val # truth[i].val

(* Accesses of one size touch the same cell or none in common: memory      *)
(* holds what the last access to an address left there, and a read finds   *)
(* what the access before it left.                                         *)
LastAccess(j) ==
  IsAccess(j) /\ \A k \in j + 1 .. Len(rows) : IsAccess(k) => rows[k].addr # rows[j].addr
MemoryHoldsLast ==
  \A j \in 1 .. Len(rows) :
    LastAccess(j) => Content(cells, rows[j].addr, truth[j].size) = truth[j].val
ReadsFindLast ==
  \A i \in 1 .. Len(rows) : \A u \in Earlier(i) :
    rows[i].op \in Reads /\ Previous(u, i) => truth[i].val = truth[u].val

MemInv ==
  /\ MemTypeOK
  /\ \A i \in 1 .. Len(rows) : RowIsRight(i)
  /\ ~MixedSizes => MemoryHoldsLast /\ ReadsFindLast

LEMMA MemoryValues ==
  ASSUME NEW mem \in [1 .. 2 -> Bytes], NEW a \in 0 .. 1, NEW size \in 1 .. 2
  PROVE  /\ Content(mem, a, size) \in Doubles
         /\ size = 1 => Content(mem, a, size) \in Bytes
         /\ \A v \in Doubles :
              /\ Store(mem, a, size, v) \in [1 .. 2 -> Bytes]
              /\ size = 2 => Content(Store(mem, a, size, v), a, size) = v
              /\ size = 1 => Content(Store(mem, a, size, v), a, size) = v % 2
<1>1. mem[1] \in Bytes /\ mem[2] \in Bytes /\ mem[a + 1] \in Bytes /\ a + 1 \in 1 .. 2
  OBVIOUS
<1>2. Content(mem, a, size) \in Doubles /\ (size = 1 => Content(mem, a, size) \in Bytes)
  BY <1>1 DEF Content, Bytes, Doubles
<1>3. ASSUME NEW v \in Doubles
      PROVE  v % 2 \in Bytes /\ v \div 2 \in Bytes /\ (v % 2) + 2 * (v \div 2) = v
  BY DEF Doubles, Bytes
<1>4. ASSUME NEW v \in Doubles, size = 2
      PROVE  /\ Store(mem, a, size, v) \in [1 .. 2 -> Bytes]
             /\ Content(Store(mem, a, size, v), a, size) = v
  <2>1. Store(mem, a, size, v) = <<v % 2, v \div 2>>
    BY <1>4 DEF Store
  <2> QED BY <1>3, <1>4, <2>1 DEF Content
<1>5. ASSUME NEW v \in Doubles, size = 1
      PROVE  /\ Store(mem, a, size, v) \in [1 .. 2 -> Bytes]
             /\ Content(Store(mem, a, size, v), a, size) = v % 2
  <2>1. Store(mem, a, size, v) = [mem EXCEPT ![a + 1] = v % 2]
    BY <1>5 DEF Store
  <2> QED BY <1>1, <1>3, <1>5, <2>1 DEF Content
<1> QED BY <1>2, <1>4, <1>5

(* The values of one access, apart from the state it is made in *)
AccessOf(op, a, rs2, x0) ==
  /\ op \in DoubleOps \union ByteOps /\ a \in 0 .. 1 /\ rs2 \in Doubles /\ x0 \in BOOLEAN
  /\ op \in DoubleOps => a = 0
  /\ x0 => op \in {"LD", "LR", "AMOADD"}
  /\ Access(op, a, rs2, x0)

LEMMA AccessEffect ==
  ASSUME MemTypeOK, NEW op, NEW a, NEW rs2, NEW x0, AccessOf(op, a, rs2, x0)
  PROVE  \E row \in MemRow, h \in MemTruth :
           /\ rows' = Append(rows, row) /\ truth' = Append(truth, h)
           /\ row.addr = a /\ row.op = op /\ h.size = Size(op) /\ h.size \in 1 .. 2
           /\ h.size = 2 => a = 0
           /\ cells' \in [1 .. 2 -> Bytes] /\ reserved' \in BOOLEAN
           /\ h.val = Content(cells', a, h.size)
           /\ op \in Reads => cells' = cells
           /\ h.size = 1 => \A b \in 0 .. 1 : b # a => cells'[b + 1] = cells[b + 1]
           /\ (\/ op = "LB" /\ h.old = 1
               \/ op \in Reads /\ h.x0 /\ h.old # 0
               \/ op = "SB" /\ h.rs2 > 1
               \/ op = "SC" /\ ~h.stores /\ h.rs2 # h.old
               \/ op = "AMOADD" /\ h.old # 0 /\ (tracer = "borrowed" \/ h.x0))
              <=> row.val # h.val
<1> DEFINE old == Content(cells, a, Size(op))
           stores == op \in {"SD", "SB", "AMOADD"} \/ (op = "SC" /\ reserved)
           new == IF op = "AMOADD" THEN (old + rs2) % 4 ELSE rs2
           rd == IF op = "SC" THEN (IF reserved THEN 0 ELSE 1) ELSE Loaded(op, old)
           rd_val_after == IF x0 THEN 0 ELSE rd
           mv == mem_val(op, rd_val_after, rs2)
           row == [addr |-> a, val |-> mv, op |-> op]
           h == [size |-> Size(op), old |-> old, rs2 |-> rs2, x0 |-> x0,
                 stores |-> stores, val |-> Content(cells', a, Size(op))]
<1>1. /\ cells' = IF stores THEN Store(cells, a, Size(op), new) ELSE cells
      /\ reserved' = CASE op = "LR" -> TRUE
                       [] op = "SC" \/ stores -> FALSE
                       [] OTHER -> reserved
      /\ rows' = Append(rows, row) /\ truth' = Append(truth, h)
  BY DEF AccessOf, Access
<1>2. /\ op \in DoubleOps \union ByteOps /\ a \in 0 .. 1 /\ rs2 \in Doubles /\ x0 \in BOOLEAN
      /\ op \in DoubleOps => a = 0
      /\ x0 => op \in {"LD", "LR", "AMOADD"}
      /\ tracer \in {"owned", "borrowed"} /\ reserved \in BOOLEAN
      /\ cells \in [1 .. 2 -> Bytes]
  BY DEF AccessOf, MemTypeOK
<1>3. /\ Size(op) \in 1 .. 2 /\ (Size(op) = 2 <=> op \in DoubleOps)
      /\ (Size(op) = 2 => a = 0)
  BY <1>2 DEF Size
<1>4. old \in Doubles /\ (Size(op) = 1 => old \in Bytes)
  BY <1>2, <1>3, MemoryValues
<1> HIDE DEF old
<1>5. new \in Doubles /\ rd \in Doubles /\ rd_val_after \in Doubles
  BY <1>2, <1>4 DEF Doubles, Loaded
<1>6. mv \in Nat
  BY <1>2, <1>5 DEF mem_val, compute_mem_val, Doubles
<1>7. cells' \in [1 .. 2 -> Bytes] /\ reserved' \in BOOLEAN
  <2>1. cells' \in [1 .. 2 -> Bytes]
    BY <1>1, <1>2, <1>3, <1>5, MemoryValues
  <2>2. reserved' \in BOOLEAN
    BY <1>1, <1>2
  <2> QED BY <2>1, <2>2
<1>8. Content(cells', a, Size(op)) =
        IF stores THEN (IF Size(op) = 2 THEN new ELSE new % 2) ELSE old
  <2>1. Size(op) = 1 \/ Size(op) = 2
    BY <1>3
  <2>2. CASE stores
    <3>1. cells' = Store(cells, a, Size(op), new)
      BY <1>1, <2>2
    <3> HIDE DEF new
    <3>2. /\ Size(op) = 2 => Content(Store(cells, a, Size(op), new), a, Size(op)) = new
          /\ Size(op) = 1 => Content(Store(cells, a, Size(op), new), a, Size(op)) = new % 2
      BY <1>2, <1>3, <1>5, MemoryValues
    <3> QED BY <2>1, <2>2, <3>1, <3>2
  <2>3. CASE ~stores
    BY <1>1, <2>3 DEF old
  <2> QED BY <2>2, <2>3
<1>9. Content(cells', a, Size(op)) \in Doubles
  BY <1>2, <1>3, <1>7, MemoryValues
<1>10. stores \in BOOLEAN
  BY <1>2
<1>11. row \in MemRow /\ h \in MemTruth
  BY <1>2, <1>3, <1>4, <1>6, <1>9, <1>10 DEF MemRow, MemTruth
<1>12. op \in Reads => cells' = cells
  BY <1>1 DEF Reads
<1>13. Size(op) = 1 => \A b \in 0 .. 1 : b # a => cells'[b + 1] = cells[b + 1]
  BY <1>1, <1>2 DEF Store
<1>14. (\/ op = "LB" /\ old = 1
        \/ op \in Reads /\ x0 /\ old # 0
        \/ op = "SB" /\ rs2 > 1
        \/ op = "SC" /\ ~stores /\ rs2 # old
        \/ op = "AMOADD" /\ old # 0 /\ (tracer = "borrowed" \/ x0))
       <=> mv # Content(cells', a, Size(op))
  <2> DEFINE v == Content(cells', a, Size(op))
  <2>0. v = IF stores THEN (IF Size(op) = 2 THEN new ELSE new % 2) ELSE old
    BY <1>8
  <2> HIDE DEF v
  <2>1. CASE op \in {"LD", "LR"}
    <3>1. v = old /\ mv = (IF x0 THEN 0 ELSE old)
      BY <2>0, <2>1 DEF mem_val, Reads, Loaded
    <3> QED BY <1>2, <1>4, <2>1, <3>1 DEF Reads, v
  <2>2. CASE op \in {"LB", "LBU"}
    <3>1. v = old /\ ~x0 /\ mv = Loaded(op, old)
      BY <1>2, <2>0, <2>2 DEF mem_val, Reads
    <3>2. old \in Bytes
      BY <1>3, <1>4, <2>2 DEF DoubleOps, Bytes
    <3> QED BY <2>2, <3>1, <3>2 DEF Reads, v, Loaded, Bytes
  <2>3. CASE op = "SD"
    <3>1. v = rs2 /\ mv = rs2
      BY <1>3, <2>0, <2>3 DEF mem_val, Reads, compute_mem_val, DoubleOps
    <3> QED BY <2>3, <3>1 DEF Reads, v
  <2>4. CASE op = "SB"
    <3>1. v = rs2 % 2 /\ mv = rs2
      BY <1>3, <2>0, <2>4 DEF mem_val, Reads, compute_mem_val, DoubleOps
    <3>2. rs2 % 2 # rs2 <=> rs2 > 1
      BY <1>2 DEF Doubles
    <3> QED BY <2>4, <3>1, <3>2 DEF Reads, v
  <2>5. CASE op = "SC"
    <3>1. v = (IF stores THEN rs2 ELSE old) /\ mv = rs2
      BY <1>3, <2>0, <2>5 DEF mem_val, Reads, compute_mem_val, DoubleOps
    <3> QED BY <2>5, <3>1 DEF Reads, v
  <2>6. CASE op = "AMOADD"
    <3>1. /\ v = (old + rs2) % 4
          /\ mv = IF tracer = "owned" THEN ((IF x0 THEN 0 ELSE old) + rs2) % 4 ELSE rs2
      BY <1>3, <2>0, <2>6 DEF mem_val, Reads, compute_mem_val, DoubleOps, Loaded
    <3>2. (old + rs2) % 4 = rs2 <=> old = 0
      BY <1>2, <1>4 DEF Doubles
    <3>3. (0 + rs2) % 4 = rs2
      BY <1>2 DEF Doubles
    <3> QED BY <1>2, <2>6, <3>1, <3>2, <3>3 DEF Reads, v
  <2> QED BY <1>2, <2>1, <2>2, <2>3, <2>4, <2>5, <2>6 DEF DoubleOps, ByteOps
<1>15. /\ row.addr = a /\ row.op = op /\ row.val = mv
       /\ h.size = Size(op) /\ h.old = old /\ h.rs2 = rs2 /\ h.x0 = x0 /\ h.stores = stores
       /\ h.val = Content(cells', a, Size(op))
  OBVIOUS
<1> HIDE DEF row, h, mv, stores
<1>16. /\ rows' = Append(rows, row) /\ truth' = Append(truth, h)
       /\ row.addr = a /\ row.op = op /\ h.size = Size(op) /\ h.size \in 1 .. 2
       /\ h.size = 2 => a = 0
       /\ cells' \in [1 .. 2 -> Bytes] /\ reserved' \in BOOLEAN
       /\ h.val = Content(cells', a, h.size)
       /\ op \in Reads => cells' = cells
       /\ h.size = 1 => \A b \in 0 .. 1 : b # a => cells'[b + 1] = cells[b + 1]
       /\ (\/ op = "LB" /\ h.old = 1
           \/ op \in Reads /\ h.x0 /\ h.old # 0
           \/ op = "SB" /\ h.rs2 > 1
           \/ op = "SC" /\ ~h.stores /\ h.rs2 # h.old
           \/ op = "AMOADD" /\ h.old # 0 /\ (tracer = "borrowed" \/ h.x0))
          <=> row.val # h.val
  BY <1>1, <1>3, <1>7, <1>12, <1>13, <1>14, <1>15
<1> QED BY <1>11, <1>16, Zenon

(* One row more: the earlier rows and their causes are what they were. *)
LEMMA RowsGrow ==
  ASSUME MemTypeOK, Len(rows) < MaxAccesses, tracer' = tracer,
         NEW row \in MemRow, NEW h \in MemTruth,
         rows' = Append(rows, row), truth' = Append(truth, h)
  PROVE  /\ Len(rows') = Len(rows) + 1 /\ RowsType'
         /\ truth' \in Seq(MemTruth) /\ Len(truth') = Len(rows')
         /\ rows'[Len(rows) + 1] = row /\ truth'[Len(rows) + 1] = h
         /\ \A i \in 1 .. Len(rows) :
              /\ rows'[i] = rows[i] /\ truth'[i] = truth[i]
              /\ IsAccess(i)' = IsAccess(i)
              /\ RowIsRight(i)' = RowIsRight(i)
              /\ Earlier(i)' = Earlier(i)
              /\ \A u \in Earlier(i) : Previous(u, i)' = Previous(u, i)
         /\ MixedSizes => MixedSizes'
<1> DEFINE n == Len(rows)
<1>1. /\ rows \in Seq(MemRow) /\ truth \in Seq(MemTruth) /\ Len(truth) = n /\ n \in Nat
      /\ MaxAccesses \in Nat
  BY MemoryAssumption DEF MemTypeOK, RowsType
<1>2. /\ rows' \in Seq(MemRow) /\ Len(rows') = n + 1 /\ rows'[n + 1] = row
      /\ \A i \in 1 .. n : rows'[i] = rows[i]
  BY <1>1
<1>3. /\ truth' \in Seq(MemTruth) /\ Len(truth') = n + 1 /\ truth'[n + 1] = h
      /\ \A i \in 1 .. n : truth'[i] = truth[i]
  BY <1>1
<1>4. RowsType'
  BY <1>1, <1>2 DEF RowsType
<1>5. ASSUME NEW i \in 1 .. n
      PROVE  /\ rows'[i] = rows[i] /\ truth'[i] = truth[i]
             /\ IsAccess(i)' = IsAccess(i)
             /\ RowIsRight(i)' = RowIsRight(i)
  <2>1. rows'[i] = rows[i] /\ truth'[i] = truth[i]
    BY <1>2, <1>3
  <2>2. IsAccess(i)' = IsAccess(i)
    BY <2>1 DEF IsAccess
  <2>3. Cause(i)' = Cause(i)
    BY <2>1 DEF Cause
  <2> QED BY <2>1, <2>2, <2>3 DEF RowIsRight
<1>6. ASSUME NEW i \in 1 .. n PROVE Earlier(i)' = Earlier(i)
  <2>1. \A j \in 1 .. i - 1 : rows'[j] = rows[j]
    BY <1>1, <1>2
  <2>2. rows'[i] = rows[i]
    BY <1>2
  <2> QED BY <2>1, <2>2 DEF Earlier, IsAccess
<1>7. ASSUME NEW i \in 1 .. n, NEW u PROVE Previous(u, i)' = Previous(u, i)
  BY <1>6 DEF Previous
<1>8. MixedSizes => MixedSizes'
  BY <1>1, <1>2, <1>3 DEF MixedSizes
<1> QED BY <1>2, <1>3, <1>4, <1>5, <1>6, <1>7, <1>8

LEMMA MemInitInv ==
  ASSUME MemInit
  PROVE  MemInv
<1>1. tracer \in {"owned", "borrowed"} /\ reserved \in BOOLEAN /\ rows = <<>> /\ truth = <<>>
  BY MemoryAssumption DEF MemInit
<1>2. cells \in [1 .. 2 -> Bytes]
  BY DEF MemInit, Bytes
<1>3. Len(rows) = 0 /\ rows \in Seq(MemRow) /\ truth \in Seq(MemTruth) /\ Len(truth) = 0
  BY <1>1
<1> QED BY <1>1, <1>2, <1>3, MemoryAssumption
        DEF MemInv, MemTypeOK, RowsType, MemoryHoldsLast, ReadsFindLast

LEMMA AccessInv ==
  ASSUME MemInv, MemAccess
  PROVE  MemInv'
<1> DEFINE n == Len(rows)
<1>1. PICK op \in Instructions, a \in 0 .. 1, rs2 \in Operands, x0 \in Discards :
        /\ op \in DoubleOps => a = 0
        /\ x0 => op \in {"LD", "LR", "AMOADD"}
        /\ Access(op, a, rs2, x0)
  BY DEF MemAccess
<1>2. AccessOf(op, a, rs2, x0) /\ tracer' = tracer /\ n < MaxAccesses
  BY <1>1, MemoryAssumption DEF AccessOf, MemAccess
<1>3. MemTypeOK /\ \A i \in 1 .. n : RowIsRight(i)
  BY DEF MemInv
<1>4. PICK row \in MemRow, h \in MemTruth :
        /\ rows' = Append(rows, row) /\ truth' = Append(truth, h)
        /\ row.addr = a /\ row.op = op /\ h.size = Size(op) /\ h.size \in 1 .. 2
        /\ h.size = 2 => a = 0
        /\ cells' \in [1 .. 2 -> Bytes] /\ reserved' \in BOOLEAN
        /\ h.val = Content(cells', a, h.size)
        /\ op \in Reads => cells' = cells
        /\ h.size = 1 => \A b \in 0 .. 1 : b # a => cells'[b + 1] = cells[b + 1]
        /\ (\/ op = "LB" /\ h.old = 1
            \/ op \in Reads /\ h.x0 /\ h.old # 0
            \/ op = "SB" /\ h.rs2 > 1
            \/ op = "SC" /\ ~h.stores /\ h.rs2 # h.old
            \/ op = "AMOADD" /\ h.old # 0 /\ (tracer = "borrowed" \/ h.x0))
           <=> row.val # h.val
  BY <1>2, <1>3, AccessEffect
<1>5. /\ Len(rows') = n + 1 /\ RowsType'
      /\ truth' \in Seq(MemTruth) /\ Len(truth') = Len(rows')
      /\ rows'[n + 1] = row /\ truth'[n + 1] = h
      /\ \A i \in 1 .. n :
           /\ rows'[i] = rows[i] /\ truth'[i] = truth[i]
           /\ IsAccess(i)' = IsAccess(i)
           /\ RowIsRight(i)' = RowIsRight(i)
           /\ Earlier(i)' = Earlier(i)
           /\ \A u \in Earlier(i) : Previous(u, i)' = Previous(u, i)
      /\ MixedSizes => MixedSizes'
  BY <1>2, <1>3, <1>4, RowsGrow
<1>6. n \in Nat /\ Len(truth) = n /\ RowsType /\ cells \in [1 .. 2 -> Bytes]
  BY <1>3 DEF MemTypeOK, RowsType
<1>7. MemTypeOK'
  BY <1>2, <1>3, <1>4, <1>5 DEF MemTypeOK
<1>8. op # "other"
  BY <1>2 DEF AccessOf, DoubleOps, ByteOps
<1>9. ASSUME NEW i, i = n + 1 PROVE IsAccess(i)' /\ RowIsRight(i)'
  <2>0. rows'[i] = row /\ truth'[i] = h
    BY <1>5, <1>9
  <2>1. IsAccess(i)'
    BY <1>4, <1>8, <2>0 DEF IsAccess
  <2>2. Cause(i)' <=> row.val # h.val
    BY <1>2, <1>4, <2>0 DEF Cause
  <2>3. h.size # 0
    BY <1>4
  <2> QED BY <1>4, <2>0, <2>1, <2>2, <2>3 DEF RowIsRight
<1>10. ASSUME NEW i \in 1 .. Len(rows') PROVE i \in 1 .. n \/ i = n + 1
  BY <1>5, <1>6
<1>11. \A i \in 1 .. Len(rows') : RowIsRight(i)'
  BY <1>3, <1>5, <1>9, <1>10
<1>12. ASSUME ~MixedSizes' PROVE MemoryHoldsLast /\ ReadsFindLast
  BY <1>5, <1>12 DEF MemInv
<1>13. ASSUME NEW j \in 1 .. n
       PROVE  /\ truth[j].size \in 0 .. 2 /\ rows[j].addr \in 0 .. 1
              /\ IsAccess(j) => truth[j].size \in 1 .. 2
              /\ truth[j].size = 2 => rows[j].addr = 0
  <2>1. truth[j] \in MemTruth
    BY <1>3, <1>6 DEF MemTypeOK
  <2>2. truth[j].size \in 0 .. 2 /\ rows[j].addr \in 0 .. 1
    BY <1>6, <2>1, RowFields DEF MemTruth
  <2> QED BY <1>3, <2>2 DEF RowIsRight
<1>14. ASSUME ~MixedSizes', NEW j \in 1 .. n, IsAccess(j) PROVE truth[j].size = h.size
  <2>1. j \in 1 .. Len(rows') /\ n + 1 \in 1 .. Len(rows')
    BY <1>5, <1>6
  <2>2. ~(truth'[j].size = 1 /\ truth'[n + 1].size = 2)
        /\ ~(truth'[n + 1].size = 1 /\ truth'[j].size = 2)
    BY <1>14, <2>1 DEF MixedSizes
  <2> QED BY <1>4, <1>5, <1>13, <1>14, <2>2
<1>15. ASSUME ~MixedSizes', NEW j \in 1 .. Len(rows'), LastAccess(j)'
       PROVE  Content(cells, rows[j].addr, truth[j].size)' = truth'[j].val
  <2>1. CASE j = n + 1
    BY <1>4, <1>5, <2>1
  <2>2. CASE j \in 1 .. n
    <3>1. IsAccess(j) /\ rows[j].addr # a
      <4>1. PICK k : k = n + 1
        OBVIOUS
      <4>2. k \in j + 1 .. Len(rows') /\ IsAccess(k)' /\ rows'[k] = row
        BY <1>5, <1>6, <1>9, <2>2, <4>1
      <4>3. IsAccess(j)' /\ rows'[k].addr # rows'[j].addr
        BY <1>15, <4>2 DEF LastAccess
      <4>4. IsAccess(j)' => IsAccess(j)
        BY <1>5, <2>2
      <4>5. rows'[j] = rows[j] /\ row.addr = a
        BY <1>4, <1>5, <2>2
      <4> QED BY <4>2, <4>3, <4>4, <4>5
    <3>2. LastAccess(j)
      <4>1. ASSUME NEW k \in j + 1 .. n, IsAccess(k) PROVE rows[k].addr # rows[j].addr
        <5>1. k \in j + 1 .. Len(rows') /\ k \in 1 .. n
          BY <1>5, <1>6, <2>2
        <5> QED BY <1>5, <1>15, <2>2, <4>1, <5>1 DEF LastAccess
      <4> QED BY <3>1, <4>1 DEF LastAccess
    <3>3. Content(cells, rows[j].addr, truth[j].size) = truth[j].val
      BY <1>12, <1>15, <2>2, <3>2 DEF MemoryHoldsLast
    <3>4. truth[j].size = 1 /\ h.size = 1
      BY <1>4, <1>13, <1>14, <1>15, <2>2, <3>1
    <3>5. cells'[rows[j].addr + 1] = cells[rows[j].addr + 1]
      BY <1>4, <1>13, <2>2, <3>1, <3>4
    <3> QED BY <1>5, <2>2, <3>3, <3>4, <3>5 DEF Content
  <2> QED BY <1>10, <2>1, <2>2
<1>16. ASSUME ~MixedSizes', NEW i \in 1 .. Len(rows'), NEW u \in Earlier(i)',
              rows'[i].op \in Reads, Previous(u, i)'
       PROVE  truth'[i].val = truth'[u].val
  <2>1. CASE i \in 1 .. n
    <3>1. u \in Earlier(i) /\ Previous(u, i) /\ u \in 1 .. n
      BY <1>5, <1>6, <1>16, <2>1, EarlierRows
    <3> QED BY <1>5, <1>12, <1>16, <2>1, <3>1 DEF ReadsFindLast
  <2>2. CASE i = n + 1
    <3>1. u \in 1 .. n /\ IsAccess(u) /\ rows[u].addr = a /\ op \in Reads
      BY <1>4, <1>5, <1>6, <1>16, <2>2 DEF Earlier, IsAccess
    <3>2. LastAccess(u)
      <4>1. ASSUME NEW k \in u + 1 .. n, IsAccess(k), rows[k].addr = rows[u].addr PROVE FALSE
        <5>1. k \in 1 .. n /\ k > u
          BY <1>6, <3>1
        <5>2. k \in 1 .. i - 1 /\ IsAccess(k)' /\ rows'[k].addr = rows'[i].addr
          BY <1>4, <1>5, <1>6, <2>2, <3>1, <4>1, <5>1
        <5>3. k \in Earlier(i)'
          BY <5>2 DEF Earlier
        <5>4. k <= u
          BY <1>16, <5>3 DEF Previous
        <5> QED BY <1>6, <3>1, <5>1, <5>4
      <4> QED BY <3>1, <4>1 DEF LastAccess
    <3>3. Content(cells, a, truth[u].size) = truth[u].val
      BY <1>12, <1>16, <3>1, <3>2 DEF MemoryHoldsLast
    <3>4. truth[u].size = h.size /\ cells' = cells
      BY <1>4, <1>14, <1>16, <3>1
    <3> QED BY <1>4, <1>5, <2>2, <3>1, <3>3, <3>4
  <2> QED BY <1>10, <2>1, <2>2
<1>17. ASSUME ~MixedSizes' PROVE MemoryHoldsLast' /\ ReadsFindLast'
  BY <1>15, <1>16, <1>17 DEF MemoryHoldsLast, ReadsFindLast
<1> QED BY <1>7, <1>11, <1>17 DEF MemInv

LEMMA OtherRowInv ==
  ASSUME MemInv, OtherRow
  PROVE  MemInv'
<1> DEFINE n == Len(rows)
           row == [addr |-> 0, val |-> 0, op |-> "other"]
           h == [size |-> 0, old |-> 0, rs2 |-> 0, x0 |-> TRUE, stores |-> FALSE, val |-> 0]
<1>1. /\ rows' = Append(rows, row) /\ truth' = Append(truth, h) /\ n < MaxAccesses
      /\ tracer' = tracer /\ cells' = cells /\ reserved' = reserved
  BY DEF OtherRow
<1>2. row \in MemRow /\ h \in MemTruth
  BY DEF MemRow, MemTruth, Doubles
<1>3. row.op = "other" /\ row.val = 0 /\ h.size = 0 /\ h.val = 0
  OBVIOUS
<1> HIDE DEF row, h
<1>4. MemTypeOK /\ \A i \in 1 .. n : RowIsRight(i)
  BY DEF MemInv
<1>5. /\ Len(rows') = n + 1 /\ RowsType'
      /\ truth' \in Seq(MemTruth) /\ Len(truth') = Len(rows')
      /\ rows'[n + 1] = row /\ truth'[n + 1] = h
      /\ \A i \in 1 .. n :
           /\ rows'[i] = rows[i] /\ truth'[i] = truth[i]
           /\ IsAccess(i)' = IsAccess(i)
           /\ RowIsRight(i)' = RowIsRight(i)
           /\ Earlier(i)' = Earlier(i)
           /\ \A u \in Earlier(i) : Previous(u, i)' = Previous(u, i)
      /\ MixedSizes => MixedSizes'
  BY <1>1, <1>2, <1>4, RowsGrow
<1>6. n \in Nat /\ RowsType
  BY <1>4 DEF MemTypeOK, RowsType
<1>7. MemTypeOK'
  BY <1>1, <1>4, <1>5 DEF MemTypeOK
<1>8. ASSUME NEW i \in 1 .. Len(rows') PROVE i \in 1 .. n \/ i = n + 1
  BY <1>5, <1>6
<1>9. ASSUME NEW i, i = n + 1 PROVE RowIsRight(i)'
  <2>1. rows'[i] = row /\ truth'[i] = h
    BY <1>5, <1>9
  <2>2. ~Cause(i)'
    BY <1>3, <2>1 DEF Cause, Reads
  <2> QED BY <1>3, <2>1, <2>2 DEF RowIsRight, IsAccess
<1>10. \A i \in 1 .. Len(rows') : RowIsRight(i)'
  BY <1>4, <1>5, <1>8, <1>9
<1>11. ASSUME ~MixedSizes', NEW j \in 1 .. Len(rows'), LastAccess(j)'
       PROVE  Content(cells, rows[j].addr, truth[j].size)' = truth'[j].val
  <2>1. j \in 1 .. n
    BY <1>3, <1>5, <1>8, <1>11 DEF LastAccess, IsAccess
  <2>2. \A k \in j + 1 .. n : k \in j + 1 .. Len(rows') /\ k \in 1 .. n
    BY <1>5, <1>6, <2>1
  <2>3. LastAccess(j)
    BY <1>5, <1>11, <2>1, <2>2 DEF LastAccess
  <2>4. Content(cells, rows[j].addr, truth[j].size) = truth[j].val
    BY <1>5, <1>11, <2>1, <2>3 DEF MemInv, MemoryHoldsLast
  <2> QED BY <1>1, <1>5, <2>1, <2>4
<1>12. ASSUME ~MixedSizes', NEW i \in 1 .. Len(rows'), NEW u \in Earlier(i)',
              rows'[i].op \in Reads, Previous(u, i)'
       PROVE  truth'[i].val = truth'[u].val
  <2>1. i \in 1 .. n
    BY <1>3, <1>5, <1>8, <1>12 DEF Reads
  <2>2. u \in Earlier(i) /\ Previous(u, i) /\ u \in 1 .. n
    BY <1>5, <1>6, <1>12, <2>1, EarlierRows
  <2> QED BY <1>5, <1>12, <2>1, <2>2 DEF MemInv, ReadsFindLast
<1>13. ASSUME ~MixedSizes' PROVE MemoryHoldsLast' /\ ReadsFindLast'
  BY <1>11, <1>12, <1>13 DEF MemoryHoldsLast, ReadsFindLast
<1> QED BY <1>7, <1>10, <1>13 DEF MemInv

(* The inductive invariant of the two tracers: the rows and the history    *)
(* have their types, each row differs from memory for one of the causes    *)
(* only, and in a trace of one access size memory holds what the last      *)
(* access to each address left.                                            *)
THEOREM MemInvIsInvariant == MemSpec => []MemInv
<1>1. MemInit => MemInv
  BY MemInitInv
<1>2. MemInv /\ [MemNext]_memVars => MemInv'
  <2> SUFFICES ASSUME MemInv, [MemNext]_memVars PROVE MemInv'
    OBVIOUS
  <2>1. CASE UNCHANGED memVars
    BY <2>1 DEF memVars, MemInv, MemTypeOK, RowsType, RowIsRight, IsAccess, Cause, MixedSizes,
                MemoryHoldsLast, LastAccess, ReadsFindLast, Earlier, Previous
  <2>2. CASE MemAccess
    BY <2>2, AccessInv
  <2>3. CASE OtherRow
    BY <2>3, OtherRowInv
  <2> QED BY <2>1, <2>2, <2>3 DEF MemNext, MemDone
<1> QED BY <1>1, <1>2, PTL DEF MemSpec

(* For every trace, of whatever length and padded to whatever size: the    *)
(* constraints, which compare neighbours in the sorted columns, hold       *)
(* exactly if every load returns the value of the latest store to its      *)
(* address, or, with no store before it, that of the loads before it.      *)
THEOREM PermutationDecides == MemSpec => []ConstraintsDecideConsistency
<1>1. MemInv => ConstraintsDecideConsistency
  BY ConstraintsDecide DEF MemInv, MemTypeOK
<1> QED BY <1>1, MemInvIsInvariant, PTL

(* For every trace: a row differs from memory for one of the causes only,  *)
(* and the rows of a trace of one access size without a cause satisfy the  *)
(* constraints.                                                            *)
THEOREM HonestRowsAccepted == MemSpec => []TrueRowsAccepted
<1>1. ASSUME MemInv PROVE TrueRowsAccepted
  <2>1. RowsType /\ \A i \in 1 .. Len(rows) : RowIsRight(i)
    BY <1>1 DEF MemInv, MemTypeOK
  <2>2. ASSUME \A i \in 1 .. Len(rows) : ~Cause(i), ~MixedSizes PROVE ConstraintsHold
    <3>1. \A i \in 1 .. Len(rows) : rows[i].val = truth[i].val
      BY <2>1, <2>2 DEF RowIsRight
    <3>2. ASSUME NEW i \in 1 .. Len(rows), NEW u \in Earlier(i),
                 rows[i].op \in Reads, Previous(u, i)
          PROVE  rows[i].val = rows[u].val
      <4>1. u \in 1 .. Len(rows)
        BY <2>1, EarlierRows
      <4>2. truth[i].val = truth[u].val
        BY <1>1, <2>2, <3>2 DEF MemInv, ReadsFindLast
      <4> QED BY <3>1, <4>1, <4>2
    <3> QED BY <2>1, <3>2, ConstraintsOnRows
  <2> QED BY <2>1, <2>2 DEF TrueRowsAccepted, RowIsRight
<1> QED BY <1>1, MemInvIsInvariant, PTL

----------------------------------------------------------------------------
(* The transcript and its replays *)

(* What is appended or drawn *)
Owners == Parts \union {"oracle", "shifted", "chunk", "main", "recursive"}
Kinds == {"index", "initial_state", "final_state", "num_steps", "domain_size",
          "column_commitment", "alpha", "num_oracle_entries", "oracle_entry", "gamma", "delta",
          "quotient_commitment", "z", "evaluation", "shifted_evaluation", "beta",
          "beta_shifted", "xi", "mu"}
Entry == {"append", "draw"} \X Owners \X Kinds \X Nat
Tape == Seq(Entry)

AnyPart == Parts \union {"oracle", "shifted"}

LEMMA ProofFields ==
  ASSUME NEW pf \in Proofs
  PROVE  /\ pf.q \in 0 .. MaxRaw /\ pf.oracle \in 0 .. MaxOracle
         /\ pf.shifted \in BOOLEAN /\ pf.logup \in BOOLEAN /\ pf.bitwise \in BOOLEAN
         /\ pf.perm \in BOOLEAN /\ pf.reg_perm \in BOOLEAN /\ pf.frame_perm \in BOOLEAN
         /\ pf.q \in Nat /\ pf.oracle \in Nat
BY TranscriptAssumption DEF Proofs

(* The byte format keeps a proof as it is. *)
LEMMA BytesKeepProof ==
  ASSUME NEW pf \in Proofs
  PROVE  from_bytes(to_bytes(pf)) = pf
<1> DEFINE b == to_bytes(pf)
<1>1. /\ b[1] = pf["q"] /\ b[2] = pf["shifted"] /\ b[3] = pf["logup"] /\ b[4] = pf["bitwise"]
      /\ b[5] = pf["perm"] /\ b[6] = pf["oracle"] /\ b[7] = pf["reg_perm"]
      /\ b[8] = pf["frame_perm"]
  BY DEF to_bytes, WriteOrder
<1> HIDE DEF b
<1>2. Len(ReadOrder) = 8
  BY DEF ReadOrder
<1>3. DOMAIN Bare0 = {"q", "oracle", "shifted", "logup", "bitwise", "perm", "reg_perm",
                      "frame_perm"}
  BY DEF Bare0
<1>4. DOMAIN pf = DOMAIN Bare0
  BY <1>3 DEF Proofs
<1>5. ASSUME NEW f \in DOMAIN Bare0
      PROVE  b[CHOOSE i \in 1 .. Len(ReadOrder) : ReadOrder[i] = f] = pf[f]
  <2> DEFINE P(i) == i \in 1 .. 8 /\ ReadOrder[i] = f
  <2>1. \E i \in 1 .. 8 : ReadOrder[i] = f
    BY <1>3 DEF ReadOrder
  <2>2. PICK i \in 1 .. 8 : i = CHOOSE j \in 1 .. Len(ReadOrder) : ReadOrder[j] = f
    BY <1>2, <2>1
  <2>3. ReadOrder[i] = f
    BY <1>2, <2>1, <2>2
  <2>4. b[i] = pf[f]
    BY <1>1, <2>3 DEF ReadOrder
  <2> QED BY <2>2, <2>4
<1>6. from_bytes(b) = [f \in DOMAIN Bare0 |-> pf[f]]
  BY <1>5 DEF from_bytes
<1>7. pf = [f \in DOMAIN pf |-> pf[f]]
  BY DEF Proofs
<1> QED BY <1>4, <1>6, <1>7 DEF b

LEMMA ShortTapes ==
  ASSUME NEW w \in Entry, NEW x \in Entry, NEW y \in Entry, NEW z \in Entry
  PROVE  /\ <<w>> \in Tape /\ <<w, x>> \in Tape /\ <<w, x, y>> \in Tape
         /\ <<w, x, y, z>> \in Tape /\ <<>> \in Tape
<1> HIDE DEF Entry
<1> QED BY DEF Tape

LEMMA PiecesAreTapes ==
  ASSUME NEW pf \in Proofs
  PROVE  /\ \A p \in Parts \union {"oracle"}, n \in Nat : Commit(p, n) \in Tape
         /\ \A p \in Parts \union {"shifted"} : Eval(p) \in Tape /\ Open(p) \in Tape
         /\ \A n \in Nat : Quotient(n) \in Tape
         /\ \A is \in BOOLEAN : ChunkPrefix(is) \in Tape
         /\ MainColumns \in Tape
<1>1. \A p \in Owners, w \in Kinds, n \in Nat :
        append(p, w, n) \in Entry /\ draw(p, w) \in Entry
  BY DEF append, draw, Entry
<1> USE DEF Tape, Kinds
<1>2. ASSUME NEW p \in Parts \union {"oracle"}, NEW n \in Nat PROVE Commit(p, n) \in Tape
  <2>1. p \in Owners
    BY DEF Owners
  <2>2. CASE p = "oracle"
    <3> DEFINE s == [i \in 1 .. n |-> append(p, "oracle_entry", i)]
               t == <<append(p, "num_oracle_entries", n)>>
    <3>1. s \in Seq(Entry)
      BY <1>1, <2>1
    <3>2. t \in Seq(Entry)
      BY <1>1, <2>1
    <3>3. Commit(p, n) = t \o s
      BY <2>2 DEF Commit
    <3> HIDE DEF s, t
    <3> QED BY <3>1, <3>2, <3>3
  <2>3. CASE p # "oracle"
    <3>1. /\ draw(p, "gamma") \in Entry /\ draw(p, "delta") \in Entry
          /\ append(p, "column_commitment", 0) \in Entry
      BY <1>1, <2>1
    <3>2. \/ Commit(p, n) = <<draw(p, "gamma"), append(p, "column_commitment", 0)>>
          \/ Commit(p, n) = <<draw(p, "gamma"), draw(p, "delta"),
                              append(p, "column_commitment", 0)>>
      BY <2>3 DEF Commit
    <3> HIDE DEF Tape
    <3> QED BY <3>1, <3>2, ShortTapes
  <2> QED BY <2>2, <2>3
<1>3. ASSUME NEW p \in Parts \union {"shifted"} PROVE Eval(p) \in Tape /\ Open(p) \in Tape
  <2>1. p \in Owners
    BY DEF Owners
  <2>2. /\ append(p, "evaluation", 0) \in Entry /\ append(p, "shifted_evaluation", 0) \in Entry
        /\ draw(p, "beta") \in Entry /\ draw(p, "beta_shifted") \in Entry
    BY <1>1, <2>1
  <2>3. Eval(p) \in Tape
    BY <2>2 DEF Eval
  <2>4. Open(p) \in Tape
    BY <2>2 DEF Open
  <2> QED BY <2>3, <2>4
<1>4. ASSUME NEW n \in Nat PROVE Quotient(n) \in Tape
  <2> DEFINE s == [i \in 1 .. n |-> append("main", "quotient_commitment", i)]
             t == <<draw("main", "z")>>
  <2>0. \A i \in 1 .. n : append("main", "quotient_commitment", i) \in Entry
    <3>1. "main" \in Owners /\ "quotient_commitment" \in Kinds
      BY DEF Owners
    <3> HIDE DEF Kinds
    <3> QED BY <1>1, <3>1
  <2>1. s \in Seq(Entry)
    BY <2>0
  <2>2. t \in Seq(Entry)
    BY <1>1 DEF Owners
  <2>3. Quotient(n) = s \o t
    BY DEF Quotient
  <2> HIDE DEF s, t
  <2> QED BY <2>1, <2>2, <2>3
<1>5. \A is \in BOOLEAN : ChunkPrefix(is) \in Tape
  <2>1. /\ append("chunk", "index", 0) \in Entry /\ append("chunk", "initial_state", 0) \in Entry
        /\ append("chunk", "final_state", 0) \in Entry
    BY <1>1 DEF Owners
  <2> HIDE DEF Tape
  <2> QED BY <2>1, ShortTapes DEF ChunkPrefix
<1>6. MainColumns \in Tape
  <2>1. /\ append("main", "num_steps", 0) \in Entry /\ append("main", "domain_size", 0) \in Entry
        /\ append("main", "column_commitment", 0) \in Entry /\ draw("main", "alpha") \in Entry
    BY <1>1 DEF Owners
  <2> HIDE DEF Tape
  <2> QED BY <2>1, ShortTapes DEF MainColumns
<1> QED BY <1>2, <1>3, <1>4, <1>5, <1>6

(* One part of an order: what is done for it if the proof has it *)
CommitAt(pf, p) == IF Has(pf, p) THEN Commit(p, pf.oracle) ELSE <<>>
EvalAt(pf, p) == IF Has(pf, p) THEN Eval(p) ELSE <<>>
OpenAt(pf, p) == IF Has(pf, p) THEN Open(p) ELSE <<>>

(* The six copies of the order of commitments and openings, written out *)
LEMMA OrdersWrittenOut ==
  ASSUME NEW pf \in Proofs
  PROVE  /\ Commits(CommitOrder, pf) =
              CommitAt(pf, "logup") \o CommitAt(pf, "bitwise") \o CommitAt(pf, "perm")
                \o CommitAt(pf, "oracle") \o CommitAt(pf, "reg_perm") \o CommitAt(pf, "frame_perm")
         /\ Commits(<<"logup", "perm", "oracle", "reg_perm", "frame_perm">>, pf) =
              CommitAt(pf, "logup") \o CommitAt(pf, "perm") \o CommitAt(pf, "oracle")
                \o CommitAt(pf, "reg_perm") \o CommitAt(pf, "frame_perm") \o <<>>
         /\ Openings(OpenOrder, pf) =
              OpenAt(pf, "shifted") \o OpenAt(pf, "logup") \o OpenAt(pf, "bitwise")
                \o OpenAt(pf, "perm") \o OpenAt(pf, "reg_perm") \o OpenAt(pf, "frame_perm")
         /\ Openings(<<"shifted">>, pf) =
              OpenAt(pf, "shifted") \o <<>> \o <<>> \o <<>> \o <<>> \o <<>>
         /\ Evaluations(OpenOrder, pf) =
              <<append("main", "evaluation", pf.q)>>
                \o (EvalAt(pf, "shifted") \o EvalAt(pf, "logup") \o EvalAt(pf, "bitwise")
                      \o EvalAt(pf, "perm") \o EvalAt(pf, "reg_perm") \o EvalAt(pf, "frame_perm"))
                \o <<draw("main", "beta")>>
<1> DEFINE C(order, i) == IF i <= Len(order) /\ Has(pf, order[i]) THEN Commit(order[i], pf.oracle)
                          ELSE <<>>
           O(order, i) == IF i <= Len(order) /\ Has(pf, order[i]) THEN Open(order[i]) ELSE <<>>
           V(order, i) == IF i <= Len(order) /\ Has(pf, order[i]) THEN Eval(order[i]) ELSE <<>>
<1>1. \A order : Commits(order, pf) =
        C(order, 1) \o C(order, 2) \o C(order, 3) \o C(order, 4) \o C(order, 5) \o C(order, 6)
  BY DEF Commits, ForParts
<1>2. \A order : Openings(order, pf) =
        O(order, 1) \o O(order, 2) \o O(order, 3) \o O(order, 4) \o O(order, 5) \o O(order, 6)
  BY DEF Openings, ForParts
<1>3. \A order : Evaluations(order, pf) =
        <<append("main", "evaluation", pf.q)>>
          \o (V(order, 1) \o V(order, 2) \o V(order, 3) \o V(order, 4) \o V(order, 5) \o V(order, 6))
          \o <<draw("main", "beta")>>
  BY DEF Evaluations, ForParts
<1>4. /\ C(CommitOrder, 1) = CommitAt(pf, "logup")
      /\ C(CommitOrder, 2) = CommitAt(pf, "bitwise")
      /\ C(CommitOrder, 3) = CommitAt(pf, "perm")
      /\ C(CommitOrder, 4) = CommitAt(pf, "oracle")
      /\ C(CommitOrder, 5) = CommitAt(pf, "reg_perm")
      /\ C(CommitOrder, 6) = CommitAt(pf, "frame_perm")
  BY DEF CommitOrder, CommitAt
<1>5. /\ C(<<"logup", "perm", "oracle", "reg_perm", "frame_perm">>, 1) = CommitAt(pf, "logup")
      /\ C(<<"logup", "perm", "oracle", "reg_perm", "frame_perm">>, 2) = CommitAt(pf, "perm")
      /\ C(<<"logup", "perm", "oracle", "reg_perm", "frame_perm">>, 3) = CommitAt(pf, "oracle")
      /\ C(<<"logup", "perm", "oracle", "reg_perm", "frame_perm">>, 4) = CommitAt(pf, "reg_perm")
      /\ C(<<"logup", "perm", "oracle", "reg_perm", "frame_perm">>, 5) = CommitAt(pf, "frame_perm")
      /\ C(<<"logup", "perm", "oracle", "reg_perm", "frame_perm">>, 6) = <<>>
  BY DEF CommitAt
<1>6. /\ O(OpenOrder, 1) = OpenAt(pf, "shifted")
      /\ O(OpenOrder, 2) = OpenAt(pf, "logup")
      /\ O(OpenOrder, 3) = OpenAt(pf, "bitwise")
      /\ O(OpenOrder, 4) = OpenAt(pf, "perm")
      /\ O(OpenOrder, 5) = OpenAt(pf, "reg_perm")
      /\ O(OpenOrder, 6) = OpenAt(pf, "frame_perm")
  BY DEF OpenOrder, OpenAt
<1>7. /\ O(<<"shifted">>, 1) = OpenAt(pf, "shifted")
      /\ O(<<"shifted">>, 2) = <<>>
      /\ O(<<"shifted">>, 3) = <<>>
      /\ O(<<"shifted">>, 4) = <<>>
      /\ O(<<"shifted">>, 5) = <<>>
      /\ O(<<"shifted">>, 6) = <<>>
  BY DEF OpenAt
<1>8. /\ V(OpenOrder, 1) = EvalAt(pf, "shifted")
      /\ V(OpenOrder, 2) = EvalAt(pf, "logup")
      /\ V(OpenOrder, 3) = EvalAt(pf, "bitwise")
      /\ V(OpenOrder, 4) = EvalAt(pf, "perm")
      /\ V(OpenOrder, 5) = EvalAt(pf, "reg_perm")
      /\ V(OpenOrder, 6) = EvalAt(pf, "frame_perm")
  BY DEF OpenOrder, EvalAt
<1> HIDE DEF C, O, V
<1> QED BY <1>1, <1>2, <1>3, <1>4, <1>5, <1>6, <1>7, <1>8

LEMMA TapesJoin ==
  ASSUME NEW s \in Tape, NEW t \in Tape
  PROVE  s \o t \in Tape /\ s \o <<>> = s /\ <<>> \o s = s
BY ConcatProperties, ConcatEmptySeq DEF Tape

LEMMA TapesAssociate ==
  ASSUME NEW s \in Tape, NEW t \in Tape, NEW u \in Tape
  PROVE  (s \o t) \o u = s \o (t \o u)
BY ConcatAssociative DEF Tape

LEMMA TapesAssociateLeft ==
  ASSUME NEW s \in Tape, NEW t \in Tape, NEW u \in Tape
  PROVE  s \o (t \o u) = (s \o t) \o u
BY TapesAssociate

LEMMA PartsAreTapes ==
  ASSUME NEW pf \in Proofs
  PROVE  /\ \A p \in Parts \union {"oracle"} : CommitAt(pf, p) \in Tape
         /\ \A p \in Parts \union {"shifted"} : OpenAt(pf, p) \in Tape /\ EvalAt(pf, p) \in Tape
         /\ <<>> \in Tape
<1>1. pf.oracle \in Nat
  BY ProofFields
<1>2. <<>> \in Tape
  BY DEF Tape
<1> QED BY <1>1, <1>2, PiecesAreTapes DEF CommitAt, OpenAt, EvalAt

LEMMA StretchesAreTapes ==
  ASSUME NEW pf \in Proofs
  PROVE  /\ Commits(CommitOrder, pf) \in Tape
         /\ Openings(OpenOrder, pf) \in Tape
         /\ Evaluations(OpenOrder, pf) \in Tape
<1> DEFINE C(p) == CommitAt(pf, p)
           O(p) == OpenAt(pf, p)
           V(p) == EvalAt(pf, p)
<1>1. /\ C("logup") \in Tape /\ C("bitwise") \in Tape /\ C("perm") \in Tape /\ C("oracle") \in Tape
      /\ C("reg_perm") \in Tape /\ C("frame_perm") \in Tape
  BY PartsAreTapes DEF Parts
<1>2. /\ O("shifted") \in Tape /\ O("logup") \in Tape /\ O("bitwise") \in Tape
      /\ O("perm") \in Tape /\ O("reg_perm") \in Tape /\ O("frame_perm") \in Tape
  BY PartsAreTapes DEF Parts
<1>3. /\ V("shifted") \in Tape /\ V("logup") \in Tape /\ V("bitwise") \in Tape
      /\ V("perm") \in Tape /\ V("reg_perm") \in Tape /\ V("frame_perm") \in Tape
  BY PartsAreTapes DEF Parts
<1>4. <<append("main", "evaluation", pf.q)>> \in Tape /\ <<draw("main", "beta")>> \in Tape
  <2>1. pf.q \in Nat /\ "main" \in Owners /\ "evaluation" \in Kinds /\ "beta" \in Kinds
    BY ProofFields DEF Owners, Kinds
  <2>2. append("main", "evaluation", pf.q) \in Entry /\ draw("main", "beta") \in Entry
    BY <2>1 DEF append, draw, Entry
  <2> QED BY <2>2, ShortTapes
<1>5. ASSUME NEW a \in Tape, NEW b \in Tape, NEW c \in Tape, NEW d \in Tape, NEW e \in Tape,
             NEW f \in Tape
      PROVE  a \o b \o c \o d \o e \o f \in Tape
  <2>1. a \o b \in Tape
    BY TapesJoin
  <2>2. a \o b \o c \in Tape
    BY <2>1, TapesJoin
  <2>3. a \o b \o c \o d \in Tape
    BY <2>2, TapesJoin
  <2>4. a \o b \o c \o d \o e \in Tape
    BY <2>3, TapesJoin
  <2> QED BY <2>4, TapesJoin
<1>6. /\ Commits(CommitOrder, pf) =
           C("logup") \o C("bitwise") \o C("perm") \o C("oracle") \o C("reg_perm") \o C("frame_perm")
      /\ Openings(OpenOrder, pf) =
           O("shifted") \o O("logup") \o O("bitwise") \o O("perm") \o O("reg_perm") \o O("frame_perm")
  BY OrdersWrittenOut
<1> HIDE DEF C, O, V
<1>7. Commits(CommitOrder, pf) \in Tape /\ Openings(OpenOrder, pf) \in Tape
  <2>1. C("logup") \o C("bitwise") \o C("perm") \o C("oracle") \o C("reg_perm") \o C("frame_perm")
          \in Tape
    BY <1>1, <1>5
  <2>2. O("shifted") \o O("logup") \o O("bitwise") \o O("perm") \o O("reg_perm") \o O("frame_perm")
          \in Tape
    BY <1>2, <1>5
  <2> QED BY <1>6, <2>1, <2>2
<1>8. V("shifted") \o V("logup") \o V("bitwise") \o V("perm") \o V("reg_perm") \o V("frame_perm")
        \in Tape
  BY <1>3, <1>5
<1>9. <<append("main", "evaluation", pf.q)>>
        \o (V("shifted") \o V("logup") \o V("bitwise") \o V("perm") \o V("reg_perm")
              \o V("frame_perm")) \in Tape
  BY <1>4, <1>8, TapesJoin
<1>10. Evaluations(OpenOrder, pf) \in Tape
  BY <1>4, <1>9, TapesJoin, OrdersWrittenOut DEF V
<1> QED BY <1>7, <1>10

(* The prover commits to the parts one after the other: what it absorbs    *)
(* for the next one comes after all it absorbed for those before.          *)
LEMMA CommitAdds ==
  ASSUME NEW pf \in Proofs, NEW w \in Proofs, NEW k \in 1 .. 6,
         \A j \in k .. 6 : ~Has(pf, CommitOrder[j]),
         Has(w, CommitOrder[k]),
         NEW new \in Proofs, new = [pf EXCEPT ![CommitOrder[k]] = w[CommitOrder[k]]]
  PROVE  Commits(CommitOrder, new) = Commits(CommitOrder, pf) \o Commit(CommitOrder[k], w.oracle)
<1> DEFINE A(i) == CommitAt(pf, CommitOrder[i])
           B(i) == CommitAt(new, CommitOrder[i])
           c == Commit(CommitOrder[k], w.oracle)
<1>1. /\ CommitOrder[1] = "logup" /\ CommitOrder[2] = "bitwise" /\ CommitOrder[3] = "perm"
      /\ CommitOrder[4] = "oracle" /\ CommitOrder[5] = "reg_perm" /\ CommitOrder[6] = "frame_perm"
  BY DEF CommitOrder
<1>2. Commits(CommitOrder, pf) = A(1) \o A(2) \o A(3) \o A(4) \o A(5) \o A(6)
  BY <1>1, OrdersWrittenOut
<1>3. Commits(CommitOrder, new) = B(1) \o B(2) \o B(3) \o B(4) \o B(5) \o B(6)
  BY <1>1, OrdersWrittenOut
<1>4. ASSUME NEW i \in k .. 6 PROVE A(i) = <<>>
  BY DEF CommitAt
<1>5. k = 1 \/ k = 2 \/ k = 3 \/ k = 4 \/ k = 5 \/ k = 6
  OBVIOUS
<1>6. B(k) = c
  <2>1. new[CommitOrder[k]] = w[CommitOrder[k]] /\ Has(new, CommitOrder[k])
    BY <1>1, <1>5 DEF Has, Proofs
  <2>2. CASE CommitOrder[k] = "oracle"
    BY <2>1, <2>2 DEF CommitAt
  <2>3. CASE CommitOrder[k] # "oracle"
    BY <2>1, <2>3 DEF CommitAt, Commit
  <2> QED BY <2>2, <2>3
<1>7. ASSUME NEW i \in 1 .. 6, i # k PROVE B(i) = A(i)
  <2>1. CommitOrder[i] # CommitOrder[k] /\ i \in {1, 2, 3, 4, 5, 6}
    BY <1>1, <1>5, <1>7
  <2>2. new[CommitOrder[i]] = pf[CommitOrder[i]]
    BY <1>1, <2>1 DEF Proofs
  <2>3. Has(new, CommitOrder[i]) = Has(pf, CommitOrder[i])
    BY <2>2 DEF Has
  <2>4. CASE CommitOrder[i] = "oracle"
    BY <2>2, <2>3, <2>4 DEF CommitAt
  <2>5. CASE CommitOrder[i] # "oracle"
    BY <2>3, <2>5 DEF CommitAt, Commit
  <2> QED BY <2>4, <2>5
<1>8. ASSUME NEW i \in 1 .. 6 PROVE A(i) \in Tape
  <2>1. CommitOrder[i] \in Parts \union {"oracle"}
    BY <1>1 DEF Parts
  <2> QED BY <2>1, PartsAreTapes
<1>9. c \in Tape
  <2>1. CommitOrder[k] \in Parts \union {"oracle"} /\ w.oracle \in Nat
    BY <1>1, ProofFields DEF Parts
  <2> QED BY <2>1, PiecesAreTapes
<1> HIDE DEF A, B, c
<1>10. /\ A(1) \in Tape /\ A(1) \o A(2) \in Tape /\ A(1) \o A(2) \o A(3) \in Tape
       /\ A(1) \o A(2) \o A(3) \o A(4) \in Tape /\ A(1) \o A(2) \o A(3) \o A(4) \o A(5) \in Tape
  <2>1. A(1) \in Tape /\ A(2) \in Tape /\ A(3) \in Tape /\ A(4) \in Tape /\ A(5) \in Tape
    BY <1>8
  <2>2. A(1) \o A(2) \in Tape
    BY <2>1, TapesJoin
  <2>3. A(1) \o A(2) \o A(3) \in Tape
    BY <2>1, <2>2, TapesJoin
  <2>4. A(1) \o A(2) \o A(3) \o A(4) \in Tape
    BY <2>1, <2>3, TapesJoin
  <2> QED BY <2>1, <2>2, <2>3, <2>4, TapesJoin
<1>11. \A s \in Tape : s \o <<>> = s /\ <<>> \o s = s
  BY TapesJoin
<1>12. \A s \in Tape : s \o c \in Tape
  BY <1>9, TapesJoin
<1>13. CASE k = 1
  <2>1. A(1) = <<>> /\ A(2) = <<>> /\ A(3) = <<>> /\ A(4) = <<>> /\ A(5) = <<>> /\ A(6) = <<>>
    BY <1>4, <1>13
  <2>2. B(1) = c /\ B(2) = <<>> /\ B(3) = <<>> /\ B(4) = <<>> /\ B(5) = <<>> /\ B(6) = <<>>
    BY <1>6, <1>7, <1>13, <2>1
  <2>3. c \o <<>> = c /\ <<>> \o c = c /\ <<>> \o <<>> = <<>>
    BY <1>9, <1>10, <1>11, <2>1
  <2> QED BY <1>2, <1>3, <2>1, <2>2, <2>3 DEF c
<1>14. CASE k = 2
  <2>1. A(2) = <<>> /\ A(3) = <<>> /\ A(4) = <<>> /\ A(5) = <<>> /\ A(6) = <<>>
    BY <1>4, <1>14
  <2>2. B(1) = A(1) /\ B(2) = c /\ B(3) = <<>> /\ B(4) = <<>> /\ B(5) = <<>> /\ B(6) = <<>>
    BY <1>6, <1>7, <1>14, <2>1
  <2>3. A(1) \o <<>> = A(1) /\ (A(1) \o c) \o <<>> = A(1) \o c
    BY <1>10, <1>11, <1>12
  <2> QED BY <1>2, <1>3, <2>1, <2>2, <2>3 DEF c
<1>15. CASE k = 3
  <2> DEFINE s == A(1) \o A(2)
  <2>1. A(3) = <<>> /\ A(4) = <<>> /\ A(5) = <<>> /\ A(6) = <<>>
    BY <1>4, <1>15
  <2>2. B(1) = A(1) /\ B(2) = A(2) /\ B(3) = c /\ B(4) = <<>> /\ B(5) = <<>> /\ B(6) = <<>>
    BY <1>6, <1>7, <1>15, <2>1
  <2>3. s \o <<>> = s /\ (s \o c) \o <<>> = s \o c
    BY <1>10, <1>11, <1>12
  <2> QED BY <1>2, <1>3, <2>1, <2>2, <2>3 DEF c
<1>16. CASE k = 4
  <2> DEFINE s == A(1) \o A(2) \o A(3)
  <2>1. A(4) = <<>> /\ A(5) = <<>> /\ A(6) = <<>>
    BY <1>4, <1>16
  <2>2. /\ B(1) = A(1) /\ B(2) = A(2) /\ B(3) = A(3) /\ B(4) = c /\ B(5) = <<>>
        /\ B(6) = <<>>
    BY <1>6, <1>7, <1>16, <2>1
  <2>3. s \o <<>> = s /\ (s \o c) \o <<>> = s \o c
    BY <1>10, <1>11, <1>12
  <2> QED BY <1>2, <1>3, <2>1, <2>2, <2>3 DEF c
<1>17. CASE k = 5
  <2> DEFINE s == A(1) \o A(2) \o A(3) \o A(4)
  <2>1. A(5) = <<>> /\ A(6) = <<>>
    BY <1>4, <1>17
  <2>2. /\ B(1) = A(1) /\ B(2) = A(2) /\ B(3) = A(3) /\ B(4) = A(4) /\ B(5) = c
        /\ B(6) = <<>>
    BY <1>6, <1>7, <1>17, <2>1
  <2>3. s \o <<>> = s /\ (s \o c) \o <<>> = s \o c
    BY <1>10, <1>11, <1>12
  <2> QED BY <1>2, <1>3, <2>1, <2>2, <2>3 DEF c
<1>18. CASE k = 6
  <2> DEFINE s == A(1) \o A(2) \o A(3) \o A(4) \o A(5)
  <2>1. A(6) = <<>>
    BY <1>4, <1>18
  <2>2. /\ B(1) = A(1) /\ B(2) = A(2) /\ B(3) = A(3) /\ B(4) = A(4) /\ B(5) = A(5)
        /\ B(6) = c
    BY <1>6, <1>7, <1>18
  <2>3. s \o <<>> = s
    BY <1>10, <1>11
  <2> QED BY <1>2, <1>3, <2>1, <2>2, <2>3 DEF c
<1> QED BY <1>5, <1>13, <1>14, <1>15, <1>16, <1>17, <1>18

(* The steps of a prover, of which prove_inner takes the last three *)
Steps == <<"logup", "bitwise", "perm", "oracle", "reg_perm", "frame_perm",
           "quotient", "evaluate", "open">>

(* What is left to do when step k is the next one *)
LeftFrom(k) ==
  todo \in Seq(Parts \union {"oracle", "quotient", "evaluate", "open"})
  /\ Len(todo) = 10 - k /\ \A i \in 1 .. 10 - k : todo[i] = Steps[k + i - 1]

(* The transcript up to the steps of the parts, the quotient, the          *)
(* evaluations and the openings, of a proof pf                             *)
Start == ChunkPrefix(chunked) \o MainColumns
UpToCommits(pf) == Start \o Commits(CommitOrder, pf)
UpToQuotient(pf) == UpToCommits(pf) \o Quotient(pf.q)
UpToEvaluations(pf) == UpToQuotient(pf) \o Evaluations(OpenOrder, pf)
UpToOpenings(pf) == UpToEvaluations(pf) \o Openings(OpenOrder, pf)

(* The prover's transcript is that of the proof it has so far. *)
Stage ==
  \/ todo = <<"columns">> /\ log = <<>> /\ proof = Bare0
  \/ \E k \in 1 .. 7 :
       /\ LeftFrom(k) /\ log = UpToCommits(proof)
       /\ \A j \in k .. 6 : ~Has(proof, CommitOrder[j])
  \/ LeftFrom(8) /\ proof.q = QuotientChunks(wants.q) /\ log = UpToQuotient(proof)
  \/ LeftFrom(9) /\ proof.q = QuotientChunks(wants.q) /\ log = UpToEvaluations(proof)
  \/ LeftFrom(10) /\ proof.q = QuotientChunks(wants.q) /\ log = UpToOpenings(proof)

TranscriptInv ==
  /\ wants \in Proofs /\ wants.q > 0 /\ proof \in Proofs
  /\ prover \in {"scheme", "legacy"} /\ chunked \in BOOLEAN
  /\ num_steps \in {0, 1} /\ Stage
  /\ reader = "none" \/ (reader \in Readers /\ LeftFrom(10) /\ rlog = Replay(reader, Decoded))

LEMMA StepsNamed ==
  /\ Steps[1] = "logup" /\ Steps[2] = "bitwise" /\ Steps[3] = "perm" /\ Steps[4] = "oracle"
  /\ Steps[5] = "reg_perm" /\ Steps[6] = "frame_perm" /\ Steps[7] = "quotient"
  /\ Steps[8] = "evaluate" /\ Steps[9] = "open"
  /\ \A j \in 1 .. 6 : CommitOrder[j] = Steps[j]
  /\ \A j \in 1 .. 6 : CommitOrder[j] \in Parts \union {"oracle"}
  /\ \A j, k \in 1 .. 6 : CommitOrder[j] = CommitOrder[k] => j = k
<1>1. /\ Steps[1] = "logup" /\ Steps[2] = "bitwise" /\ Steps[3] = "perm" /\ Steps[4] = "oracle"
      /\ Steps[5] = "reg_perm" /\ Steps[6] = "frame_perm" /\ Steps[7] = "quotient"
      /\ Steps[8] = "evaluate" /\ Steps[9] = "open"
  BY DEF Steps
<1>2. /\ CommitOrder[1] = "logup" /\ CommitOrder[2] = "bitwise" /\ CommitOrder[3] = "perm"
      /\ CommitOrder[4] = "oracle" /\ CommitOrder[5] = "reg_perm" /\ CommitOrder[6] = "frame_perm"
  BY DEF CommitOrder
<1>3. \A j \in 1 .. 6 : j = 1 \/ j = 2 \/ j = 3 \/ j = 4 \/ j = 5 \/ j = 6
  OBVIOUS
<1>4. \A j \in 1 .. 6 : CommitOrder[j] = Steps[j] /\ CommitOrder[j] \in Parts \union {"oracle"}
  BY <1>1, <1>2, <1>3 DEF Parts
<1>5. \A j, k \in 1 .. 6 : CommitOrder[j] = CommitOrder[k] => j = k
  BY <1>2, <1>3
<1> QED BY <1>1, <1>4, <1>5

LEMMA NextLeft ==
  ASSUME NEW k \in 1 .. 9, LeftFrom(k), todo' = Tail(todo)
  PROVE  LeftFrom(k + 1)' /\ todo # <<>> /\ Head(todo) = Steps[k]
<1> DEFINE S == Parts \union {"oracle", "quotient", "evaluate", "open"}
<1>1. todo \in Seq(S) /\ Len(todo) = 10 - k /\ \A i \in 1 .. 10 - k : todo[i] = Steps[k + i - 1]
  BY DEF LeftFrom
<1> HIDE DEF S
<1>2. todo # <<>> /\ Head(todo) = todo[1] /\ Len(todo) > 0
  BY <1>1
<1>3. todo[1] = Steps[k]
  <2>1. 1 \in 1 .. 10 - k /\ k + 1 - 1 = k
    OBVIOUS
  <2> QED BY <1>1, <2>1
<1>4. Tail(todo) \in Seq(S) /\ Len(Tail(todo)) = 10 - (k + 1)
  BY <1>1, <1>2
<1>5. ASSUME NEW i \in 1 .. 10 - (k + 1) PROVE Tail(todo)[i] = Steps[(k + 1) + i - 1]
  <2>1. Tail(todo)[i] = todo[i + 1]
    BY <1>1, <1>2, <1>4, HeadTailProperties
  <2>2. i + 1 \in 1 .. 10 - k /\ k + (i + 1) - 1 = (k + 1) + i - 1
    OBVIOUS
  <2> QED BY <1>1, <2>1, <2>2
<1> QED BY <1>2, <1>3, <1>4, <1>5 DEF LeftFrom, S

LEMMA HeadLeft ==
  ASSUME NEW k \in 1 .. 9, LeftFrom(k)
  PROVE  todo # <<>> /\ Head(todo) = Steps[k]
<1> DEFINE S == Parts \union {"oracle", "quotient", "evaluate", "open"}
<1>1. todo \in Seq(S) /\ Len(todo) = 10 - k /\ \A i \in 1 .. 10 - k : todo[i] = Steps[k + i - 1]
  BY DEF LeftFrom
<1> HIDE DEF S
<1>2. todo # <<>> /\ Head(todo) = todo[1] /\ Len(todo) > 0
  BY <1>1
<1>3. 1 \in 1 .. 10 - k /\ k + 1 - 1 = k
  OBVIOUS
<1> QED BY <1>1, <1>2, <1>3

(* Which step the prover is at, by the head of its list *)
LEMMA WhichStage ==
  ASSUME Stage
  PROVE  /\ todo # <<>> /\ Head(todo) = "columns" => log = <<>> /\ proof = Bare0
         /\ todo # <<>> /\ Head(todo) \in Parts \union {"oracle"} =>
              \E k \in 1 .. 6 :
                /\ LeftFrom(k) /\ log = UpToCommits(proof) /\ Head(todo) = CommitOrder[k]
                /\ \A j \in k .. 6 : ~Has(proof, CommitOrder[j])
         /\ todo # <<>> /\ Head(todo) = "quotient" =>
              LeftFrom(7) /\ log = UpToCommits(proof)
         /\ todo # <<>> /\ Head(todo) = "evaluate" =>
              /\ LeftFrom(8) /\ proof.q = QuotientChunks(wants.q) /\ log = UpToQuotient(proof)
         /\ todo # <<>> /\ Head(todo) = "open" =>
              /\ LeftFrom(9) /\ proof.q = QuotientChunks(wants.q) /\ log = UpToEvaluations(proof)
         /\ todo = <<>> =>
              /\ LeftFrom(10) /\ proof.q = QuotientChunks(wants.q) /\ log = UpToOpenings(proof)
         /\ LeftFrom(10) => todo = <<>>
<1>1. LeftFrom(10) => todo = <<>>
  BY DEF LeftFrom
<1>2. "columns" \notin Parts
  BY DEF Parts
<1>3. /\ "quotient" \notin Parts \union {"oracle"} /\ "evaluate" \notin Parts \union {"oracle"}
      /\ "open" \notin Parts \union {"oracle"} /\ "columns" \notin Parts \union {"oracle"}
  BY DEF Parts
<1>4. CASE todo = <<"columns">> /\ log = <<>> /\ proof = Bare0
  <2>1. todo # <<>> /\ Head(todo) = "columns"
    BY <1>4
  <2> QED BY <1>1, <1>3, <1>4, <2>1
<1>5. ASSUME NEW k \in 1 .. 7, LeftFrom(k), log = UpToCommits(proof),
             \A j \in k .. 6 : ~Has(proof, CommitOrder[j])
      PROVE  /\ todo # <<>>
             /\ \/ Head(todo) = "quotient" /\ LeftFrom(7)
                \/ k \in 1 .. 6 /\ Head(todo) = CommitOrder[k]
                   /\ CommitOrder[k] \in Parts \union {"oracle"}
  <2>1. todo # <<>> /\ Head(todo) = Steps[k]
    BY <1>5, HeadLeft
  <2>2. k \in 1 .. 6 \/ k = 7
    OBVIOUS
  <2> QED BY <1>5, <2>1, <2>2, StepsNamed
<1>6. CASE \E k \in 1 .. 7 :
             /\ LeftFrom(k) /\ log = UpToCommits(proof)
             /\ \A j \in k .. 6 : ~Has(proof, CommitOrder[j])
  <2>1. PICK k \in 1 .. 7 : /\ LeftFrom(k) /\ log = UpToCommits(proof)
                            /\ \A j \in k .. 6 : ~Has(proof, CommitOrder[j])
    BY <1>6
  <2>2. /\ todo # <<>>
        /\ \/ Head(todo) = "quotient" /\ LeftFrom(7)
           \/ k \in 1 .. 6 /\ Head(todo) = CommitOrder[k]
              /\ CommitOrder[k] \in Parts \union {"oracle"}
    BY <1>5, <2>1
  <2> QED BY <1>1, <1>3, <2>1, <2>2
<1>7. CASE LeftFrom(8) /\ proof.q = QuotientChunks(wants.q) /\ log = UpToQuotient(proof)
  <2>1. todo # <<>> /\ Head(todo) = "evaluate"
    BY <1>7, HeadLeft, StepsNamed
  <2> QED BY <1>1, <1>3, <1>7, <2>1
<1>8. CASE LeftFrom(9) /\ proof.q = QuotientChunks(wants.q) /\ log = UpToEvaluations(proof)
  <2>1. todo # <<>> /\ Head(todo) = "open"
    BY <1>8, HeadLeft, StepsNamed
  <2> QED BY <1>1, <1>3, <1>8, <2>1
<1>9. CASE LeftFrom(10) /\ proof.q = QuotientChunks(wants.q) /\ log = UpToOpenings(proof)
  BY <1>1, <1>9
<1> QED BY <1>4, <1>6, <1>7, <1>8, <1>9 DEF Stage

(* The commitments depend on the parts only. *)
LEMMA CommitsOfParts ==
  ASSUME NEW pf \in Proofs, NEW new \in Proofs,
         \A p \in Parts \union {"oracle"} : new[p] = pf[p]
  PROVE  Commits(CommitOrder, new) = Commits(CommitOrder, pf)
<1>1. \A p \in Parts \union {"oracle"} : CommitAt(new, p) = CommitAt(pf, p)
  <2> SUFFICES ASSUME NEW p \in Parts \union {"oracle"} PROVE CommitAt(new, p) = CommitAt(pf, p)
    OBVIOUS
  <2>1. new[p] = pf[p] /\ new["oracle"] = pf["oracle"]
    OBVIOUS
  <2> QED BY <2>1 DEF CommitAt, Has
<1>2. /\ CommitAt(new, "logup") = CommitAt(pf, "logup")
      /\ CommitAt(new, "bitwise") = CommitAt(pf, "bitwise")
      /\ CommitAt(new, "perm") = CommitAt(pf, "perm")
      /\ CommitAt(new, "oracle") = CommitAt(pf, "oracle")
      /\ CommitAt(new, "reg_perm") = CommitAt(pf, "reg_perm")
      /\ CommitAt(new, "frame_perm") = CommitAt(pf, "frame_perm")
  BY <1>1 DEF Parts
<1> QED BY <1>2, OrdersWrittenOut

LEMMA NothingCommitted ==
  /\ Bare0 \in Proofs /\ Commits(CommitOrder, Bare0) = <<>>
  /\ \A j \in 1 .. 6 : ~Has(Bare0, CommitOrder[j])
<1>1. Bare0 \in Proofs
  BY TranscriptAssumption DEF Bare0, Proofs
<1>2. \A p \in Parts \union {"oracle"} : ~Has(Bare0, p)
  BY DEF Has, Bare0, Parts
<1>3. \A p \in Parts \union {"oracle"} : CommitAt(Bare0, p) = <<>>
  BY <1>2 DEF CommitAt
<1>4. /\ CommitAt(Bare0, "logup") = <<>> /\ CommitAt(Bare0, "bitwise") = <<>>
      /\ CommitAt(Bare0, "perm") = <<>> /\ CommitAt(Bare0, "oracle") = <<>>
      /\ CommitAt(Bare0, "reg_perm") = <<>> /\ CommitAt(Bare0, "frame_perm") = <<>>
  BY <1>3 DEF Parts
<1>5. <<>> \o <<>> = <<>>
  BY TapesJoin, PartsAreTapes, <1>1
<1>6. Commits(CommitOrder, Bare0) = <<>>
  BY <1>1, <1>4, <1>5, OrdersWrittenOut
<1> QED BY <1>1, <1>2, <1>6, StepsNamed

LEMMA StartIsTape ==
  ASSUME chunked \in BOOLEAN
  PROVE  Start \in Tape
BY PiecesAreTapes, TapesJoin, NothingCommitted DEF Start

LEMMA TranscriptInitInv ==
  ASSUME TranscriptInit
  PROVE  TranscriptInv
BY NothingCommitted DEF TranscriptInit, TranscriptInv, Stage

LEMMA CommitColumnsInv ==
  ASSUME TranscriptInv, CommitColumns
  PROVE  TranscriptInv'
<1>1. /\ todo # <<>> /\ Head(todo) = "columns" /\ log' = Start /\ proof' = proof
      /\ todo' = (IF prover = "scheme" THEN CommitOrder ELSE <<>>)
                   \o <<"quotient", "evaluate", "open">>
      /\ wants' = wants /\ prover' = prover /\ chunked' = chunked /\ reader' = reader
      /\ num_steps' = num_steps
  BY DEF CommitColumns, Start
<1>2. proof = Bare0 /\ reader = "none"
  BY <1>1, WhichStage DEF TranscriptInv
<1>3. log' = UpToCommits(proof)'
  <2>1. UpToCommits(proof)' = Start \o Commits(CommitOrder, Bare0)
    BY <1>1, <1>2 DEF UpToCommits, Start
  <2> QED BY <1>1, <2>1, NothingCommitted, StartIsTape, TapesJoin DEF TranscriptInv
<1> DEFINE S == Parts \union {"oracle", "quotient", "evaluate", "open"}
<1>4. CASE prover = "scheme"
  <2> DEFINE b == <<"quotient", "evaluate", "open">>
  <2>1. todo' = CommitOrder \o b
    BY <1>1, <1>4
  <2>2. CommitOrder \in Seq(S) /\ Len(CommitOrder) = 6 /\ b \in Seq(S) /\ Len(b) = 3
    BY DEF CommitOrder, Parts
  <2>3. b[7 - 6] = Steps[7] /\ b[8 - 6] = Steps[8] /\ b[9 - 6] = Steps[9]
    BY StepsNamed
  <2> HIDE DEF b, S
  <2>4. /\ todo' \in Seq(S) /\ Len(todo') = 9
        /\ \A i \in 1 .. 9 : todo'[i] = IF i <= 6 THEN CommitOrder[i] ELSE b[i - 6]
    <3> DEFINE a == CommitOrder
    <3> HIDE DEF a
    <3>1. a \in Seq(S) /\ Len(a) = 6
      BY <2>2 DEF a
    <3>2. /\ a \o b \in Seq(S) /\ Len(a \o b) = Len(a) + Len(b)
          /\ \A i \in 1 .. Len(a) + Len(b) : (a \o b)[i] =
               IF i <= Len(a) THEN a[i] ELSE b[i - Len(a)]
      BY <2>2, <3>1, ConcatProperties
    <3>3. Len(a) + Len(b) = 9 /\ todo' = a \o b
      BY <2>1, <2>2, <3>1 DEF a
    <3>4. \A i \in 1 .. 9 : todo'[i] = IF i <= 6 THEN a[i] ELSE b[i - 6]
      BY <3>1, <3>2, <3>3
    <3> QED BY <3>2, <3>3, <3>4 DEF a
  <2>5. LeftFrom(1)'
    <3>1. ASSUME NEW i \in 1 .. 9 PROVE todo'[i] = Steps[1 + i - 1]
      <4>1. 1 + i - 1 = i /\ (i \in 1 .. 6 \/ i = 7 \/ i = 8 \/ i = 9)
        OBVIOUS
      <4>2. CASE i \in 1 .. 6
        BY <2>4, <4>1, <4>2, StepsNamed
      <4>3. CASE i = 7 \/ i = 8 \/ i = 9
        BY <2>3, <2>4, <4>1, <4>3
      <4> QED BY <4>1, <4>2, <4>3
    <3> QED BY <2>4, <3>1 DEF LeftFrom, S
  <2>6. Stage'
    BY <1>1, <1>2, <1>3, <2>5, NothingCommitted DEF Stage
  <2> QED BY <1>1, <1>2, <2>6 DEF TranscriptInv
<1>5. CASE prover # "scheme"
  <2>1. todo' = <<"quotient", "evaluate", "open">>
    BY <1>1, <1>5
  <2>2. todo' \in Seq(S) /\ Len(todo') = 10 - 7
    BY <2>1
  <2>3. \A i \in 1 .. 10 - 7 : todo'[i] = Steps[7 + i - 1]
    BY <2>1, StepsNamed
  <2>4. LeftFrom(7)'
    BY <2>2, <2>3 DEF LeftFrom
  <2>5. \A j \in 7 .. 6 : ~Has(proof', CommitOrder[j])
    OBVIOUS
  <2>6. Stage'
    BY <1>3, <2>4, <2>5 DEF Stage
  <2> QED BY <1>1, <1>2, <2>6 DEF TranscriptInv
<1> QED BY <1>4, <1>5

LEMMA CommitPartInv ==
  ASSUME TranscriptInv, CommitPart
  PROVE  TranscriptInv'
<1>1. /\ todo # <<>> /\ Head(todo) \in Parts \union {"oracle"} /\ todo' = Tail(todo)
      /\ wants' = wants /\ prover' = prover /\ chunked' = chunked /\ reader' = reader
      /\ num_steps' = num_steps
      /\ IF Has(wants, Head(todo))
           THEN /\ log' = log \o Commit(Head(todo), wants.oracle)
                /\ proof' = [proof EXCEPT ![Head(todo)] = wants[Head(todo)]]
           ELSE log' = log /\ proof' = proof
  BY DEF CommitPart
<1>2. PICK k \in 1 .. 6 :
        /\ LeftFrom(k) /\ log = UpToCommits(proof) /\ Head(todo) = CommitOrder[k]
        /\ \A j \in k .. 6 : ~Has(proof, CommitOrder[j])
  BY <1>1, WhichStage DEF TranscriptInv
<1>3. reader = "none" /\ wants \in Proofs /\ proof \in Proofs /\ chunked \in BOOLEAN
  BY <1>1, WhichStage DEF TranscriptInv
<1>4. LeftFrom(k + 1)' /\ k + 1 \in 1 .. 7
  BY <1>1, <1>2, NextLeft
<1> DEFINE p == CommitOrder[k]
<1>5. p \in Parts \union {"oracle"}
  BY StepsNamed
<1>6. CASE Has(wants, p)
  <2>1. log' = log \o Commit(p, wants.oracle) /\ proof' = [proof EXCEPT ![p] = wants[p]]
    BY <1>1, <1>2, <1>6
  <2>2. proof' \in Proofs
    BY <1>3, <1>5, <2>1 DEF Proofs, Parts
  <2>3. Commits(CommitOrder, proof') = Commits(CommitOrder, proof) \o Commit(p, wants.oracle)
    BY <1>2, <1>3, <1>6, <2>1, <2>2, CommitAdds
  <2>4. /\ Start \in Tape /\ Commits(CommitOrder, proof) \in Tape
        /\ Commit(p, wants.oracle) \in Tape
    BY <1>3, <1>5, StartIsTape, StretchesAreTapes, PiecesAreTapes, ProofFields
  <2>5. log' = Start \o Commits(CommitOrder, proof')
    <3>1. log' = (Start \o Commits(CommitOrder, proof)) \o Commit(p, wants.oracle)
      BY <1>2, <2>1 DEF UpToCommits
    <3> HIDE DEF p
    <3>2. (Start \o Commits(CommitOrder, proof)) \o Commit(p, wants.oracle)
            = Start \o (Commits(CommitOrder, proof) \o Commit(p, wants.oracle))
      BY <2>4, TapesAssociate
    <3> QED BY <2>3, <3>1, <3>2
  <2>6. log' = UpToCommits(proof)'
    BY <1>1, <2>5 DEF UpToCommits, Start
  <2>7. ASSUME NEW j \in k + 1 .. 6 PROVE ~Has(proof', CommitOrder[j])
    <3>1. j \in 1 .. 6 /\ j \in k .. 6 /\ j # k
      OBVIOUS
    <3>2. CommitOrder[j] # p /\ CommitOrder[j] \in Parts \union {"oracle"}
      BY <3>1, StepsNamed
    <3>3. proof'[CommitOrder[j]] = proof[CommitOrder[j]]
      BY <1>3, <2>1, <3>2 DEF Proofs, Parts
    <3> QED BY <1>2, <3>1, <3>3 DEF Has
  <2>8. Stage'
    BY <1>4, <2>6, <2>7 DEF Stage
  <2> QED BY <1>1, <1>3, <2>2, <2>8 DEF TranscriptInv
<1>7. CASE ~Has(wants, p)
  <2>1. log' = log /\ proof' = proof
    BY <1>1, <1>2, <1>7
  <2>2. log' = UpToCommits(proof)'
    BY <1>1, <1>2, <2>1 DEF UpToCommits, Start
  <2>3. \A j \in k + 1 .. 6 : j \in k .. 6
    OBVIOUS
  <2>4. \A j \in k + 1 .. 6 : ~Has(proof', CommitOrder[j])
    BY <1>2, <2>1, <2>3
  <2>5. Stage'
    BY <1>4, <2>2, <2>4 DEF Stage
  <2> QED BY <1>1, <1>3, <2>1, <2>5 DEF TranscriptInv
<1> QED BY <1>6, <1>7

LEMMA QuotientBounded ==
  ASSUME NEW raw \in 0 .. MaxRaw
  PROVE  QuotientChunks(raw) \in 0 .. MaxRaw
<1>1. raw \in Nat /\ QMod \in Nat \ {0} /\ MaxRaw \in Nat
  BY TranscriptAssumption
<1>2. raw % QMod \in 0 .. QMod - 1 /\ raw % QMod <= raw
  <2>1. raw % QMod \in 0 .. QMod - 1
    BY <1>1
  <2>2. CASE raw < QMod
    BY <1>1, <2>2
  <2>3. CASE QMod <= raw
    BY <1>1, <2>1, <2>3
  <2> QED BY <1>1, <2>1, <2>2, <2>3
<1> QED BY <1>1, <1>2 DEF QuotientChunks

LEMMA CommitQuotientInv ==
  ASSUME TranscriptInv, CommitQuotient
  PROVE  TranscriptInv'
<1> DEFINE q == QuotientChunks(wants.q)
<1>1. /\ todo # <<>> /\ Head(todo) = "quotient" /\ todo' = Tail(todo)
      /\ proof' = [proof EXCEPT !.q = q] /\ log' = log \o Quotient(q)
      /\ wants' = wants /\ prover' = prover /\ chunked' = chunked /\ reader' = reader
      /\ num_steps' = num_steps
  BY DEF CommitQuotient
<1>2. LeftFrom(7) /\ log = UpToCommits(proof)
  BY <1>1, WhichStage DEF TranscriptInv
<1>3. reader = "none" /\ wants \in Proofs /\ proof \in Proofs
  BY <1>1, WhichStage DEF TranscriptInv
<1>4. LeftFrom(8)'
  <2>1. LeftFrom(7 + 1)'
    BY <1>1, <1>2, NextLeft
  <2> QED BY <2>1
<1>5. q \in 0 .. MaxRaw
  BY <1>3, QuotientBounded, ProofFields
<1> HIDE DEF q
<1>6. proof' \in Proofs /\ proof'.q = q
  BY <1>1, <1>3, <1>5 DEF Proofs
<1>7. \A p \in Parts \union {"oracle"} : proof'[p] = proof[p]
  BY <1>1, <1>3 DEF Proofs, Parts
<1>8. Commits(CommitOrder, proof') = Commits(CommitOrder, proof)
  BY <1>3, <1>6, <1>7, CommitsOfParts
<1>9. log' = UpToQuotient(proof)'
  BY <1>1, <1>2, <1>6, <1>8 DEF UpToQuotient, UpToCommits, Start
<1>10. q = QuotientChunks(wants.q)'
  BY <1>1 DEF q, QuotientChunks
<1>11. Stage'
  BY <1>4, <1>6, <1>9, <1>10 DEF Stage
<1> QED BY <1>1, <1>3, <1>6, <1>11 DEF TranscriptInv

LEMMA EvaluateInv ==
  ASSUME TranscriptInv, Evaluate
  PROVE  TranscriptInv'
<1>1. /\ todo # <<>> /\ Head(todo) = "evaluate" /\ todo' = Tail(todo)
      /\ proof' = [proof EXCEPT !.shifted = wants.shifted]
      /\ log' = log \o Evaluations(OpenOrder, proof')
      /\ wants' = wants /\ prover' = prover /\ chunked' = chunked /\ reader' = reader
      /\ num_steps' = num_steps
  BY DEF Evaluate
<1>2. LeftFrom(8) /\ proof.q = QuotientChunks(wants.q) /\ log = UpToQuotient(proof)
  BY <1>1, WhichStage DEF TranscriptInv
<1>3. reader = "none" /\ wants \in Proofs /\ proof \in Proofs
  BY <1>1, WhichStage DEF TranscriptInv
<1>4. LeftFrom(9)'
  <2>1. LeftFrom(8 + 1)'
    BY <1>1, <1>2, NextLeft
  <2> QED BY <2>1
<1>5. wants.shifted \in BOOLEAN
  BY <1>3, ProofFields
<1>6. proof' \in Proofs /\ proof'.q = proof.q
  BY <1>1, <1>3, <1>5 DEF Proofs
<1>7. \A p \in Parts \union {"oracle"} : proof'[p] = proof[p]
  BY <1>1, <1>3 DEF Proofs, Parts
<1>8. Commits(CommitOrder, proof') = Commits(CommitOrder, proof)
  BY <1>3, <1>6, <1>7, CommitsOfParts
<1>9. log' = UpToEvaluations(proof)'
  BY <1>1, <1>2, <1>6, <1>8 DEF UpToEvaluations, UpToQuotient, UpToCommits, Start
<1>10. proof'.q = QuotientChunks(wants.q)'
  BY <1>1, <1>2, <1>6 DEF QuotientChunks
<1>11. Stage'
  BY <1>4, <1>9, <1>10 DEF Stage
<1> QED BY <1>1, <1>3, <1>6, <1>11 DEF TranscriptInv

LEMMA OpenAllInv ==
  ASSUME TranscriptInv, OpenAll
  PROVE  TranscriptInv'
<1>1. /\ todo # <<>> /\ Head(todo) = "open" /\ todo' = Tail(todo) /\ proof' = proof
      /\ log' = log \o Openings(OpenOrder, proof)
      /\ wants' = wants /\ prover' = prover /\ chunked' = chunked /\ reader' = reader
      /\ num_steps' = num_steps
  BY DEF OpenAll
<1>2. LeftFrom(9) /\ proof.q = QuotientChunks(wants.q) /\ log = UpToEvaluations(proof)
  BY <1>1, WhichStage DEF TranscriptInv
<1>3. reader = "none"
  BY <1>1, WhichStage DEF TranscriptInv
<1>4. LeftFrom(10)'
  <2>1. LeftFrom(9 + 1)'
    BY <1>1, <1>2, NextLeft
  <2> QED BY <2>1
<1>5. log' = UpToOpenings(proof)'
  BY <1>1, <1>2 DEF UpToOpenings, UpToEvaluations, UpToQuotient, UpToCommits, Start
<1>6. proof'.q = QuotientChunks(wants.q)'
  BY <1>1, <1>2 DEF QuotientChunks
<1>7. Stage'
  BY <1>4, <1>5, <1>6 DEF Stage
<1> QED BY <1>1, <1>3, <1>7 DEF TranscriptInv

LEMMA ReadInv ==
  ASSUME TranscriptInv, NEW r \in Readers, Read(r)
  PROVE  TranscriptInv'
<1>1. /\ todo = <<>> /\ reader' = r /\ rlog' = Replay(r, Decoded)
      /\ UNCHANGED <<wants, prover, chunked, num_steps, todo, log, proof>>
  BY DEF Read
<1>2. LeftFrom(10)
  BY <1>1, WhichStage DEF TranscriptInv
<1>3. Decoded' = Decoded /\ LeftFrom(10)'
  BY <1>1, <1>2 DEF Decoded, LeftFrom
<1>4. Stage'
  BY <1>1 DEF TranscriptInv, Stage, LeftFrom, UpToOpenings, UpToEvaluations, UpToQuotient,
              UpToCommits, Start, QuotientChunks
<1> QED BY <1>1, <1>3, <1>4 DEF TranscriptInv

(* The inductive invariant of a prover and a reader: at every step the     *)
(* prover's transcript is the one that the proof it has so far stands for, *)
(* whatever the order in which the constraint system's parts came, and a   *)
(* replay starts from what the byte format gives back of a finished proof. *)
THEOREM TranscriptInvIsInvariant == TranscriptSpec => []TranscriptInv
<1>1. TranscriptInit => TranscriptInv
  BY TranscriptInitInv
<1>2. TranscriptInv /\ [TranscriptNext]_transcriptVars => TranscriptInv'
  <2> SUFFICES ASSUME TranscriptInv, [TranscriptNext]_transcriptVars PROVE TranscriptInv'
    OBVIOUS
  <2>1. CASE UNCHANGED transcriptVars
    BY <2>1 DEF transcriptVars, TranscriptInv, Stage, LeftFrom, UpToOpenings, UpToEvaluations,
                UpToQuotient, UpToCommits, Start, QuotientChunks, Decoded
  <2>2. CASE CommitColumns
    BY <2>2, CommitColumnsInv
  <2>3. CASE CommitPart
    BY <2>3, CommitPartInv
  <2>4. CASE CommitQuotient
    BY <2>4, CommitQuotientInv
  <2>5. CASE Evaluate
    BY <2>5, EvaluateInv
  <2>6. CASE OpenAll
    BY <2>6, OpenAllInv
  <2>7. CASE \E r \in Readers : Read(r)
    BY <2>7, ReadInv
  <2> QED BY <2>1, <2>2, <2>3, <2>4, <2>5, <2>6, <2>7 DEF TranscriptNext, ReadDone
<1> QED BY <1>1, <1>2, PTL DEF TranscriptSpec

(* A challenge that the shorter of two transcripts has is bound to the     *)
(* same messages in the longer one.                                        *)
LEMMA PrefixChallenge ==
  ASSUME NEW s \in Tape, NEW r \in Tape, NEW c, NEW i \in 1 .. Len(s), s[i] = c
  PROVE  Challenge(s \o r, c) = Challenge(s, c)
<1> DEFINE t == s \o r
           atS == {j \in 1 .. Len(s) : s[j] = c}
           atT == {j \in 1 .. Len(t) : t[j] = c}
<1>1. /\ t \in Tape /\ Len(t) = Len(s) + Len(r) /\ Len(s) \in Nat /\ Len(r) \in Nat
      /\ \A j \in 1 .. Len(s) : t[j] = s[j]
  <2>1. s \in Seq(Entry) /\ r \in Seq(Entry)
    BY DEF Tape
  <2>2. /\ t \in Seq(Entry) /\ Len(t) = Len(s) + Len(r)
        /\ \A j \in 1 .. Len(s) + Len(r) : t[j] = IF j <= Len(s) THEN s[j] ELSE r[j - Len(s)]
    BY <2>1, ConcatProperties
  <2>3. Len(s) \in Nat /\ Len(r) \in Nat
    BY <2>1
  <2> QED BY <2>2, <2>3 DEF Tape
<1> HIDE DEF t
<1>2. PICK a \in atS : \A b \in atS : a <= b
  <2>1. i \in atS /\ atS \subseteq Nat
    BY <1>1
  <2> HIDE DEF atS
  <2> QED BY <2>1, LeastNat
<1>3. a \in atT /\ \A b \in atT : a <= b
  <2>1. a \in 1 .. Len(s) /\ s[a] = c
    BY <1>2
  <2>2. a \in atT
    BY <1>1, <2>1
  <2>3. ASSUME NEW b \in atT PROVE a <= b
    <3>1. CASE b <= Len(s)
      BY <1>1, <1>2, <3>1
    <3>2. CASE b > Len(s)
      BY <1>1, <2>1, <3>2
    <3> QED BY <1>1, <3>1, <3>2
  <2> QED BY <2>2, <2>3
<1>4. atS \subseteq Nat /\ atT \subseteq Nat
  BY <1>1
<1>5. a = CHOOSE x \in atS : \A b \in atS : x <= b
  <2> HIDE DEF atS
  <2>1. \A x \in atS : (\A b \in atS : x <= b) => x = a
    BY <1>2, <1>4
  <2> QED BY <1>2, <2>1
<1>6. a = CHOOSE x \in atT : \A b \in atT : x <= b
  <2> HIDE DEF atT
  <2>1. \A x \in atT : (\A b \in atT : x <= b) => x = a
    BY <1>3, <1>4
  <2> QED BY <1>3, <2>1
<1>7. Challenge(s, c) = SubSeq(s, 1, a) /\ Challenge(t, c) = SubSeq(t, 1, a)
  <2>1. atS # {} /\ atT # {}
    BY <1>2, <1>3
  <2> QED BY <1>5, <1>6, <2>1 DEF Challenge
<1>8. SubSeq(t, 1, a) = SubSeq(s, 1, a)
  <2>1. a \in 1 .. Len(s) /\ 1 \in 1 .. Len(s)
    BY <1>1, <1>2
  <2> HIDE DEF atS
  <2> QED BY <2>1, SubSeqOfConcat1 DEF t, Tape
<1> QED BY <1>7, <1>8 DEF t

(* Transcript t starts with s. *)
Extends(s, t) == \E r \in Tape : t = s \o r

LEMMA ExtendsItself ==
  ASSUME NEW s \in Tape
  PROVE  Extends(s, s)
<1>1. <<>> \in Tape /\ s \o <<>> = s
  BY TapesJoin DEF Tape
<1> QED BY <1>1 DEF Extends

LEMMA ExtendsMore ==
  ASSUME NEW s \in Tape, NEW t, NEW u \in Tape, Extends(s, t)
  PROVE  Extends(s, t \o u) /\ t \in Tape
<1>1. PICK r \in Tape : t = s \o r
  BY DEF Extends
<1>2. (s \o r) \o u = s \o (r \o u)
  BY TapesAssociate
<1>3. r \o u \in Tape /\ s \o r \in Tape
  BY TapesJoin
<1> QED BY <1>1, <1>2, <1>3 DEF Extends

LEMMA ExtendsAfter ==
  ASSUME NEW p \in Tape, NEW s \in Tape, NEW t, Extends(s, t)
  PROVE  Extends(p \o s, p \o t)
<1>1. PICK r \in Tape : t = s \o r
  BY DEF Extends
<1>2. p \o (s \o r) = (p \o s) \o r
  BY TapesAssociateLeft
<1> QED BY <1>1, <1>2 DEF Extends

(* Five stretches after a prefix *)
LEMMA FiveStretches ==
  ASSUME NEW p \in Tape, NEW a \in Tape, NEW b \in Tape, NEW c \in Tape, NEW d \in Tape,
         NEW e \in Tape
  PROVE  /\ p \o (a \o b \o c \o d \o e) = p \o a \o b \o c \o d \o e
         /\ p \o a \in Tape /\ p \o a \o b \in Tape /\ p \o a \o b \o c \in Tape
         /\ p \o a \o b \o c \o d \in Tape /\ p \o a \o b \o c \o d \o e \in Tape
<1>1. a \o b \in Tape /\ p \o a \in Tape
  BY TapesJoin
<1>2. a \o b \o c \in Tape /\ p \o a \o b \in Tape
  BY <1>1, TapesJoin
<1>3. a \o b \o c \o d \in Tape /\ p \o a \o b \o c \in Tape
  BY <1>2, TapesJoin
<1>4. p \o a \o b \o c \o d \in Tape
  BY <1>3, TapesJoin
<1>5. p \o a \o b \o c \o d \o e \in Tape
  BY <1>4, TapesJoin
<1>6. ASSUME NEW s \in Tape, NEW t \in Tape PROVE p \o (s \o t) = (p \o s) \o t
  BY ONLY TapesAssociateLeft, SMTT(30)
<1>7. p \o (a \o b \o c \o d \o e) = (p \o (a \o b \o c \o d)) \o e
  BY <1>3, <1>6
<1>8. p \o (a \o b \o c \o d) = (p \o (a \o b \o c)) \o d
  BY <1>2, <1>6
<1>10. p \o (a \o b \o c) = (p \o (a \o b)) \o c
  BY <1>1, <1>6
<1>9. p \o (a \o b) = (p \o a) \o b
  BY <1>6
<1> QED BY <1>1, <1>2, <1>3, <1>4, <1>5, <1>7, <1>8, <1>9, <1>10

(* The copies that leave parts out agree where the proof has none of them. *)
LEMMA ShorterOrders ==
  ASSUME NEW pf \in Proofs
  PROVE  /\ ~pf.bitwise =>
              Commits(<<"logup", "perm", "oracle", "reg_perm", "frame_perm">>, pf)
                = Commits(CommitOrder, pf)
         /\ Commits(<<"logup", "perm", "oracle", "reg_perm", "frame_perm">>, pf) \in Tape
         /\ Openings(<<"shifted">>, pf) \in Tape
         /\ Extends(Openings(<<"shifted">>, pf), Openings(OpenOrder, pf))
         /\ Committed(pf) = {} => Openings(OpenOrder, pf) = Openings(<<"shifted">>, pf)
         /\ Committed(pf) = {} /\ pf.oracle = 0 => Commits(CommitOrder, pf) = <<>>
<1> DEFINE C(p) == CommitAt(pf, p)
           O(p) == OpenAt(pf, p)
           o == O("shifted")
<1>1. /\ C("logup") \in Tape /\ C("bitwise") \in Tape /\ C("perm") \in Tape /\ C("oracle") \in Tape
      /\ C("reg_perm") \in Tape /\ C("frame_perm") \in Tape
  BY PartsAreTapes DEF Parts
<1>2. /\ o \in Tape /\ O("logup") \in Tape /\ O("bitwise") \in Tape
      /\ O("perm") \in Tape /\ O("reg_perm") \in Tape /\ O("frame_perm") \in Tape
  BY PartsAreTapes DEF Parts
<1>3. /\ Commits(CommitOrder, pf) =
           C("logup") \o C("bitwise") \o C("perm") \o C("oracle") \o C("reg_perm") \o C("frame_perm")
      /\ Commits(<<"logup", "perm", "oracle", "reg_perm", "frame_perm">>, pf) =
           C("logup") \o C("perm") \o C("oracle") \o C("reg_perm") \o C("frame_perm") \o <<>>
      /\ Openings(OpenOrder, pf) =
           o \o O("logup") \o O("bitwise") \o O("perm") \o O("reg_perm") \o O("frame_perm")
      /\ Openings(<<"shifted">>, pf) = o \o <<>> \o <<>> \o <<>> \o <<>> \o <<>>
  BY OrdersWrittenOut
<1>4. ~pf.bitwise => C("bitwise") = <<>>
  BY DEF CommitAt, Has
<1>5. Committed(pf) = {} => /\ O("logup") = <<>> /\ O("bitwise") = <<>> /\ O("perm") = <<>>
                            /\ O("reg_perm") = <<>> /\ O("frame_perm") = <<>>
  BY DEF OpenAt, Committed, Parts
<1>6. Committed(pf) = {} /\ pf.oracle = 0 =>
        /\ C("logup") = <<>> /\ C("bitwise") = <<>> /\ C("perm") = <<>>
        /\ C("oracle") = <<>> /\ C("reg_perm") = <<>> /\ C("frame_perm") = <<>>
  <2>1. pf.oracle = 0 => ~Has(pf, "oracle")
    BY DEF Has
  <2> QED BY <2>1 DEF CommitAt, Committed, Parts
<1> HIDE DEF C, O, o
<1>7. <<>> \in Tape /\ \A s \in Tape : s \o <<>> = s
  BY PartsAreTapes, TapesJoin
<1>8. Openings(<<"shifted">>, pf) = o
  BY <1>2, <1>3, <1>7
<1>9. ASSUME ~pf.bitwise
      PROVE  Commits(<<"logup", "perm", "oracle", "reg_perm", "frame_perm">>, pf)
               = Commits(CommitOrder, pf)
  <2>1. C("logup") \o C("bitwise") = C("logup")
    BY <1>1, <1>4, <1>7, <1>9
  <2>2. C("logup") \o C("perm") \o C("oracle") \o C("reg_perm") \o C("frame_perm") \in Tape
    BY <1>1, FiveStretches
  <2> QED BY <1>3, <1>7, <2>1, <2>2
<1>10. Extends(Openings(<<"shifted">>, pf), Openings(OpenOrder, pf))
  <2>1. Extends(o, o)
    BY <1>2, ExtendsItself
  <2>2. Extends(o, o \o O("logup"))
    BY <1>2, <2>1, ExtendsMore
  <2>3. Extends(o, o \o O("logup") \o O("bitwise"))
    BY <1>2, <2>2, ExtendsMore
  <2>4. Extends(o, o \o O("logup") \o O("bitwise") \o O("perm"))
    BY <1>2, <2>3, ExtendsMore
  <2>5. Extends(o, o \o O("logup") \o O("bitwise") \o O("perm") \o O("reg_perm"))
    BY <1>2, <2>4, ExtendsMore
  <2>6. Extends(o, o \o O("logup") \o O("bitwise") \o O("perm") \o O("reg_perm")
                     \o O("frame_perm"))
    BY <1>2, <2>5, ExtendsMore
  <2> QED BY <1>3, <1>8, <2>6
<1>11. ASSUME Committed(pf) = {} PROVE Openings(OpenOrder, pf) = Openings(<<"shifted">>, pf)
  BY <1>3, <1>5, <1>11
<1>12. ASSUME Committed(pf) = {}, pf.oracle = 0 PROVE Commits(CommitOrder, pf) = <<>>
  BY <1>3, <1>6, <1>7, <1>12
<1>13. Commits(<<"logup", "perm", "oracle", "reg_perm", "frame_perm">>, pf) \in Tape
  <2>1. C("logup") \o C("perm") \in Tape
    BY <1>1, TapesJoin
  <2>2. C("logup") \o C("perm") \o C("oracle") \in Tape
    BY <1>1, <2>1, TapesJoin
  <2>3. C("logup") \o C("perm") \o C("oracle") \o C("reg_perm") \in Tape
    BY <1>1, <2>2, TapesJoin
  <2>4. C("logup") \o C("perm") \o C("oracle") \o C("reg_perm") \o C("frame_perm") \in Tape
    BY <1>1, <2>3, TapesJoin
  <2> QED BY <1>3, <1>7, <2>4
<1> QED BY <1>2, <1>8, <1>9, <1>10, <1>11, <1>12, <1>13

(* The state in which a reader has replayed the transcript of a proof *)
LEMMA ReadState ==
  ASSUME TranscriptInv, reader # "none"
  PROVE  /\ reader \in Readers /\ Decoded = proof /\ rlog = Replay(reader, proof)
         /\ log = UpToOpenings(proof) /\ proof.q = QuotientChunks(wants.q)
         /\ wants \in Proofs /\ wants.q > 0 /\ proof \in Proofs
         /\ prover \in {"scheme", "legacy"} /\ chunked \in BOOLEAN
<1>1. /\ reader \in Readers /\ LeftFrom(10) /\ rlog = Replay(reader, Decoded)
      /\ wants \in Proofs /\ wants.q > 0 /\ proof \in Proofs /\ Stage
      /\ prover \in {"scheme", "legacy"} /\ chunked \in BOOLEAN
  BY DEF TranscriptInv
<1>2. Decoded = proof
  BY <1>1, BytesKeepProof DEF Decoded
<1>3. todo = <<>>
  BY <1>1, WhichStage
<1>4. log = UpToOpenings(proof) /\ proof.q = QuotientChunks(wants.q)
  BY <1>1, <1>3, WhichStage
<1> QED BY <1>1, <1>2, <1>4

LEMMA StretchTypes ==
  ASSUME NEW pf \in Proofs
  PROVE  /\ MainColumns \in Tape /\ Commits(CommitOrder, pf) \in Tape /\ Quotient(pf.q) \in Tape
         /\ Evaluations(OpenOrder, pf) \in Tape /\ Openings(OpenOrder, pf) \in Tape
         /\ Openings(<<"shifted">>, pf) \in Tape
         /\ ChunkPrefix(TRUE) \in Tape /\ ChunkPrefix(FALSE) = <<>>
<1>1. pf.q \in Nat /\ ChunkPrefix(FALSE) = <<>>
  BY ProofFields DEF ChunkPrefix
<1> QED BY <1>1, PiecesAreTapes, StretchesAreTapes, ShorterOrders

(* Each of the replays against the transcript of the prover *)
LEMMA ReplayOfProof ==
  ASSUME TranscriptInv, reader # "none", StartsAlike(reader)
  PROVE  /\ log \in Tape
         /\ reader = "verify_with_scheme" => rlog = log
         /\ reader \in {"verify", "verify_chunk"} /\ ~proof.bitwise => Extends(rlog, log) /\ rlog \in Tape
         /\ reader \in {"verify", "verify_chunk"} /\ Committed(proof) = {} => rlog = log
         /\ reader = "recover_chunk" => Extends(rlog, log) /\ rlog \in Tape
         /\ reader = "recover_full" => rlog = log \o <<draw("recursive", "xi")>>
         /\ reader = "derive_mu" =>
              rlog = log \o <<draw("recursive", "xi"), draw("recursive", "mu")>>
         /\ reader = "linkage_z" /\ Committed(proof) = {} /\ proof.oracle = 0 =>
              Extends(rlog, log) /\ rlog \in Tape
<1> DEFINE M == MainColumns
           C == Commits(CommitOrder, proof)
           C5 == Commits(<<"logup", "perm", "oracle", "reg_perm", "frame_perm">>, proof)
           Q == Quotient(proof.q)
           E == Evaluations(OpenOrder, proof)
           O == Openings(OpenOrder, proof)
           O1 == Openings(<<"shifted">>, proof)
           P == ChunkPrefix(TRUE)
<1>1. /\ reader \in Readers /\ rlog = Replay(reader, proof) /\ proof \in Proofs
      /\ log = UpToOpenings(proof) /\ chunked \in BOOLEAN
  BY ReadState
<1>2. /\ M \in Tape /\ C \in Tape /\ Q \in Tape /\ E \in Tape /\ O \in Tape /\ O1 \in Tape
      /\ P \in Tape
  BY <1>1, StretchTypes
<1>3. /\ ~proof.bitwise => C5 = C
      /\ Extends(O1, O)
      /\ Committed(proof) = {} => O = O1 /\ ~proof.bitwise
      /\ Committed(proof) = {} /\ proof.oracle = 0 => C = <<>>
  <2>1. Committed(proof) = {} => ~proof.bitwise
    BY DEF Committed, Parts, Has
  <2> QED BY <1>1, <2>1, ShorterOrders
<1>4. CASE chunked
  <2>1. log = P \o M \o C \o Q \o E \o O
    BY <1>1, <1>4 DEF UpToOpenings, UpToEvaluations, UpToQuotient, UpToCommits, Start
  <2>2. reader \in {"verify_chunk", "recover_chunk", "recover_full", "derive_mu"}
    BY <1>1, <1>4 DEF StartsAlike, Readers
  <2>3. reader = "verify_chunk" => rlog = P \o (M \o C5 \o Q \o E \o O1)
    BY <1>1 DEF Replay, verify_inner, OpenOrder
  <2>4. reader = "recover_chunk" => rlog = P \o M \o C \o Q \o E
    BY <1>1 DEF Replay, recover_chunk_challenges, OpenOrder, CommitOrder
  <2>5. reader = "recover_full" => rlog = P \o M \o C \o Q \o E \o O \o <<draw("recursive", "xi")>>
    BY <1>1 DEF Replay, recover_full_chunk_challenges, OpenOrder, CommitOrder
  <2>6. reader = "derive_mu" =>
          rlog = P \o M \o C \o Q \o E \o O \o <<draw("recursive", "xi"), draw("recursive", "mu")>>
    BY <1>1 DEF Replay, derive_constraint_mu, OpenOrder, CommitOrder
  <2> HIDE DEF M, C, C5, Q, E, O, O1, P
  <2>7. P \o M \in Tape /\ P \o M \o C \in Tape /\ P \o M \o C \o Q \in Tape
    BY <1>2, FiveStretches
  <2>8. P \o M \o C \o Q \o E \in Tape
    BY <1>2, <2>7, TapesJoin
  <2>9. log \in Tape
    BY <1>2, <2>1, <2>8, TapesJoin
  <2>10. ASSUME reader = "verify_chunk", ~proof.bitwise
         PROVE  rlog = P \o M \o C \o Q \o E \o O1 /\ Extends(rlog, log) /\ rlog \in Tape
    <3>1. rlog = P \o (M \o C \o Q \o E \o O1)
      BY <1>3, <2>3, <2>10
    <3>2. rlog = P \o M \o C \o Q \o E \o O1
      <4>1. ASSUME NEW s \in Tape, NEW t \in Tape PROVE P \o (s \o t) = (P \o s) \o t
        <5>1. P \in Tape
          BY <1>2
        <5> QED BY ONLY <5>1, TapesAssociateLeft
      <4>2. M \o C \in Tape
        BY <1>2, TapesJoin
      <4>3. M \o C \o Q \in Tape
        BY <1>2, <4>2, TapesJoin
      <4>4. M \o C \o Q \o E \in Tape
        BY <1>2, <4>3, TapesJoin
      <4>5. P \o (M \o C \o Q \o E \o O1) = (P \o (M \o C \o Q \o E)) \o O1
        BY <1>2, <4>1, <4>4
      <4>6. P \o (M \o C \o Q \o E) = (P \o (M \o C \o Q)) \o E
        BY <1>2, <4>1, <4>3
      <4>7. P \o (M \o C \o Q) = (P \o (M \o C)) \o Q
        BY <1>2, <4>1, <4>2
      <4>8. P \o (M \o C) = (P \o M) \o C
        BY <1>2, <4>1
      <4> QED BY <3>1, <4>5, <4>6, <4>7, <4>8
    <3>3. Extends(P \o M \o C \o Q \o E \o O1, P \o M \o C \o Q \o E \o O)
      BY <1>2, <1>3, <2>8, ExtendsAfter
    <3>4. P \o M \o C \o Q \o E \o O1 \in Tape
      BY <1>2, <2>8, TapesJoin
    <3> QED BY <2>1, <3>2, <3>3, <3>4
  <2>11. Extends(P \o M \o C \o Q \o E, P \o M \o C \o Q \o E \o O)
    BY <1>2, <2>8, ExtendsItself, ExtendsMore
  <2>12. ASSUME reader = "verify_chunk", Committed(proof) = {} PROVE rlog = log
    BY <1>3, <2>1, <2>10, <2>12
  <2> QED BY <2>1, <2>2, <2>4, <2>5, <2>6, <2>8, <2>9, <2>10, <2>11, <2>12
<1>5. CASE ~chunked
  <2>1. ChunkPrefix(chunked) = <<>> /\ <<>> \o M = M
    BY <1>2, <1>5, TapesJoin DEF ChunkPrefix
  <2>2. log = M \o C \o Q \o E \o O
    BY <1>1, <2>1 DEF UpToOpenings, UpToEvaluations, UpToQuotient, UpToCommits, Start
  <2>3. reader \in {"verify_with_scheme", "verify", "linkage_z"}
    BY <1>1, <1>5 DEF StartsAlike, Readers
  <2>4. reader = "verify_with_scheme" => rlog = M \o C \o Q \o E \o O
    BY <1>1 DEF Replay, verify_inner_scheme, OpenOrder, CommitOrder
  <2>5. reader = "verify" => rlog = M \o C5 \o Q \o E \o O1
    BY <1>1 DEF Replay, verify_inner, OpenOrder
  <2>6. reader = "linkage_z" => rlog = M \o Q
    BY <1>1 DEF Replay, recover_linkage_z
  <2> HIDE DEF M, C, C5, Q, E, O, O1, P
  <2>7. M \o C \in Tape /\ M \o C \o Q \in Tape
    <3>1. M \o C \in Tape
      BY <1>2, TapesJoin
    <3> QED BY <1>2, <3>1, TapesJoin
  <2>8. M \o C \o Q \o E \in Tape
    BY <1>2, <2>7, TapesJoin
  <2>9. log \in Tape
    BY <1>2, <2>2, <2>8, TapesJoin
  <2>10. ASSUME reader = "verify", ~proof.bitwise
         PROVE  rlog = M \o C \o Q \o E \o O1 /\ Extends(rlog, log) /\ rlog \in Tape
    <3>1. rlog = M \o C \o Q \o E \o O1
      BY <1>3, <2>5, <2>10
    <3>2. Extends(M \o C \o Q \o E \o O1, M \o C \o Q \o E \o O)
      BY <1>2, <1>3, <2>8, ExtendsAfter
    <3>3. M \o C \o Q \o E \o O1 \in Tape
      BY <1>2, <2>8, TapesJoin
    <3> QED BY <2>2, <3>1, <3>2, <3>3
  <2>11. ASSUME reader = "verify", Committed(proof) = {} PROVE rlog = log
    BY <1>3, <2>2, <2>10, <2>11
  <2>12. ASSUME reader = "linkage_z", Committed(proof) = {}, proof.oracle = 0
         PROVE  Extends(rlog, log) /\ rlog \in Tape
    <3>1. M \o C = M
      BY <1>2, <1>3, <2>12, TapesJoin
    <3>2. M \o Q \in Tape
      BY <1>2, TapesJoin
    <3>3. Extends(M \o Q, M \o Q \o E)
      BY <1>2, <3>2, ExtendsItself, ExtendsMore
    <3>4. Extends(M \o Q, M \o Q \o E \o O)
      BY <1>2, <3>2, <3>3, ExtendsMore
    <3> QED BY <2>2, <2>6, <2>12, <3>1, <3>2, <3>4
  <2> QED BY <2>2, <2>3, <2>4, <2>9, <2>10, <2>11, <2>12
<1> QED BY <1>1, <1>4, <1>5

(* A verifier that starts differently binds alpha to something else. *)
LEMMA StartsDiffer ==
  ASSUME NEW s \in Tape, NEW t \in Tape, NEW c, NEW i \in 1 .. Len(s), s[i] = c,
         Challenge(s, c) = Challenge(t, c)
  PROVE  Len(t) > 0 /\ s[1] = t[1]
<1> DEFINE atS == {j \in 1 .. Len(s) : s[j] = c}
           atT == {j \in 1 .. Len(t) : t[j] = c}
<1>1. s \in Seq(Entry) /\ t \in Seq(Entry) /\ Len(s) \in Nat /\ Len(t) \in Nat
  BY DEF Tape
<1>2. i \in atS /\ atS \subseteq 1 .. Len(s) /\ atT \subseteq 1 .. Len(t)
  OBVIOUS
<1>3. /\ Challenge(s, c) = SubSeq(s, 1, CHOOSE x \in atS : \A b \in atS : x <= b)
      /\ Challenge(t, c) = IF atT = {} THEN <<>>
                           ELSE SubSeq(t, 1, CHOOSE x \in atT : \A b \in atT : x <= b)
  <2>1. atS # {}
    BY <1>2
  <2> QED BY <2>1 DEF Challenge
<1> HIDE DEF atS, atT
<1>4. ASSUME NEW S, S \subseteq Nat, S # {} PROVE (CHOOSE x \in S : \A b \in S : x <= b) \in S
  <2>1. \E x \in S : \A b \in S : x <= b
    BY <1>4, LeastNat
  <2> QED BY <2>1
<1>5. PICK a \in 1 .. Len(s) : Challenge(s, c) = SubSeq(s, 1, a)
  <2>1. atS \subseteq Nat /\ atS # {}
    BY <1>1, <1>2
  <2> QED BY <1>2, <1>3, <1>4, <2>1
<1>6. Len(SubSeq(s, 1, a)) = a /\ SubSeq(s, 1, a)[1] = s[1]
  BY <1>1
<1>7. atT # {}
  <2> SUFFICES ASSUME atT = {} PROVE FALSE
    OBVIOUS
  <2>1. SubSeq(s, 1, a) = <<>>
    BY <1>3, <1>5
  <2> QED BY <1>1, <1>6, <2>1
<1>8. PICK b \in 1 .. Len(t) : Challenge(t, c) = SubSeq(t, 1, b)
  <2>1. atT \subseteq Nat
    BY <1>1, <1>2
  <2> QED BY <1>2, <1>3, <1>4, <1>7, <2>1
<1>9. SubSeq(t, 1, b)[1] = t[1] /\ Len(t) > 0
  BY <1>1
<1> QED BY <1>5, <1>6, <1>8, <1>9

(* A draw that both of two related transcripts have *)
LEMMA DrawsAgree ==
  ASSUME NEW s \in Tape, NEW t, Extends(s, t), NEW c, NEW i \in 1 .. Len(s), s[i] = c
  PROVE  Challenge(t, c) = Challenge(s, c)
<1>1. PICK r \in Tape : t = s \o r
  BY DEF Extends
<1> QED BY <1>1, PrefixChallenge

(* For every constraint system: each replay of a finished proof that       *)
(* handles its parts draws the prover's challenges, bound to the same      *)
(* messages in the same order, and mu comes right after xi.                *)
THEOREM ReplaysAlwaysAgree == TranscriptSpec => []ReplaysAgree
<1>1. ASSUME TranscriptInv PROVE ReplaysAgree
  <2>1. ASSUME reader # "none", StartsAlike(reader), Committed(proof) \subseteq Handles(reader),
               reader = "linkage_z" => proof.oracle = 0,
               NEW c \in {d \in Draws(rlog) : d[2] # "recursive"}
        PROVE  Challenge(rlog, c) = Challenge(log, c)
    <3>1. PICK i \in 1 .. Len(rlog) : rlog[i] = c
      BY DEF Draws
    <3>2. reader \in Readers /\ log \in Tape
      BY <1>1, <2>1, ReadState, ReplayOfProof
    <3>3. reader \in {"verify", "verify_chunk"} => ~proof.bitwise
      BY <2>1 DEF Handles, Committed, Parts, Has
    <3>4. reader = "linkage_z" => Committed(proof) = {}
      BY <2>1 DEF Handles
    <3>5. CASE reader \in {"verify_with_scheme", "verify", "verify_chunk", "recover_chunk",
                           "linkage_z"}
      <4>1. Extends(rlog, log) /\ rlog \in Tape
        BY <1>1, <2>1, <3>2, <3>3, <3>4, <3>5, ReplayOfProof, ExtendsItself
      <4> QED BY <3>1, <4>1, DrawsAgree
    <3>6. CASE reader \in {"recover_full", "derive_mu"}
      <4>1. PICK r \in Tape : /\ rlog = log \o r
                              /\ \A j \in 1 .. Len(r) : r[j][2] = "recursive"
        <5> DEFINE xi == draw("recursive", "xi")
                   mu == draw("recursive", "mu")
        <5>1. xi \in Entry /\ mu \in Entry /\ xi[2] = "recursive" /\ mu[2] = "recursive"
          BY DEF draw, Entry, Owners, Kinds
        <5>2. rlog = log \o <<xi>> \/ rlog = log \o <<xi, mu>>
          BY <1>1, <2>1, <3>6, ReplayOfProof
        <5> HIDE DEF xi, mu
        <5>3. <<xi>> \in Tape /\ <<xi, mu>> \in Tape
          BY <5>1, ShortTapes
        <5>4. /\ \A j \in 1 .. Len(<<xi>>) : <<xi>>[j][2] = "recursive"
              /\ \A j \in 1 .. Len(<<xi, mu>>) : <<xi, mu>>[j][2] = "recursive"
          BY <5>1
        <5> QED BY <5>2, <5>3, <5>4
      <4>2. /\ log \in Seq(Entry) /\ r \in Seq(Entry) /\ Len(rlog) = Len(log) + Len(r)
            /\ \A j \in 1 .. Len(log) + Len(r) :
                 rlog[j] = IF j <= Len(log) THEN log[j] ELSE r[j - Len(log)]
        BY <3>2, <4>1, ConcatProperties DEF Tape
      <4>3. i \in 1 .. Len(log) /\ log[i] = c
        <5>1. CASE i <= Len(log)
          BY <3>1, <4>2, <5>1
        <5>2. CASE i > Len(log)
          <6>1. i - Len(log) \in 1 .. Len(r) /\ c = r[i - Len(log)]
            BY <3>1, <4>2, <5>2
          <6>2. c[2] = "recursive"
            BY <4>1, <6>1
          <6> QED BY <2>1, <6>2
        <5> QED BY <4>2, <5>1, <5>2
      <4>4. Extends(log, rlog)
        BY <4>1 DEF Extends
      <4> QED BY <3>2, <4>3, <4>4, DrawsAgree
    <3> QED BY <3>2, <3>5, <3>6 DEF Readers
  <2>2. ASSUME reader = "derive_mu"
        PROVE  rlog = Append(recover_full_chunk_challenges(Decoded), draw("recursive", "mu"))
    <3> DEFINE xi == draw("recursive", "xi")
               mu == draw("recursive", "mu")
               X == ChunkPrefix(TRUE) \o MainColumns \o Commits(CommitOrder, proof)
                      \o Quotient(proof.q) \o Evaluations(OpenOrder, proof)
                      \o Openings(OpenOrder, proof)
    <3>1. rlog = X \o <<xi, mu>> /\ Decoded = proof /\ proof \in Proofs
      BY <1>1, <2>2, ReadState DEF Replay, derive_constraint_mu, OpenOrder, CommitOrder
    <3>2. recover_full_chunk_challenges(proof) = X \o <<xi>>
      BY DEF recover_full_chunk_challenges, OpenOrder, CommitOrder
    <3>3. xi \in Entry /\ mu \in Entry
      BY DEF draw, Entry, Owners, Kinds
    <3>4. X \in Tape
      <4>1. /\ MainColumns \in Tape /\ Commits(CommitOrder, proof) \in Tape
            /\ Quotient(proof.q) \in Tape /\ Evaluations(OpenOrder, proof) \in Tape
            /\ Openings(OpenOrder, proof) \in Tape /\ ChunkPrefix(TRUE) \in Tape
        BY <3>1, StretchTypes
      <4>2. ChunkPrefix(TRUE) \o MainColumns \in Tape
        BY <4>1, TapesJoin
      <4>3. ChunkPrefix(TRUE) \o MainColumns \o Commits(CommitOrder, proof) \in Tape
        BY <4>1, <4>2, TapesJoin
      <4>4. ChunkPrefix(TRUE) \o MainColumns \o Commits(CommitOrder, proof) \o Quotient(proof.q)
              \in Tape
        BY <4>1, <4>3, TapesJoin
      <4>5. ChunkPrefix(TRUE) \o MainColumns \o Commits(CommitOrder, proof) \o Quotient(proof.q)
              \o Evaluations(OpenOrder, proof) \in Tape
        BY <4>1, <4>4, TapesJoin
      <4> QED BY <4>1, <4>5, TapesJoin
    <3> HIDE DEF X, xi, mu
    <3>5. X \in Seq(Entry)
      BY <3>4 DEF Tape
    <3>6. Append(X \o <<xi>>, mu) = X \o <<xi, mu>>
      BY <3>3, <3>5
    <3> QED BY <3>1, <3>2, <3>6 DEF mu
  <2> QED BY <2>1, <2>2 DEF ReplaysAgree
<1> QED BY <1>1, TranscriptInvIsInvariant, PTL

(* The type invariant of the prover's and the readers' state, for every    *)
(* value of the constants.                                                 *)
THEOREM TranscriptTypeCorrect == TranscriptSpec => []TranscriptTypeOK
<1>1. ASSUME TranscriptInv PROVE TranscriptTypeOK
  <2> DEFINE S == Parts \union {"columns", "oracle", "quotient", "evaluate", "open"}
  <2>1. ASSUME NEW k, LeftFrom(k), NEW i \in 1 .. Len(todo) PROVE todo[i] \in S
    <3>1. todo[i] \in Parts \union {"oracle", "quotient", "evaluate", "open"}
      BY <2>1 DEF LeftFrom
    <3> QED BY <3>1
  <2>2. ASSUME todo = <<"columns">>, NEW i \in 1 .. Len(todo) PROVE todo[i] \in S
    BY <2>2
  <2>3. \A i \in 1 .. Len(todo) : todo[i] \in S
    BY <1>1, <2>1, <2>2 DEF TranscriptInv, Stage
  <2> QED BY <1>1, <2>3 DEF TranscriptInv, TranscriptTypeOK
<1> QED BY <1>1, TranscriptInvIsInvariant, PTL

LEMMA ExtendsKeeps ==
  ASSUME NEW s \in Tape, NEW t, Extends(s, t)
  PROVE  t \in Tape /\ Len(s) <= Len(t) /\ \A i \in 1 .. Len(s) : t[i] = s[i]
<1>1. PICK r \in Tape : t = s \o r
  BY DEF Extends
<1>2. s \in Seq(Entry) /\ r \in Seq(Entry)
  BY DEF Tape
<1>3. /\ t \in Seq(Entry) /\ Len(t) = Len(s) + Len(r)
      /\ \A j \in 1 .. Len(s) + Len(r) : t[j] = IF j <= Len(s) THEN s[j] ELSE r[j - Len(s)]
  BY <1>1, <1>2, ConcatProperties
<1>4. Len(s) \in Nat /\ Len(r) \in Nat
  BY <1>2
<1> QED BY <1>3, <1>4 DEF Tape

(* How the transcripts of the prover and of the verifiers start *)
LEMMA LogStarts ==
  ASSUME TranscriptInv, reader \in {"verify_with_scheme", "verify", "verify_chunk"}
  PROVE  /\ log \in Tape /\ rlog \in Tape
         /\ \E i \in 1 .. Len(log) : log[i] = draw("main", "alpha")
         /\ log[1] = IF chunked THEN append("chunk", "index", 0) ELSE append("main", "num_steps", 0)
         /\ rlog[1] = IF reader = "verify_chunk" THEN append("chunk", "index", 0)
                      ELSE append("main", "num_steps", 0)
<1> DEFINE M == MainColumns
           C == Commits(CommitOrder, proof)
           C5 == Commits(<<"logup", "perm", "oracle", "reg_perm", "frame_perm">>, proof)
           Q == Quotient(proof.q)
           E == Evaluations(OpenOrder, proof)
           O == Openings(OpenOrder, proof)
           O1 == Openings(<<"shifted">>, proof)
           P == ChunkPrefix(TRUE)
<1>1. /\ rlog = Replay(reader, proof) /\ proof \in Proofs
      /\ log = UpToOpenings(proof) /\ chunked \in BOOLEAN
  BY ReadState
<1>2. /\ M \in Tape /\ C \in Tape /\ C5 \in Tape /\ Q \in Tape /\ E \in Tape /\ O \in Tape
      /\ O1 \in Tape /\ P \in Tape
  BY <1>1, StretchTypes, ShorterOrders
<1>3. Start \in Tape
  BY <1>1, StartIsTape
<1>4. /\ log = Start \o C \o Q \o E \o O
  BY <1>1 DEF UpToOpenings, UpToEvaluations, UpToQuotient, UpToCommits
<1>5. /\ reader = "verify_with_scheme" => rlog = M \o C \o Q \o E \o O
      /\ reader = "verify" => rlog = M \o C5 \o Q \o E \o O1
      /\ reader = "verify_chunk" => rlog = P \o (M \o C5 \o Q \o E \o O1)
  BY <1>1 DEF Replay, verify_inner_scheme, verify_inner, OpenOrder, CommitOrder
<1>6. /\ Len(M) = 4 /\ M[1] = append("main", "num_steps", 0) /\ M[4] = draw("main", "alpha")
  BY DEF MainColumns
<1>7. /\ Len(P) = 3 /\ P[1] = append("chunk", "index", 0)
  BY DEF ChunkPrefix
<1>8. /\ chunked => Start = P \o M
      /\ ~chunked => Start = <<>> \o M
  BY DEF Start, ChunkPrefix
<1> HIDE DEF M, C, C5, Q, E, O, O1, P
<1>9. ASSUME NEW s \in Tape, NEW a \in Tape, NEW b \in Tape, NEW c \in Tape, NEW d \in Tape
      PROVE  Extends(s, s \o a \o b \o c \o d)
  <2>1. Extends(s, s)
    BY ExtendsItself
  <2>2. Extends(s, s \o a)
    BY <2>1, ExtendsMore
  <2>3. Extends(s, s \o a \o b)
    BY <2>2, ExtendsMore
  <2>4. Extends(s, s \o a \o b \o c)
    BY <2>3, ExtendsMore
  <2> QED BY <2>4, ExtendsMore
<1>10. Extends(Start, log)
  BY <1>2, <1>3, <1>4, <1>9
<1>11. /\ Len(Start) >= 4 /\ \E i \in 1 .. Len(Start) : Start[i] = draw("main", "alpha")
       /\ Start[1] = IF chunked THEN append("chunk", "index", 0)
                     ELSE append("main", "num_steps", 0)
  <2>1. CASE chunked
    <3>1. P \in Seq(Entry) /\ M \in Seq(Entry)
      BY <1>2 DEF Tape
    <3>2. Len(Start) = 7 /\ \A j \in 1 .. 7 : Start[j] = IF j <= 3 THEN P[j] ELSE M[j - 3]
      <4>1. /\ Len(P \o M) = Len(P) + Len(M)
            /\ \A j \in 1 .. Len(P) + Len(M) : (P \o M)[j] =
                 IF j <= Len(P) THEN P[j] ELSE M[j - Len(P)]
        BY <3>1, ConcatProperties
      <4> QED BY <1>6, <1>7, <1>8, <2>1, <4>1
    <3>3. Start[1] = P[1] /\ Start[7] = M[4]
      BY <3>2
    <3> QED BY <1>6, <1>7, <2>1, <3>2, <3>3
  <2>2. CASE ~chunked
    <3>1. Start = M
      BY <1>2, <1>8, <2>2, TapesJoin
    <3> QED BY <1>6, <2>2, <3>1
  <2> QED BY <2>1, <2>2
<1>12. /\ log \in Tape /\ log[1] = Start[1]
       /\ \E i \in 1 .. Len(log) : log[i] = draw("main", "alpha")
  <2>1. log \in Tape /\ Len(Start) <= Len(log) /\ \A i \in 1 .. Len(Start) : log[i] = Start[i]
    BY <1>3, <1>10, ExtendsKeeps
  <2>2. Len(Start) \in Nat /\ Len(log) \in Nat
    BY <1>3, <2>1 DEF Tape
  <2> QED BY <1>11, <2>1, <2>2
<1>13. CASE reader # "verify_chunk"
  <2>1. Extends(M, rlog)
    <3>1. CASE reader = "verify_with_scheme"
      <4>1. Extends(M, M \o C \o Q \o E \o O)
        BY <1>2, <1>9
      <4> QED BY <1>5, <3>1, <4>1
    <3>2. CASE reader = "verify"
      <4>1. Extends(M, M \o C5 \o Q \o E \o O1)
        BY <1>2, <1>9
      <4> QED BY <1>5, <3>2, <4>1
    <3> QED BY <1>13, <3>1, <3>2
  <2>2. rlog \in Tape /\ \A i \in 1 .. Len(M) : rlog[i] = M[i]
    BY <1>2, <2>1, ExtendsKeeps
  <2> QED BY <1>6, <1>11, <1>12, <1>13, <2>2
<1>14. CASE reader = "verify_chunk"
  <2>1. M \o C5 \o Q \o E \o O1 \in Tape
    <3>1. Extends(M, M \o C5 \o Q \o E \o O1)
      BY <1>2, <1>9
    <3> QED BY <1>2, <3>1, ExtendsKeeps
  <2>2. Extends(P, rlog)
    BY <1>5, <1>14, <2>1 DEF Extends
  <2>3. rlog \in Tape /\ \A i \in 1 .. Len(P) : rlog[i] = P[i]
    BY <1>2, <2>2, ExtendsKeeps
  <2> QED BY <1>7, <1>11, <1>12, <1>14, <2>3
<1> QED BY <1>13, <1>14

(* For every constraint system: verify_with_scheme accepts exactly the     *)
(* honest proofs that are no chunk proofs, verify and verify_chunk those   *)
(* that start as they do and have no auxiliary part, and none of them the  *)
(* proof of an empty trace or one whose quotient lost chunks.              *)
THEOREM VerifiersDecide == TranscriptSpec => []HonestProofsAccepted
<1>1. ASSUME TranscriptInv, reader \in {"verify_with_scheme", "verify", "verify_chunk"}
      PROVE  Accepts(reader) <=>
               /\ num_steps > 0 /\ StartsAlike(reader)
               /\ reader = "verify_with_scheme" \/ Committed(proof) = {}
               /\ wants.q < QMod /\ (prover = "legacy" => wants.q <= 2)
  <2>1. /\ Decoded = proof /\ proof.q = QuotientChunks(wants.q) /\ wants \in Proofs
        /\ wants.q > 0 /\ proof \in Proofs /\ prover \in {"scheme", "legacy"}
        /\ chunked \in BOOLEAN
    BY <1>1, ReadState
  <2>2. proof.q = wants.q <=> wants.q < QMod /\ (prover = "legacy" => wants.q <= 2)
    <3>1. wants.q \in Nat /\ QMod \in Nat /\ QMod > 2
      BY <2>1, ProofFields, TranscriptAssumption
    <3>2. wants.q % QMod = wants.q <=> wants.q < QMod
      <4>1. wants.q % QMod < QMod
        BY <3>1
      <4>2. wants.q < QMod => wants.q % QMod = wants.q
        BY <3>1
      <4> QED BY <3>1, <4>1, <4>2
    <3>3. CASE prover = "scheme"
      BY <2>1, <3>2, <3>3 DEF QuotientChunks
    <3>4. CASE prover = "legacy"
      BY <2>1, <3>1, <3>4 DEF QuotientChunks
    <3> QED BY <2>1, <3>3, <3>4
  <2>3. Committed(proof) \subseteq Knows(reader)
          <=> reader = "verify_with_scheme" \/ Committed(proof) = {}
    BY DEF Knows, Committed
  <2>4. ASSUME StartsAlike(reader), reader = "verify_with_scheme" \/ Committed(proof) = {}
        PROVE  rlog = log
    BY <1>1, <2>4, ReplayOfProof
  <2>5. ASSUME \A c \in Draws(log) : Challenge(rlog, c) = Challenge(log, c)
        PROVE  StartsAlike(reader)
    <3> DEFINE alpha == draw("main", "alpha")
    <3>1. /\ log \in Tape /\ rlog \in Tape
          /\ log[1] = IF chunked THEN append("chunk", "index", 0)
                      ELSE append("main", "num_steps", 0)
          /\ rlog[1] = IF reader = "verify_chunk" THEN append("chunk", "index", 0)
                       ELSE append("main", "num_steps", 0)
      BY <1>1, LogStarts
    <3>2. PICK i \in 1 .. Len(log) : log[i] = alpha
      BY <1>1, LogStarts
    <3>3. alpha \in Draws(log)
      <4>1. alpha[1] = "draw"
        BY DEF draw
      <4> QED BY <3>2, <4>1 DEF Draws
    <3>4. Challenge(log, alpha) = Challenge(rlog, alpha)
      BY <2>5, <3>3
    <3>5. log[1] = rlog[1]
      BY <3>1, <3>2, <3>4, StartsDiffer
    <3>6. append("chunk", "index", 0) # append("main", "num_steps", 0)
      BY DEF append
    <3>7. chunked <=> reader = "verify_chunk"
      BY <3>1, <3>5, <3>6
    <3> QED BY <1>1, <2>1, <3>7 DEF StartsAlike
  <2>6. ASSUME Accepts(reader)
        PROVE  /\ num_steps > 0 /\ StartsAlike(reader)
               /\ reader = "verify_with_scheme" \/ Committed(proof) = {}
               /\ wants.q < QMod /\ (prover = "legacy" => wants.q <= 2)
    BY <2>1, <2>2, <2>3, <2>5, <2>6 DEF Accepts
  <2>7. ASSUME num_steps > 0, StartsAlike(reader),
               reader = "verify_with_scheme" \/ Committed(proof) = {},
               wants.q < QMod /\ (prover = "legacy" => wants.q <= 2)
        PROVE  Accepts(reader)
    BY <2>1, <2>2, <2>3, <2>4, <2>7 DEF Accepts
  <2> QED BY <2>6, <2>7
<1>2. TranscriptInv => HonestProofsAccepted
  BY <1>1 DEF HonestProofsAccepted
<1> QED BY <1>2, TranscriptInvIsInvariant, PTL

----------------------------------------------------------------------------
(* The composition that TLC runs *)

LEMMA IdleStates ==
  ProofInit => Init /\ TranscriptInit /\ LinkageInit /\ MemInit
<1> SUFFICES ASSUME ProofInit PROVE Init /\ TranscriptInit /\ LinkageInit /\ MemInit
  OBVIOUS
<1>1. Init
  <2>1. CASE part = "fold"
    BY <2>1 DEF ProofInit
  <2>2. CASE part # "fold"
    <3>1. chunks = <<>> /\ count = 0 /\ stack = <<>> /\ current = None
          /\ level = 0 /\ pc = "next" /\ result = None
      BY <2>2 DEF ProofInit
    <3>2. <<>> \in [1 .. 0 -> ChunkProof] /\ 0 \in 0 .. MaxChunks
      BY MaxChunksAssumption
    <3> QED BY <3>1, <3>2 DEF Init
  <2> QED BY <2>1, <2>2
<1>2. TranscriptInit
  <2>1. CASE part = "transcript"
    BY <2>1 DEF ProofInit
  <2>2. CASE part # "transcript"
    <3> DEFINE w == [Bare0 EXCEPT !.q = 1]
    <3>1. /\ wants = w /\ prover = "legacy" /\ chunked = FALSE
          /\ num_steps = 1 /\ todo = <<"columns">> /\ log = <<>> /\ proof = Bare0
          /\ reader = "none" /\ rlog = <<>>
      BY <2>2 DEF ProofInit
    <3>2. w \in Proofs /\ w.q > 0
      <4>1. 1 \in 0 .. MaxRaw /\ 0 \in 0 .. MaxRaw /\ 0 \in 0 .. MaxOracle
        BY PartsAssumption, TranscriptAssumption
      <4>2. Bare0 \in Proofs
        BY <4>1, Zenon DEF Bare0, Proofs
      <4>3. ASSUME NEW b \in Proofs
            PROVE  [b EXCEPT !.q = 1] \in Proofs /\ [b EXCEPT !.q = 1].q = 1
        BY <4>1 DEF Proofs
      <4> QED BY <4>2, <4>3
    <3> HIDE DEF w
    <3> QED BY <3>1, <3>2 DEF TranscriptInit
  <2> QED BY <2>1, <2>2
<1>3. LinkageInit
  <2>1. CASE part = "linkage"
    BY <2>1 DEF ProofInit
  <2>2. CASE part # "linkage"
    <3>1. /\ air = [s \in Sides |-> IF s = "A" THEN OneOf(AirsA) ELSE OneOf(AirsB)]
          /\ inflated = Unset /\ committed = Unset /\ witness = Unset
          /\ linkage = Unset /\ verdict = "none" /\ lpc = "inflate"
      BY <2>2 DEF ProofInit
    <3>2. OneOf(AirsA) \in AirsA /\ OneOf(AirsB) \in AirsB
      BY PartsAssumption DEF OneOf
    <3> QED BY <3>1, <3>2 DEF LinkageInit
  <2> QED BY <2>1, <2>2
<1>4. MemInit
  <2>1. CASE part = "memory"
    BY <2>1 DEF ProofInit
  <2>2. CASE part # "memory"
    <3>1. /\ tracer = OneOf(Tracers) /\ cells = <<0, 0>> /\ reserved = FALSE
          /\ rows = <<>> /\ truth = <<>>
      BY <2>2 DEF ProofInit
    <3>2. OneOf(Tracers) \in Tracers
      BY PartsAssumption DEF OneOf
    <3> QED BY <3>1, <3>2 DEF MemInit
  <2> QED BY <2>1, <2>2
<1> QED BY <1>1, <1>2, <1>3, <1>4

(* A behaviour of the composed proof system is one of each of its parts,   *)
(* so what is proved of a part holds of the runs' specification.           *)
THEOREM ProofSystemRunsParts ==
  ProofSpec => Spec /\ TranscriptSpec /\ LinkageSpec /\ MemSpec
<1>1. [ProofNext]_proofVars => [Next]_vars
  BY DEF ProofNext, proofVars
<1>2. [ProofNext]_proofVars => [TranscriptNext]_transcriptVars
  BY DEF ProofNext, proofVars
<1>3. [ProofNext]_proofVars => [LinkageNext]_linkageVars
  BY DEF ProofNext, proofVars
<1>4. [ProofNext]_proofVars => [MemNext]_memVars
  BY DEF ProofNext, proofVars
<1> QED BY <1>1, <1>2, <1>3, <1>4, IdleStates, PTL
        DEF ProofSpec, Spec, TranscriptSpec, LinkageSpec, MemSpec

(* The types of the fold and of the transcript, for all chunk sequences    *)
(* and constraint systems.                                                 *)
THEOREM ProofTypesCorrect == ProofSpec => []ProofTypeOK
<1>1. FoldInv => TypeOK
  BY DEF FoldInv
<1> QED BY <1>1, ProofSystemRunsParts, FoldInvIsInvariant, TranscriptTypeCorrect, PTL
        DEF ProofTypeOK
=============================================================================
