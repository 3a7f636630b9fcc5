------------------------ MODULE ProvePipelineProofs ------------------------
(***************************************************************************)
(* Proofs about ProvePipeline, for any number of workers and chunks, any   *)
(* number of panics and all faults.                                        *)
(***************************************************************************)
EXTENDS ProvePipeline, FiniteSetTheorems, TLAPS

(* A worker that has a chunk in hand: proving it, about to send its proof, *)
(* or unwound with it.                                                     *)
Holding(w) == wpc[w] \in {"proving", "sending", "panicked"}

(* The main thread never pushes past the last pill. *)
MainPosition ==
  /\ mainPc = "read" => sent < NumChunks
  /\ mainPc \in {"push", "waitFull"} => sent < TotalItems

(* Nothing is ahead of the folder or behind the queue, and no two places   *)
(* hold the same chunk.                                                    *)
Places ==
  /\ next <= Taken
  /\ \A w \in Workers : Holding(w) =>
       /\ work[w] \in Chunks
       /\ next <= work[w]
       /\ work[w] < Taken
       /\ work[w] \notin buf
  /\ \A c \in buf : next <= c /\ c < Taken
  /\ \A i \in 1 .. Len(chan) :
       next <= chan[i] /\ chan[i] < Taken /\ chan[i] \notin buf
  /\ \A i, j \in 1 .. Len(chan) : chan[i] = chan[j] => i = j
  /\ \A v, w \in Workers : Holding(v) /\ Holding(w) /\ work[v] = work[w] => v = w
  /\ \A w \in Workers : Holding(w) => \A i \in 1 .. Len(chan) : chan[i] # work[w]

(* While the folder listens, a chunk that left the queue is somewhere, and *)
(* a worker without a chunk in hand remembers none.                        *)
Located ==
  foldPc = "run" =>
    /\ \A w \in Workers : work[w] # Pill => Holding(w)
    /\ \A c \in Chunks : c < Taken =>
         \/ \E w \in Workers : Holding(w) /\ work[w] = c
         \/ \E i \in 1 .. Len(chan) : chan[i] = c
         \/ c \in buf
         \/ c < next

(* A worker leaves a listening folder only after the last chunk was taken. *)
Exits == foldPc = "run" =>
           \A w \in Workers : wpc[w] = "exited" => Taken >= NumChunks

Inv == /\ TypeOK
       /\ MainPosition
       /\ QueueIsFifo
       /\ Places
       /\ Located
       /\ Exits
       /\ ProofCoversAllChunks

(* The number of workers and of queue items are natural numbers. *)
LEMMA Sizes == /\ Cardinality(Workers) \in Nat \ {0}
               /\ Capacity \in Nat
               /\ TotalItems \in Nat
               /\ NumChunks \in Nat \ {0}
               /\ NumChunks < TotalItems
<1>1. Cardinality(Workers) \in Nat \ {0}
  BY WorkersAssumption, FS_CardinalityType, FS_EmptySet
<1> QED
  BY <1>1, NumChunksAssumption DEF Capacity, TotalItems

(* The pipeline starts with every conjunct of the invariant true. *)
LEMMA InitInv == Init => Inv
<1> SUFFICES ASSUME Init PROVE Inv
  OBVIOUS
<1> USE Sizes DEF Init
<1>1. TypeOK
  <2>1. stop \in BOOLEAN
    OBVIOUS
  <2>2. queue \in Seq(Chunks \union {Pill}) /\ chan \in Seq(Chunks)
    OBVIOUS
  <2>3. sent \in 0 .. TotalItems /\ next \in 0 .. NumChunks
    OBVIOUS
  <2> QED
    BY <2>1, <2>2, <2>3 DEF TypeOK, MainPcs, WorkerPcs
<1>2. MainPosition /\ QueueIsFifo
  BY DEF MainPosition, QueueIsFifo, Taken
<1>3. Places /\ Located /\ Exits
  BY DEF Places, Located, Exits, Holding, Taken, Chunks
<1>4. ProofCoversAllChunks
  BY DEF ProofCoversAllChunks
<1> QED
  BY <1>1, <1>2, <1>3, <1>4 DEF Inv

(* Steps of the main thread that move no item: reading, waiting, joining,  *)
(* writing, a spurious wake-up and Ctrl+C.                                 *)
LEMMA MainMovesNothing ==
  Inv /\ (\/ MainRead \/ MainWait \/ MainJoinWorkers \/ MainJoinFolder
         \/ MainWrite \/ SpuriousWakeMain \/ Sigint) => Inv'
<1> SUFFICES ASSUME Inv,
                    \/ MainRead \/ MainWait \/ MainJoinWorkers
                    \/ MainJoinFolder \/ MainWrite \/ SpuriousWakeMain
                    \/ Sigint
             PROVE Inv'
  OBVIOUS
<1>1. UNCHANGED <<sent, queue, wpc, work, proved, chan, foldPc, buf, next,
                  result>>
  BY DEF MainRead, MainWait, MainJoinWorkers, MainJoinFolder, MainWrite,
         SpuriousWakeMain, Sigint
<1>2. mainPc' \in MainPcs
  BY DEF MainRead, MainWait, MainJoinWorkers, MainJoinFolder, MainWrite,
         SpuriousWakeMain, Sigint, MainPcs, Inv, TypeOK
<1>3. stop' \in BOOLEAN
  BY Zenon DEF MainRead, MainWait, MainJoinWorkers, MainJoinFolder, MainWrite,
               SpuriousWakeMain, Sigint, Inv, TypeOK
<1>4. TypeOK'
  BY <1>1, <1>2, <1>3 DEF Inv, TypeOK
<1>5. MainPosition'
  BY <1>1, Sizes DEF MainRead, MainWait, MainJoinWorkers, MainJoinFolder,
     MainWrite, SpuriousWakeMain, Sigint, Inv, MainPosition, TypeOK
<1>6. QueueIsFifo' /\ Places' /\ Located' /\ Exits'
  BY <1>1 DEF Inv, QueueIsFifo, Places, Located, Exits, Taken, Holding
<1>7. ProofCoversAllChunks'
  BY <1>1 DEF Inv, ProofCoversAllChunks, Panicked
<1> QED
  BY <1>4, <1>5, <1>6, <1>7 DEF Inv

(* NotifyNotEmpty only turns a sleeping worker into one about to pop. *)
LEMMA NotifyFacts ==
  ASSUME wpc \in [Workers -> WorkerPcs], NotifyNotEmpty
  PROVE  /\ wpc' \in [Workers -> WorkerPcs]
         /\ \A w \in Workers : wpc'[w] = wpc[w] \/ (wpc[w] = "waitEmpty" /\ wpc'[w] = "pop")
  BY DEF NotifyNotEmpty, WorkerPcs

(* A push appends the next item and takes nothing out. *)
LEMMA PushInv == Inv /\ MainPush => Inv'
<1> SUFFICES ASSUME Inv, MainPush PROVE Inv'
  OBVIOUS
<1> USE Sizes
<1>1. /\ wpc' \in [Workers -> WorkerPcs]
      /\ \A w \in Workers : wpc'[w] = wpc[w] \/ (wpc[w] = "waitEmpty" /\ wpc'[w] = "pop")
  BY NotifyFacts DEF Inv, TypeOK, MainPush
<1>2. UNCHANGED <<work, proved, chan, foldPc, buf, next, result, stop>>
  BY DEF MainPush
<1>3. sent \in Nat /\ sent < TotalItems /\ sent' = sent + 1
  BY DEF MainPush, Inv, MainPosition, TypeOK
<1>4. Item(sent) \in Chunks \union {Pill}
  BY <1>3 DEF Item, Chunks
<1>5. /\ queue \in Seq(Chunks \union {Pill})
      /\ queue' = Append(queue, Item(sent))
      /\ queue' \in Seq(Chunks \union {Pill})
      /\ Len(queue') = Len(queue) + 1
      /\ Len(queue) < Capacity
  BY <1>4 DEF MainPush, Inv, TypeOK
<1>6. mainPc' \in MainPcs /\ MainPosition'
  BY <1>3 DEF MainPush, AfterPush, MainPosition, MainPcs
<1>7. TypeOK'
  BY <1>1, <1>2, <1>3, <1>5, <1>6 DEF Inv, TypeOK
<1>8. Taken' = Taken /\ Taken \in Int
  BY <1>3, <1>5 DEF Taken
<1>9. QueueIsFifo'
  <2>1. Len(queue') <= Capacity /\ Len(queue') <= sent'
    BY <1>3, <1>5 DEF Inv, QueueIsFifo
  <2>2. ASSUME NEW i \in 1 .. Len(queue') PROVE queue'[i] = Item(Taken + i - 1)
    <3>1. CASE i = Len(queue')
      <4>1. Taken + i - 1 = sent
        BY <1>3, <1>5, <3>1 DEF Taken
      <4> QED
        BY <1>5, <3>1, <4>1
    <3>2. CASE i # Len(queue')
      <4>1. i \in 1 .. Len(queue) /\ queue'[i] = queue[i]
        BY <1>5, <3>2
      <4> QED
        BY <4>1 DEF Inv, QueueIsFifo
    <3> QED
      BY <3>1, <3>2
  <2>3. \A k : Item(k)' = Item(k)
    BY DEF Item
  <2> QED
    BY <1>8, <2>1, <2>2, <2>3 DEF QueueIsFifo
<1>10. \A w \in Workers : (Holding(w))' <=> Holding(w)
  BY <1>1 DEF Holding
<1>11. Places' /\ Located'
  BY <1>2, <1>8, <1>10 DEF Inv, Places, Located
<1>12. Exits'
  BY <1>1, <1>2, <1>8 DEF Inv, Exits
<1>13. ProofCoversAllChunks'
  BY <1>1, <1>2 DEF Inv, ProofCoversAllChunks, Panicked
<1> QED
  BY <1>6, <1>7, <1>9, <1>11, <1>12, <1>13 DEF Inv

(* A pop hands the oldest item to one worker; a pill behind every chunk    *)
(* ends it.                                                                *)
LEMMA PopInv == ASSUME NEW w \in Workers, Inv, WorkerPop(w) PROVE Inv'
<1> USE Sizes
<1>1. /\ UNCHANGED <<sent, proved, chan, foldPc, buf, next, result, stop>>
      /\ wpc[w] = "pop"
      /\ work' = [work EXCEPT ![w] = Head(queue)]
      /\ wpc' = [wpc EXCEPT ![w] = IF Head(queue) = Pill THEN "exited"
                                   ELSE "proving"]
  BY DEF WorkerPop
<1>2. /\ queue \in Seq(Chunks \union {Pill}) /\ queue # <<>>
      /\ queue' = Tail(queue)
      /\ queue' \in Seq(Chunks \union {Pill})
      /\ Len(queue') = Len(queue) - 1
      /\ Len(queue) \in Nat \ {0}
      /\ Head(queue) = queue[1]
      /\ Head(queue) \in Chunks \union {Pill}
      /\ \A i \in 1 .. Len(queue') : queue'[i] = queue[i + 1]
  BY DEF WorkerPop, Inv, TypeOK
<1>3. /\ sent \in Nat /\ Len(queue) <= sent
      /\ Taken \in Nat /\ Taken' = Taken + 1
      /\ next \in Nat /\ buf \subseteq Chunks
      /\ wpc \in [Workers -> WorkerPcs]
      /\ work \in [Workers -> Chunks \union {Pill}]
  BY <1>1, <1>2 DEF Inv, QueueIsFifo, TypeOK, Taken
<1>4. Head(queue) = Item(Taken)
  <2>1. queue[1] = Item(Taken + 1 - 1)
    BY <1>2 DEF Inv, QueueIsFifo
  <2>2. Taken + 1 - 1 = Taken
    BY <1>3
  <2> QED
    BY <1>2, <2>1, <2>2
<1>5. ASSUME Taken < NumChunks PROVE Places' /\ Located' /\ Exits'
  <2>1. Head(queue) = Taken /\ Taken \in Chunks /\ Taken # Pill
    BY <1>3, <1>4, <1>5, PillAssumption DEF Item, Chunks
  <2>2. wpc' = [wpc EXCEPT ![w] = "proving"] /\ work' = [work EXCEPT ![w] = Taken]
    BY <1>1, <2>1
  <2>3. \A v \in Workers : (Holding(v))' <=> Holding(v) \/ v = w
    BY <1>1, <1>3, <2>2 DEF Holding
  <2>4. \A v \in Workers : work'[v] = IF v = w THEN Taken ELSE work[v]
    BY <1>3, <2>2
  <2>5. ~Holding(w)
    BY <1>1 DEF Holding
  <2>6. chan \in Seq(Chunks) /\ \A i \in 1 .. Len(chan) : chan[i] \in Nat
    BY DEF Inv, TypeOK, Chunks
  <2>7. Places'
    BY <1>1, <1>3, <2>1, <2>3, <2>4, <2>5, <2>6 DEF Inv, Places, Chunks
  <2>8. Located'
    <3> SUFFICES ASSUME foldPc = "run" PROVE Located'
      BY <1>1 DEF Located
    <3>1. \A v \in Workers : work'[v] # Pill => (Holding(v))'
      BY <2>3, <2>4 DEF Inv, Located
    <3>2. ASSUME NEW c \in Chunks, c < Taken'
          PROVE  \/ \E v \in Workers : (Holding(v))' /\ work'[v] = c
                 \/ \E i \in 1 .. Len(chan) : chan[i] = c
                 \/ c \in buf
                 \/ c < next
      <4>1. CASE c = Taken
        BY <4>1, <2>3, <2>4
      <4>2. CASE c # Taken
        <5>1. c < Taken
          BY <1>3, <3>2, <4>2 DEF Chunks
        <5>2. \/ \E v \in Workers : Holding(v) /\ work[v] = c
              \/ \E i \in 1 .. Len(chan) : chan[i] = c
              \/ c \in buf
              \/ c < next
          BY <5>1 DEF Inv, Located
        <5> QED
          BY <5>2, <2>3, <2>4, <2>5
      <4> QED
        BY <4>1, <4>2
    <3> QED
      BY <1>1, <3>1, <3>2 DEF Located
  <2>9. Exits'
    BY <1>1, <1>3, <2>2 DEF Inv, Exits, WorkerPcs
  <2> QED
    BY <2>7, <2>8, <2>9
<1>6. ASSUME ~(Taken < NumChunks) PROVE Places' /\ Located' /\ Exits'
  <2>1. Head(queue) = Pill
    BY <1>4, <1>6 DEF Item
  <2>2. wpc' = [wpc EXCEPT ![w] = "exited"] /\ work' = [work EXCEPT ![w] = Pill]
    BY <1>1, <2>1
  <2>3. \A v \in Workers : (Holding(v))' <=> Holding(v)
    BY <1>1, <1>3, <2>2 DEF Holding
  <2>4. \A v \in Workers : v # w => work'[v] = work[v]
    BY <1>3, <2>2
  <2>5. ~Holding(w) /\ work'[w] = Pill
    BY <1>1, <1>3, <2>2 DEF Holding
  <2>6. \A v \in Workers : Holding(v) => work'[v] = work[v]
    BY <2>4, <2>5
  <2>7. chan \in Seq(Chunks) /\ \A i \in 1 .. Len(chan) : chan[i] \in Nat
    BY DEF Inv, TypeOK, Chunks
  <2>8. Places'
    <3>1. next' <= Taken'
      BY <1>1, <1>3 DEF Inv, Places
    <3>2. \A v \in Workers : (Holding(v))' =>
            /\ work'[v] \in Chunks
            /\ next' <= work'[v]
            /\ work'[v] < Taken'
            /\ work'[v] \notin buf'
      BY <1>1, <1>3, <2>3, <2>6 DEF Inv, Places, Chunks
    <3>3. \A c \in buf' : next' <= c /\ c < Taken'
      BY <1>1, <1>3 DEF Inv, Places, Chunks
    <3>4. \A i \in 1 .. Len(chan') :
            next' <= chan'[i] /\ chan'[i] < Taken' /\ chan'[i] \notin buf'
      BY <1>1, <1>3, <2>7 DEF Inv, Places
    <3>5. /\ \A u, v \in Workers :
               (Holding(u))' /\ (Holding(v))' /\ work'[u] = work'[v] => u = v
          /\ \A v \in Workers :
               (Holding(v))' => \A i \in 1 .. Len(chan') : chan'[i] # work'[v]
          /\ \A i, j \in 1 .. Len(chan') : chan'[i] = chan'[j] => i = j
      BY <1>1, <2>3, <2>6 DEF Inv, Places
    <3> QED
      BY <3>1, <3>2, <3>3, <3>4, <3>5 DEF Places
  <2>9. Located'
    <3> SUFFICES ASSUME foldPc = "run" PROVE Located'
      BY <1>1 DEF Located
    <3>1. \A c \in Chunks : c < Taken
      BY <1>3, <1>6 DEF Chunks
    <3>2. \A v \in Workers : work'[v] # Pill => (Holding(v))'
      BY <2>3, <2>4, <2>5 DEF Inv, Located
    <3> QED
      BY <1>1, <2>3, <2>6, <3>1, <3>2 DEF Inv, Located
  <2>10. Exits'
    BY <1>1, <1>3, <1>6 DEF Exits
  <2> QED
    BY <2>8, <2>9, <2>10
<1>7. mainPc' \in MainPcs /\ MainPosition'
  BY <1>1 DEF WorkerPop, Inv, TypeOK, MainPcs, MainPosition
<1>8. wpc' \in [Workers -> WorkerPcs] /\ work' \in [Workers -> Chunks \union {Pill}]
  BY <1>1, <1>2, <1>3 DEF WorkerPcs
<1>9. TypeOK'
  BY <1>1, <1>2, <1>7, <1>8 DEF Inv, TypeOK
<1>10. QueueIsFifo'
  <2>1. ASSUME NEW i \in 1 .. Len(queue') PROVE queue'[i] = Item(Taken' + i - 1)
    <3>1. i + 1 \in 1 .. Len(queue) /\ Taken' + i - 1 = Taken + (i + 1) - 1
      BY <1>2, <1>3
    <3> QED
      BY <1>2, <3>1 DEF Inv, QueueIsFifo
  <2>2. \A k : Item(k)' = Item(k)
    BY DEF Item
  <2>3. Len(queue') <= Capacity /\ Len(queue') <= sent'
    BY <1>1, <1>2, <1>3 DEF Inv, QueueIsFifo
  <2> QED
    BY <2>1, <2>2, <2>3 DEF QueueIsFifo
<1>11. ProofCoversAllChunks'
  BY <1>1, <1>3 DEF Inv, ProofCoversAllChunks, Panicked, WorkerPcs
<1>12. Places' /\ Located' /\ Exits'
  BY <1>5, <1>6
<1> QED
  BY <1>7, <1>9, <1>10, <1>11, <1>12 DEF Inv

(* Going to sleep, waking up, proving and panicking move no chunk. *)
LEMMA WorkerMovesNothing ==
  ASSUME NEW w \in Workers, Inv,
         \/ WorkerWait(w) \/ SpuriousWakeWorker(w)
         \/ WorkerProve(w) \/ WorkerPanic(w)
  PROVE  Inv'
<1> USE Sizes
<1>1. /\ UNCHANGED <<mainPc, sent, queue, work, chan, foldPc, buf, next, result,
                     stop>>
      /\ proved' \in Nat
      /\ wpc \in [Workers -> WorkerPcs]
  BY DEF WorkerWait, SpuriousWakeWorker, WorkerProve, WorkerPanic, Inv, TypeOK
<1>2. /\ \A v \in Workers : (Holding(v))' <=> Holding(v)
      /\ \A v \in Workers : wpc'[v] = "exited" <=> wpc[v] = "exited"
      /\ \A v \in Workers : wpc[v] = "panicked" => wpc'[v] = "panicked"
      /\ wpc' \in [Workers -> WorkerPcs]
  BY <1>1 DEF WorkerWait, SpuriousWakeWorker, WorkerProve, WorkerPanic, Holding,
              WorkerPcs
<1>3. Taken' = Taken
  BY <1>1 DEF Taken
<1>4. TypeOK' /\ MainPosition'
  BY <1>1, <1>2 DEF Inv, TypeOK, MainPosition
<1>5. QueueIsFifo'
  BY <1>1, <1>3 DEF Inv, QueueIsFifo
<1>6. Places' /\ Located' /\ Exits'
  BY <1>1, <1>2, <1>3 DEF Inv, Places, Located, Exits
<1>7. ProofCoversAllChunks'
  BY <1>1, <1>2 DEF Inv, ProofCoversAllChunks, Panicked
<1> QED
  BY <1>4, <1>5, <1>6, <1>7 DEF Inv

(* A send moves the worker's chunk into the channel, or ends the worker    *)
(* when the folder is gone.                                                *)
LEMMA SendInv == ASSUME NEW w \in Workers, Inv, WorkerSend(w) PROVE Inv'
<1> USE Sizes
<1>1. /\ UNCHANGED <<mainPc, sent, queue, proved, foldPc, buf, next, result, stop>>
      /\ wpc[w] = "sending"
      /\ wpc \in [Workers -> WorkerPcs]
      /\ work \in [Workers -> Chunks \union {Pill}]
      /\ chan \in Seq(Chunks)
      /\ next \in Nat
  BY DEF WorkerSend, Inv, TypeOK
<1>2. Taken' = Taken /\ Taken \in Int
  BY <1>1 DEF Taken, Inv, TypeOK
<1>3. /\ Holding(w)
      /\ work[w] \in Chunks
      /\ next <= work[w] /\ work[w] < Taken /\ work[w] \notin buf
      /\ \A i \in 1 .. Len(chan) : chan[i] # work[w]
  BY <1>1 DEF Holding, Inv, Places
<1>4. QueueIsFifo' /\ MainPosition'
  BY <1>1, <1>2 DEF Inv, QueueIsFifo, MainPosition
<1>5. ASSUME foldPc = "run" PROVE Inv'
  <2>1. /\ chan' = Append(chan, work[w])
        /\ work' = [work EXCEPT ![w] = Pill]
        /\ wpc' = [wpc EXCEPT ![w] = "pop"]
    BY <1>5 DEF WorkerSend
  <2>2. /\ chan' \in Seq(Chunks)
        /\ Len(chan') = Len(chan) + 1 /\ Len(chan) \in Nat
        /\ chan'[Len(chan) + 1] = work[w]
        /\ \A i \in 1 .. Len(chan) : chan'[i] = chan[i]
    BY <1>1, <1>3, <2>1
  <2>3. /\ wpc' \in [Workers -> WorkerPcs]
        /\ work' \in [Workers -> Chunks \union {Pill}]
        /\ work'[w] = Pill
        /\ \A v \in Workers : v # w => work'[v] = work[v]
        /\ \A v \in Workers : (Holding(v))' <=> Holding(v) /\ v # w
        /\ \A v \in Workers : wpc'[v] = "exited" => wpc[v] = "exited"
    BY <1>1, <2>1 DEF WorkerPcs, Holding
  <2>4. TypeOK'
    BY <1>1, <2>2, <2>3 DEF Inv, TypeOK
  <2>5. \A i \in 1 .. Len(chan') : i = Len(chan) + 1 \/ i \in 1 .. Len(chan)
    BY <2>2
  <2>6. Places'
    <3>1. \A i \in 1 .. Len(chan') :
            next <= chan'[i] /\ chan'[i] < Taken /\ chan'[i] \notin buf
      BY <1>3, <2>2, <2>5 DEF Inv, Places
    <3>2. \A i, j \in 1 .. Len(chan') : chan'[i] = chan'[j] => i = j
      BY <1>3, <2>2, <2>5 DEF Inv, Places
    <3>3. \A v \in Workers : (Holding(v))' =>
            \A i \in 1 .. Len(chan') : chan'[i] # work'[v]
      BY <1>3, <2>2, <2>3, <2>5 DEF Inv, Places
    <3>4. /\ \A v \in Workers : (Holding(v))' =>
               /\ work'[v] \in Chunks
               /\ next <= work'[v]
               /\ work'[v] < Taken
               /\ work'[v] \notin buf
          /\ \A u, v \in Workers :
               (Holding(u))' /\ (Holding(v))' /\ work'[u] = work'[v] => u = v
      BY <2>3 DEF Inv, Places
    <3> QED
      BY <1>1, <1>2, <3>1, <3>2, <3>3, <3>4 DEF Inv, Places
  <2>7. Located'
    <3>1. \A v \in Workers : work'[v] # Pill => (Holding(v))'
      BY <1>5, <2>3 DEF Inv, Located
    <3>2. ASSUME NEW c \in Chunks, c < Taken
          PROVE  \/ \E v \in Workers : (Holding(v))' /\ work'[v] = c
                 \/ \E i \in 1 .. Len(chan') : chan'[i] = c
                 \/ c \in buf
                 \/ c < next
      <4>1. \/ \E v \in Workers : Holding(v) /\ work[v] = c
            \/ \E i \in 1 .. Len(chan) : chan[i] = c
            \/ c \in buf
            \/ c < next
        BY <1>5, <3>2 DEF Inv, Located
      <4>2. CASE \E v \in Workers : Holding(v) /\ work[v] = c
        <5>1. PICK v \in Workers : Holding(v) /\ work[v] = c
          BY <4>2
        <5>2. CASE v = w
          BY <2>2, <5>1, <5>2
        <5>3. CASE v # w
          BY <2>3, <5>1, <5>3
        <5> QED
          BY <5>2, <5>3
      <4>3. CASE \E i \in 1 .. Len(chan) : chan[i] = c
        BY <2>2, <4>3
      <4> QED
        BY <4>1, <4>2, <4>3
    <3> QED
      BY <1>1, <1>2, <3>1, <3>2 DEF Located
  <2>8. Exits' /\ ProofCoversAllChunks'
    <3>1. Panicked' = Panicked
      BY <1>1, <2>1 DEF Panicked
    <3> QED
      BY <1>1, <1>2, <2>3, <3>1 DEF Inv, Exits, ProofCoversAllChunks
  <2> QED
    BY <1>4, <2>4, <2>6, <2>7, <2>8 DEF Inv
<1>6. ASSUME foldPc # "run" PROVE Inv'
  <2>1. wpc' = [wpc EXCEPT ![w] = "exited"] /\ UNCHANGED <<chan, work>>
    BY <1>6 DEF WorkerSend
  <2>2. /\ wpc' \in [Workers -> WorkerPcs]
        /\ \A v \in Workers : (Holding(v))' => Holding(v)
    BY <1>1, <2>1 DEF WorkerPcs, Holding
  <2>3. TypeOK' /\ Places' /\ Located' /\ Exits'
    BY <1>1, <1>2, <1>6, <2>1, <2>2 DEF Inv, TypeOK, Places, Located, Exits
  <2>4. Panicked' = Panicked
    BY <1>1, <2>1 DEF Panicked
  <2>5. ProofCoversAllChunks'
    BY <1>1, <2>4 DEF Inv, ProofCoversAllChunks
  <2> QED
    BY <1>4, <2>3, <2>5 DEF Inv
<1> QED
  BY <1>5, <1>6

(* Handing the next proof to the fold moves it from the buffer to the      *)
(* folded prefix.                                                          *)
LEMMA YieldInv == Inv /\ FolderYield => Inv'
<1> SUFFICES ASSUME Inv, FolderYield PROVE Inv'
  OBVIOUS
<1> USE Sizes
<1>1. /\ UNCHANGED <<mainPc, sent, queue, wpc, work, proved, chan, foldPc, result,
                     stop>>
      /\ foldPc = "run"
      /\ next \in buf /\ buf' = buf \ {next} /\ next' = next + 1
      /\ buf \subseteq Chunks
      /\ chan \in Seq(Chunks)
      /\ \A c \in Chunks : c \in Nat /\ c < NumChunks
  BY DEF FolderYield, Inv, TypeOK, Chunks
<1>2. Taken' = Taken /\ Taken \in Int
  BY <1>1 DEF Taken, Inv, TypeOK
<1>3. \A w \in Workers : (Holding(w))' <=> Holding(w)
  BY <1>1 DEF Holding
<1>4. TypeOK'
  BY <1>1 DEF Inv, TypeOK
<1>5. QueueIsFifo' /\ MainPosition' /\ Exits'
  BY <1>1, <1>2 DEF Inv, QueueIsFifo, MainPosition, Exits
<1>6. Places'
  <2>1. next + 1 <= Taken
    BY <1>1, <1>2 DEF Inv, Places
  <2>2. \A w \in Workers : Holding(w) =>
          /\ work[w] \in Chunks
          /\ next + 1 <= work[w]
          /\ work[w] < Taken
          /\ work[w] \notin buf'
    BY <1>1 DEF Inv, Places
  <2>3. \A c \in buf' : next + 1 <= c /\ c < Taken
    BY <1>1 DEF Inv, Places
  <2>4. \A j \in 1 .. Len(chan) :
          next + 1 <= chan[j] /\ chan[j] < Taken /\ chan[j] \notin buf'
    <3> SUFFICES ASSUME NEW j \in 1 .. Len(chan)
                 PROVE  next + 1 <= chan[j] /\ chan[j] < Taken /\ chan[j] \notin buf'
      OBVIOUS
    <3>1. chan[j] \in Chunks
      BY <1>1
    <3>2. next <= chan[j] /\ chan[j] < Taken /\ chan[j] \notin buf
      BY DEF Inv, Places
    <3> QED
      BY <1>1, <3>1, <3>2
  <2> QED
    BY <1>1, <1>2, <1>3, <2>1, <2>2, <2>3, <2>4 DEF Inv, Places
<1>7. Located'
  <2>1. ASSUME NEW c \in Chunks PROVE c \in buf \/ c < next => c \in buf' \/ c < next'
    <3>1. c \in Nat /\ next \in Nat
      BY <1>1
    <3> QED
      BY <1>1, <3>1
  <2>2. \A c \in Chunks : c < Taken =>
          \/ \E w \in Workers : Holding(w) /\ work[w] = c
          \/ \E i \in 1 .. Len(chan) : chan[i] = c
          \/ c \in buf
          \/ c < next
    BY <1>1 DEF Inv, Located
  <2>3. \A w \in Workers : work[w] # Pill => Holding(w)
    BY <1>1 DEF Inv, Located
  <2> QED
    BY <1>1, <1>2, <1>3, <2>1, <2>2, <2>3 DEF Located
<1>8. ProofCoversAllChunks'
  <2>1. result # "ok" \/ Panicked # {} \/ next = NumChunks
    BY DEF Inv, ProofCoversAllChunks
  <2>2. next # NumChunks
    BY <1>1
  <2>3. Panicked' = Panicked
    BY <1>1 DEF Panicked
  <2> QED
    BY <1>1, <2>1, <2>2, <2>3 DEF ProofCoversAllChunks
<1> QED
  BY <1>4, <1>5, <1>6, <1>7, <1>8 DEF Inv

(* Receiving moves the oldest proof from the channel to the buffer. *)
LEMMA RecvInv == Inv /\ FolderRecv => Inv'
<1> SUFFICES ASSUME Inv, FolderRecv PROVE Inv'
  OBVIOUS
<1> USE Sizes
<1>1. /\ UNCHANGED <<mainPc, sent, queue, wpc, work, proved, foldPc, next, result,
                     stop>>
      /\ foldPc = "run"
      /\ chan \in Seq(Chunks) /\ chan # <<>>
      /\ buf' = buf \union {chan[1]} /\ chan' = Tail(chan)
      /\ buf \subseteq Chunks
  BY DEF FolderRecv, Inv, TypeOK
<1>2. /\ chan' \in Seq(Chunks)
      /\ Len(chan) \in Nat \ {0} /\ Len(chan') = Len(chan) - 1
      /\ \A i \in 1 .. Len(chan') : i + 1 \in 1 .. Len(chan) /\ chan'[i] = chan[i + 1]
      /\ 1 \in 1 .. Len(chan)
      /\ chan[1] \in Chunks
  BY <1>1
<1>3. Taken' = Taken
  BY <1>1 DEF Taken
<1>4. \A w \in Workers : (Holding(w))' <=> Holding(w)
  BY <1>1 DEF Holding
<1>5. TypeOK'
  BY <1>1, <1>2 DEF Inv, TypeOK
<1>6. QueueIsFifo' /\ MainPosition' /\ Exits'
  BY <1>1, <1>3 DEF Inv, QueueIsFifo, MainPosition, Exits
<1>7. Places'
  <2>1. \A w \in Workers : Holding(w) =>
          /\ work[w] \notin buf'
          /\ \A i \in 1 .. Len(chan') : chan'[i] # work[w]
    BY <1>1, <1>2 DEF Inv, Places
  <2>2. \A c \in buf' : next <= c /\ c < Taken
    BY <1>1, <1>2 DEF Inv, Places
  <2>3. \A i \in 1 .. Len(chan') :
          next <= chan'[i] /\ chan'[i] < Taken /\ chan'[i] \notin buf'
    BY <1>1, <1>2 DEF Inv, Places
  <2>4. \A i, j \in 1 .. Len(chan') : chan'[i] = chan'[j] => i = j
    <3> SUFFICES ASSUME NEW i \in 1 .. Len(chan'), NEW j \in 1 .. Len(chan'),
                        chan'[i] = chan'[j]
                 PROVE  i = j
      OBVIOUS
    <3>1. i + 1 = j + 1
      BY <1>2 DEF Inv, Places
    <3> QED
      BY <1>2, <3>1
  <2> QED
    BY <1>1, <1>3, <1>4, <2>1, <2>2, <2>3, <2>4 DEF Inv, Places
<1>8. Located'
  <2>1. ASSUME NEW i \in 1 .. Len(chan)
        PROVE  chan[i] \in buf' \/ \E j \in 1 .. Len(chan') : chan'[j] = chan[i]
    <3>1. CASE i = 1
      BY <1>1, <3>1
    <3>2. CASE i # 1
      <4>1. i - 1 \in 1 .. Len(chan') /\ chan'[i - 1] = chan[(i - 1) + 1]
        BY <1>2, <3>2
      <4>2. (i - 1) + 1 = i
        OBVIOUS
      <4> QED
        BY <4>1, <4>2
    <3> QED
      BY <3>1, <3>2
  <2> QED
    BY <1>1, <1>3, <1>4, <2>1 DEF Inv, Located
<1>9. ProofCoversAllChunks'
  BY <1>1 DEF Inv, ProofCoversAllChunks, Panicked
<1> QED
  BY <1>5, <1>6, <1>7, <1>8, <1>9 DEF Inv

(* When every worker has left and none panicked, every chunk was taken and *)
(* can only be folded: the fold is complete.                               *)
LEMMA EndInv == Inv /\ FolderEnd => Inv'
<1> SUFFICES ASSUME Inv, FolderEnd PROVE Inv'
  OBVIOUS
<1> USE Sizes
<1>1. /\ UNCHANGED <<mainPc, sent, queue, wpc, work, proved, chan, buf, next, stop>>
      /\ foldPc = "run" /\ foldPc' = "ended"
      /\ result' \in {"err", "ok"}
      /\ next \notin buf /\ chan = <<>>
      /\ \A w \in Workers : Ended(w)
      /\ next \in 0 .. NumChunks
  BY DEF FolderEnd, Inv, TypeOK
<1>2. Taken' = Taken /\ Taken \in Int
  BY <1>1 DEF Taken, Inv, TypeOK
<1>3. TypeOK' /\ MainPosition' /\ QueueIsFifo'
  BY <1>1, <1>2 DEF Inv, TypeOK, MainPosition, QueueIsFifo
<1>4. Places' /\ Located' /\ Exits'
  BY <1>1, <1>2 DEF Inv, Places, Located, Exits, Holding
<1>5. ASSUME Panicked' = {} PROVE next = NumChunks
  <2>1. \A w \in Workers : wpc[w] = "exited"
    BY <1>1, <1>5 DEF Panicked, Ended
  <2>2. Taken >= NumChunks
    BY <1>1, <2>1, WorkersAssumption DEF Inv, Exits
  <2>3. SUFFICES ASSUME next # NumChunks PROVE FALSE
    OBVIOUS
  <2>4. next \in Chunks /\ next < Taken
    BY <1>1, <1>2, <2>2, <2>3 DEF Chunks
  <2>5. \A w \in Workers : ~Holding(w)
    BY <2>1 DEF Holding
  <2> QED
    BY <1>1, <2>4, <2>5 DEF Inv, Located
<1>6. ProofCoversAllChunks'
  BY <1>1, <1>5 DEF ProofCoversAllChunks
<1> QED
  BY <1>3, <1>4, <1>6 DEF Inv

(* A failing folder drops what the channel held. *)
LEMMA FailInv == Inv /\ FolderFail => Inv'
<1> SUFFICES ASSUME Inv, FolderFail PROVE Inv'
  OBVIOUS
<1>1. /\ UNCHANGED <<mainPc, sent, queue, wpc, work, proved, buf, next, stop>>
      /\ foldPc' = "ended" /\ result' = "err" /\ chan' = <<>>
  BY DEF FolderFail
<1>2. Taken' = Taken
  BY <1>1 DEF Taken
<1>3. TypeOK' /\ MainPosition' /\ QueueIsFifo'
  BY <1>1, <1>2 DEF Inv, TypeOK, MainPosition, QueueIsFifo
<1>4. Places' /\ Located' /\ Exits' /\ ProofCoversAllChunks'
  BY <1>1, <1>2 DEF Inv, Places, Located, Exits, Holding, ProofCoversAllChunks
<1> QED
  BY <1>3, <1>4 DEF Inv

(* Inv is an inductive invariant of the pipeline. *)
THEOREM InvIsInvariant == Spec => []Inv
<1>1. Inv /\ [Next]_vars => Inv'
  <2> SUFFICES ASSUME Inv, [Next]_vars PROVE Inv'
    OBVIOUS
  <2>1. CASE MainStep
    BY <2>1, MainMovesNothing, PushInv DEF MainStep
  <2>2. CASE \E w \in Workers : WorkerStep(w)
    BY <2>2, PopInv, WorkerMovesNothing, SendInv DEF WorkerStep
  <2>3. CASE FolderStep
    BY <2>3, YieldInv, RecvInv, EndInv DEF FolderStep
  <2>4. CASE Environment
    BY <2>4, MainMovesNothing, WorkerMovesNothing, FailInv DEF Environment
  <2>5. CASE UNCHANGED vars
    BY <2>5 DEF vars, Inv, TypeOK, MainPosition, QueueIsFifo, Places, Located,
                Exits, ProofCoversAllChunks, Taken, Holding, Panicked
  <2> QED
    BY <2>1, <2>2, <2>3, <2>4, <2>5 DEF Next, Terminated
<1> QED
  BY InitInv, <1>1, PTL DEF Spec

(* prove-boot's main keeps the type of its phase 2 state. *)
THEOREM TypeCorrect == Spec => []TypeOK
<1>1. Inv => TypeOK
  BY DEF Inv
<1> QED
  BY <1>1, InvIsInvariant, PTL

(* WorkQueue::push and pop make a bounded FIFO whatever the waits and      *)
(* wake-ups.                                                               *)
THEOREM Fifo == Spec => []QueueIsFifo
<1>1. Inv => QueueIsFifo
  BY DEF Inv
<1> QED
  BY <1>1, InvIsInvariant, PTL

(* Without a panicking worker, the proof the folder returns covers every   *)
(* chunk phase 1 recorded.                                                 *)
THEOREM CoversAllChunks == Spec => []ProofCoversAllChunks
<1>1. Inv => ProofCoversAllChunks
  BY DEF Inv
<1> QED
  BY <1>1, InvIsInvariant, PTL

(* ReorderIterator never yields past a chunk that a panic lost. *)
THEOREM NoGap == Spec => []NeverFoldsAcrossLostChunk
<1>1. Inv => NeverFoldsAcrossLostChunk
  BY DEF Inv, Places, Holding, NeverFoldsAcrossLostChunk, Panicked
<1> QED
  BY <1>1, InvIsInvariant, PTL

(* A chunk that left the queue is in exactly one place while the folder    *)
(* listens, and a queued one in none.                                      *)
THEOREM OnePlace == Spec => []EveryChunkInOnePlace
<1>1. Inv => EveryChunkInOnePlace
  <2> SUFFICES ASSUME Inv, foldPc = "run", NEW c \in Chunks
               PROVE  Cardinality(HeldBy(c)) + Cardinality(ChanAt(c))
                        + Cardinality(buf \cap {c}) + (IF c < next THEN 1 ELSE 0)
                      = (IF c < Taken THEN 1 ELSE 0)
    BY DEF EveryChunkInOnePlace
  <2>1. c \in Nat /\ c # Pill /\ next \in Nat /\ Taken \in Int /\ next <= Taken
    BY Sizes, PillAssumption DEF Chunks, Inv, TypeOK, Taken, Places
  <2>2. \A w \in HeldBy(c) : w \in Workers /\ Holding(w) /\ work[w] = c
    BY <2>1 DEF HeldBy, Inv, Located
  <2>3. HeldBy(c) = {} \/ \E w \in Workers : HeldBy(c) = {w} /\ Holding(w) /\ work[w] = c
    BY <2>2 DEF Inv, Places
  <2>4. ChanAt(c) = {} \/ \E i \in 1 .. Len(chan) : ChanAt(c) = {i} /\ chan[i] = c
    BY DEF ChanAt, Inv, Places
  <2>5. Cardinality({}) = 0
    BY FS_EmptySet
  <2>6. \A x : Cardinality({x}) = 1
    BY FS_Singleton
  <2>7. buf \cap {c} = IF c \in buf THEN {c} ELSE {}
    OBVIOUS
  <2>8. CASE HeldBy(c) # {}
    <3>1. PICK w \in Workers : HeldBy(c) = {w} /\ Holding(w) /\ work[w] = c
      BY <2>3, <2>8
    <3>2. /\ next <= c /\ c < Taken /\ c \notin buf
          /\ \A i \in 1 .. Len(chan) : chan[i] # c
      BY <3>1 DEF Inv, Places
    <3>3. ChanAt(c) = {} /\ buf \cap {c} = {}
      BY <2>4, <3>2
    <3>4. Cardinality(HeldBy(c)) = 1 /\ Cardinality(ChanAt(c)) = 0
          /\ Cardinality(buf \cap {c}) = 0
      BY <2>5, <2>6, <3>1, <3>3
    <3> QED
      BY <2>1, <3>2, <3>4
  <2>9. CASE HeldBy(c) = {} /\ ChanAt(c) # {}
    <3>1. PICK i \in 1 .. Len(chan) : ChanAt(c) = {i} /\ chan[i] = c
      BY <2>4, <2>9
    <3>2. next <= c /\ c < Taken /\ buf \cap {c} = {}
      BY <2>7, <3>1 DEF Inv, Places
    <3>3. Cardinality(HeldBy(c)) = 0 /\ Cardinality(ChanAt(c)) = 1
          /\ Cardinality(buf \cap {c}) = 0
      BY <2>5, <2>6, <2>9, <3>1, <3>2
    <3> QED
      BY <2>1, <3>2, <3>3
  <2>10. CASE HeldBy(c) = {} /\ ChanAt(c) = {}
    <3>1. Cardinality(HeldBy(c)) = 0 /\ Cardinality(ChanAt(c)) = 0
      BY <2>5, <2>10
    <3>2. CASE c \in buf
      <4>1. next <= c /\ c < Taken
        BY <3>2 DEF Inv, Places
      <4>2. Cardinality(buf \cap {c}) = 1
        BY <2>6, <2>7, <3>2
      <4> QED
        BY <2>1, <3>1, <4>1, <4>2
    <3>3. CASE c \notin buf
      <4>1. Cardinality(buf \cap {c}) = 0
        BY <2>5, <2>7, <3>3
      <4>2. c < Taken => c < next
        BY <2>10, <3>3 DEF Inv, Located, HeldBy, ChanAt
      <4> QED
        BY <2>1, <3>1, <4>1, <4>2
    <3> QED
      BY <3>2, <3>3
  <2> QED
    BY <2>8, <2>9, <2>10
<1> QED
  BY <1>1, InvIsInvariant, PTL

(* The workers about to pop, and those asleep *)
Popping == {w \in Workers : wpc[w] = "pop"}
Asleep == {w \in Workers : wpc[w] = "waitEmpty"}

(* One more worker about to pop is one more in number. *)
LEMMA OneMorePopping ==
  ASSUME Inv, NEW w \in Workers, wpc[w] # "pop", wpc' = [wpc EXCEPT ![w] = "pop"]
  PROVE  /\ Cardinality(Popping) \in Nat
         /\ Cardinality(Popping') = Cardinality(Popping) + 1
<1>1. IsFiniteSet(Popping) /\ w \notin Popping
  BY WorkersAssumption, FS_Subset DEF Popping
<1>2. Popping' = Popping \union {w}
  BY DEF Popping, Inv, TypeOK
<1> QED
  BY <1>1, <1>2, FS_AddElement, FS_CardinalityType

(* No step loses a wake-up: see NoLostWakeup. *)
LEMMA WakeupStep == Inv /\ Inv' /\ NoLostWakeup /\ [Next]_vars => NoLostWakeup'
<1> SUFFICES ASSUME Inv, Inv', NoLostWakeup, [Next]_vars PROVE NoLostWakeup'
  OBVIOUS
<1> USE Sizes
<1>1. /\ Len(queue) \in Nat /\ Len(queue) <= Capacity
      /\ wpc \in [Workers -> WorkerPcs]
      /\ queue \in Seq(Chunks \union {Pill})
  BY DEF Inv, TypeOK, QueueIsFifo
<1>2. IsFiniteSet(Popping) /\ Cardinality(Popping) \in Nat
  BY WorkersAssumption, FS_Subset, FS_CardinalityType DEF Popping
<1>3. /\ NoLostWakeup <=> /\ mainPc = "waitFull" => Len(queue) = Capacity
                          /\ Asleep # {} => Len(queue) <= Cardinality(Popping)
      /\ NoLostWakeup' <=> /\ mainPc' = "waitFull" => Len(queue') = Capacity
                           /\ Asleep' # {} => Len(queue') <= Cardinality(Popping')
  BY DEF NoLostWakeup, Asleep, Popping, Capacity
<1>4. ASSUME UNCHANGED <<queue, wpc>>, mainPc' = "waitFull" => Len(queue) = Capacity
      PROVE  NoLostWakeup'
  <2>1. Popping' = Popping /\ Asleep' = Asleep
    BY <1>4 DEF Popping, Asleep
  <2> QED
    BY <1>3, <1>4, <2>1
<1>5. ASSUME UNCHANGED <<mainPc, queue>>, NEW w \in Workers, wpc[w] # "pop",
             wpc' = [wpc EXCEPT ![w] = "pop"]
      PROVE  NoLostWakeup'
  <2>1. Cardinality(Popping') = Cardinality(Popping) + 1
    BY <1>5, OneMorePopping
  <2>2. Asleep' \subseteq Asleep
    BY <1>1, <1>5 DEF Asleep
  <2> QED
    BY <1>1, <1>2, <1>3, <1>5, <2>1, <2>2
<1>6. ASSUME UNCHANGED <<mainPc, queue>>, NEW w \in Workers, NEW p,
             wpc[w] \notin {"pop", "waitEmpty"}, p \notin {"pop", "waitEmpty"},
             wpc' = [wpc EXCEPT ![w] = p]
      PROVE  NoLostWakeup'
  <2>1. Popping' = Popping /\ Asleep' = Asleep
    BY <1>1, <1>6 DEF Popping, Asleep
  <2> QED
    BY <1>3, <1>6, <2>1
<1>7. CASE MainStep
  <2>1. CASE MainPush
    <3>1. /\ Len(queue') = Len(queue) + 1
          /\ mainPc' # "waitFull"
          /\ NotifyNotEmpty
      BY <1>1, <2>1 DEF MainPush, AfterPush
    <3>2. CASE Asleep = {}
      <4>1. Asleep' = {}
        BY <3>1, <3>2 DEF NotifyNotEmpty, Asleep
      <4> QED
        BY <1>3, <3>1, <4>1
    <3>3. CASE Asleep # {}
      <4>1. PICK w \in Asleep : wpc' = [wpc EXCEPT ![w] = "pop"]
        BY <3>1, <3>3 DEF NotifyNotEmpty, Asleep
      <4>2. w \in Workers /\ wpc[w] # "pop"
        BY DEF Asleep
      <4>3. Cardinality(Popping') = Cardinality(Popping) + 1
        BY <4>1, <4>2, OneMorePopping
      <4> QED
        BY <1>1, <1>2, <1>3, <3>1, <3>3, <4>3
    <3> QED
      BY <3>2, <3>3
  <2>2. CASE MainWait
    BY <1>1, <1>4, <2>2 DEF MainWait
  <2>3. CASE MainRead \/ MainJoinWorkers \/ MainJoinFolder \/ MainWrite
    BY <1>4, <2>3 DEF MainRead, MainJoinWorkers, MainJoinFolder, MainWrite
  <2> QED
    BY <1>7, <2>1, <2>2, <2>3 DEF MainStep
<1>8. ASSUME NEW w \in Workers, WorkerStep(w) PROVE NoLostWakeup'
  <2>1. CASE WorkerPop(w)
    <3>0. queue # <<>> /\ queue' = Tail(queue)
      BY <2>1 DEF WorkerPop
    <3>1. /\ mainPc' # "waitFull"
          /\ Len(queue') = Len(queue) - 1
          /\ wpc[w] = "pop"
          /\ \E p \in {"exited", "proving"} : wpc' = [wpc EXCEPT ![w] = p]
      <4>1. mainPc' # "waitFull" /\ wpc[w] = "pop"
        BY <2>1 DEF WorkerPop
      <4>2. Len(queue') = Len(queue) - 1
        BY <1>1, <3>0
      <4>3. CASE Head(queue) = Pill
        BY <2>1, <4>1, <4>2, <4>3 DEF WorkerPop
      <4>4. CASE Head(queue) # Pill
        BY <2>1, <4>1, <4>2, <4>4 DEF WorkerPop
      <4> QED
        BY <4>3, <4>4
    <3>2. Popping' = Popping \ {w} /\ w \in Popping /\ Asleep' = Asleep
      BY <1>1, <3>1 DEF Popping, Asleep
    <3>3. Cardinality(Popping') = Cardinality(Popping) - 1
      BY <1>2, <3>2, FS_RemoveElement
    <3> QED
      BY <1>1, <1>2, <1>3, <3>1, <3>2, <3>3
  <2>2. CASE WorkerWait(w)
    <3>1. mainPc' = mainPc /\ queue' = queue /\ Len(queue) = 0
      BY <2>2 DEF WorkerWait
    <3>2. IsFiniteSet(Popping') /\ Cardinality(Popping') \in Nat
      BY WorkersAssumption, FS_Subset, FS_CardinalityType DEF Popping
    <3> QED
      BY <1>3, <3>1, <3>2
  <2>3. CASE WorkerProve(w)
    BY <1>6, <2>3 DEF WorkerProve
  <2>4. CASE WorkerSend(w)
    BY <1>5, <1>6, <2>4 DEF WorkerSend
  <2> QED
    BY <1>8, <2>1, <2>2, <2>3, <2>4 DEF WorkerStep
<1>9. CASE FolderStep \/ FolderFail
  BY <1>3, <1>4, <1>9 DEF FolderStep, FolderYield, FolderRecv, FolderEnd, FolderFail
<1>10. CASE SpuriousWakeMain \/ Sigint
  BY <1>3, <1>4, <1>10 DEF SpuriousWakeMain, Sigint
<1>11. ASSUME NEW w \in Workers, WorkerPanic(w) \/ SpuriousWakeWorker(w)
       PROVE  NoLostWakeup'
  BY <1>5, <1>6, <1>11 DEF WorkerPanic, SpuriousWakeWorker
<1>12. CASE UNCHANGED vars
  BY <1>3, <1>4, <1>12 DEF vars
<1> QED
  BY <1>7, <1>8, <1>9, <1>10, <1>11, <1>12 DEF Next, Environment, Terminated

(* WorkQueue's notify_one calls suffice: no push or pop leaves a thread    *)
(* asleep that has work to do.                                             *)
THEOREM Wakeups == Spec => []NoLostWakeup
<1>1. Init => NoLostWakeup
  BY DEF Init, NoLostWakeup
<1> QED
  BY <1>1, WakeupStep, InvIsInvariant, PTL DEF Spec

----------------------------------------------------------------------------
(* Phase 2 implements OrderedFold. *)

(* The folder's result exists exactly when its thread has ended, and the   *)
(* main thread gets as far as writing only with a fold that ended well.    *)
FoldResult ==
  /\ (foldPc = "run") = (result = "none")
  /\ mainPc \in {"write", "written"} => result = "ok"

Lost == {work[w] : w \in Panicked}

(* FoldResult is inductive. *)
LEMMA FoldResultInvariant == Spec => []FoldResult
<1>1. Init => FoldResult
  BY DEF Init, FoldResult
<1>2. FoldResult /\ [Next]_vars => FoldResult'
  <2> SUFFICES ASSUME FoldResult, [Next]_vars PROVE FoldResult'
    OBVIOUS
  <2> USE DEF FoldResult
  <2>1. CASE MainStep
    BY <2>1 DEF MainStep, MainRead, MainPush, MainWait, MainJoinWorkers,
                MainJoinFolder, MainWrite, AfterPush
  <2>2. ASSUME NEW w \in Workers, WorkerStep(w) PROVE FoldResult'
    BY <2>2 DEF WorkerStep, WorkerPop, WorkerWait, WorkerProve, WorkerSend
  <2>3. CASE FolderStep
    BY <2>3 DEF FolderStep, FolderYield, FolderRecv, FolderEnd
  <2>4. CASE FolderFail \/ SpuriousWakeMain \/ Sigint
    BY <2>4 DEF FolderFail, SpuriousWakeMain, Sigint
  <2>5. ASSUME NEW w \in Workers, WorkerPanic(w) \/ SpuriousWakeWorker(w)
        PROVE  FoldResult'
    BY <2>5 DEF WorkerPanic, SpuriousWakeWorker
  <2>6. CASE UNCHANGED vars
    BY <2>6 DEF vars
  <2> QED
    BY <2>1, <2>2, <2>3, <2>4, <2>5, <2>6 DEF Next, Environment, Terminated
<1> QED
  BY <1>1, <1>2, PTL DEF Spec

(* A worker's step other than a panic loses no chunk: a panicked worker    *)
(* takes no step, and no other worker becomes one.                         *)
LEMMA LostUnchanged ==
  ASSUME TypeOK,
         \A w \in Workers : (wpc'[w] = "panicked") = (wpc[w] = "panicked"),
         \A w \in Workers : wpc[w] = "panicked" => work'[w] = work[w]
  PROVE  Lost' = Lost
BY DEF Lost, Panicked

(* Every step of the pipeline is a step of the ordered fold or leaves it   *)
(* unchanged.                                                              *)
LEMMA FoldStep ==
  Inv /\ FoldResult /\ FoldResult' /\ [Next]_vars => [Fold!Next]_(Fold!vars)
<1> SUFFICES ASSUME Inv, FoldResult, FoldResult', [Next]_vars
             PROVE  [Fold!Next]_(Fold!vars)
  OBVIOUS
<1> USE DEF Fold!vars, Lost
<1>t. TypeOK /\ Places
  BY DEF Inv
(* Nothing moves and the process goes on, or it fails. *)
<1>1. ASSUME UNCHANGED <<next, result>>, Lost' = Lost, mainPc' # "written",
             Running
      PROVE  [Fold!Next]_(Fold!vars)
  <2>1. CASE Running'
    BY <1>1, <2>1
  <2>2. CASE ~Running'
    BY <1>1, <2>2 DEF Fold!Next, Fold!Fail
  <2> QED
    BY <2>1, <2>2
<1>2. ASSUME UNCHANGED <<wpc, work>> PROVE Lost' = Lost
  BY <1>2 DEF Panicked
<1>3. CASE MainStep
  <2>1. UNCHANGED <<next, result, work>>
    BY <1>3 DEF MainStep, MainRead, MainPush, MainWait, MainJoinWorkers,
                MainJoinFolder, MainWrite
  <2>2. Running
    BY <1>3 DEF MainStep, MainRead, MainPush, MainWait, MainJoinWorkers,
                MainJoinFolder, MainWrite, Running
  <2>3. Lost' = Lost
    <3>1. CASE MainPush
      BY <3>1, <2>1, <1>t, LostUnchanged DEF MainPush, NotifyNotEmpty, TypeOK
    <3>2. CASE ~MainPush
      BY <1>2, <1>3, <2>1, <3>2 DEF MainStep, MainRead, MainWait,
         MainJoinWorkers, MainJoinFolder, MainWrite
    <3> QED
      BY <3>1, <3>2
  <2>4. CASE mainPc' = "written"
    BY <2>1, <2>2, <2>3, <2>4 DEF Fold!Next, Fold!Write, FoldResult, Running
  <2> QED
    BY <1>1, <2>1, <2>2, <2>3, <2>4
<1>4. ASSUME NEW w \in Workers,
             WorkerStep(w) \/ SpuriousWakeWorker(w)
      PROVE  [Fold!Next]_(Fold!vars)
  <2>1. UNCHANGED <<next, result>> /\ Running
    BY <1>4 DEF WorkerStep, WorkerPop, WorkerWait, WorkerProve, WorkerSend,
                SpuriousWakeWorker
  <2>2. mainPc' # "written"
    BY <1>4 DEF WorkerStep, WorkerPop, WorkerWait, WorkerProve, WorkerSend,
                SpuriousWakeWorker, Running
  <2>3. Lost' = Lost
    BY <1>4, <1>t, LostUnchanged DEF WorkerStep, WorkerPop, WorkerWait,
       WorkerProve, WorkerSend, SpuriousWakeWorker, TypeOK
  <2> QED
    BY <1>1, <2>1, <2>2, <2>3
(* A panic loses the chunk in hand, which is nowhere else. *)
<1>5. ASSUME NEW w \in Workers, WorkerPanic(w)
      PROVE  [Fold!Next]_(Fold!vars)
  <2>1. /\ UNCHANGED <<next, result, mainPc, work>> /\ Running
        /\ wpc[w] = "proving" /\ wpc' = [wpc EXCEPT ![w] = "panicked"]
    BY <1>5 DEF WorkerPanic
  <2>2. Panicked' = Panicked \union {w}
    BY <1>t, <2>1 DEF Panicked, TypeOK
  <2>3. Lost' = Lost \union {work[w]}
    BY <2>1, <2>2
  <2>4. work[w] \in next .. NumChunks - 1
    BY <1>t, <2>1, Sizes DEF Places, Holding, Chunks, TypeOK
  <2>5. work[w] \notin Lost
    BY <1>t, <2>1 DEF Places, Holding, Panicked
  <2>6. Running'
    BY <2>1 DEF Running
  <2>7. Fold!Lose
    BY <2>1, <2>3, <2>4, <2>5, <2>6 DEF Fold!Lose
  <2> QED
    BY <2>7 DEF Fold!Next
<1>6. CASE FolderYield
  <2>1. /\ UNCHANGED <<result, mainPc, work, wpc>> /\ Running
        /\ next \in buf /\ next' = next + 1 /\ result = "none"
    BY <1>6 DEF FolderYield, FoldResult
  <2>2. next < NumChunks
    BY <1>t, <2>1, Sizes DEF TypeOK, Chunks
  <2>3. next \notin Lost
    BY <1>t, <2>1 DEF Places, Holding, Panicked
  <2>4. Running' /\ Lost' = Lost
    BY <1>2, <2>1 DEF Running
  <2>5. Fold!FoldNext
    BY <2>1, <2>2, <2>3, <2>4 DEF Fold!FoldNext
  <2> QED
    BY <2>5 DEF Fold!Next
<1>7. CASE FolderRecv
  <2>1. UNCHANGED <<next, result, mainPc, work, wpc>> /\ Running
    BY <1>7 DEF FolderRecv
  <2> QED
    BY <1>1, <1>2, <2>1 DEF Running
(* The channel closed: all chunks are folded, or a panicked worker holds   *)
(* the next one.                                                           *)
<1>8. CASE FolderEnd
  <2>1. /\ UNCHANGED <<next, mainPc, work, wpc>> /\ Running
        /\ foldPc = "run" /\ result = "none" /\ next \notin buf /\ chan = <<>>
        /\ \A w \in Workers : Ended(w)
        /\ result' \in {"ok", "err"} /\ (result' = "ok" => next > 0)
    BY <1>8, <1>t DEF FolderEnd, FoldResult, TypeOK
  <2>2. Running' /\ Lost' = Lost
    BY <1>2, <2>1 DEF Running
  <2>3. CASE result' = "err"
    BY <2>1, <2>2, <2>3 DEF Fold!Next, Fold!EndErr
  <2>4. CASE result' = "ok"
    <3>1. next \in Nat /\ next <= NumChunks
      BY <1>t, Sizes DEF TypeOK
    <3>2. ASSUME next # NumChunks PROVE next \in Lost
      <4>1. next \in Chunks
        BY <3>1, <3>2, Sizes DEF Chunks
      <4>2. Taken \in Int
        BY <1>t, Sizes DEF TypeOK, Taken
      <4>3. next < Taken
        <5>1. PICK w \in Workers : TRUE
          BY WorkersAssumption
        <5>2. CASE wpc[w] = "exited"
          BY <2>1, <3>1, <3>2, <4>2, <5>2, Sizes DEF Inv, Exits
        <5>3. CASE wpc[w] = "panicked"
          BY <1>t, <3>1, <4>2, <5>3 DEF Places, Holding, Chunks
        <5> QED
          BY <2>1, <5>2, <5>3 DEF Ended
      <4>4. PICK w \in Workers : Holding(w) /\ work[w] = next
        BY <2>1, <3>1, <4>1, <4>3 DEF Inv, Located
      <4>5. wpc[w] = "panicked"
        BY <2>1, <4>4 DEF Holding, Ended
      <4> QED
        BY <4>4, <4>5 DEF Panicked
    <3>3. Fold!EndOk
      BY <2>1, <2>2, <2>4, <3>2 DEF Fold!EndOk
    <3> QED
      BY <3>3 DEF Fold!Next
  <2> QED
    BY <2>1, <2>3, <2>4
<1>9. CASE FolderFail
  <2>1. UNCHANGED <<next, mainPc, work, wpc>> /\ Running /\ result = "none"
        /\ result' = "err"
    BY <1>9 DEF FolderFail, FoldResult
  <2>2. Running' /\ Lost' = Lost
    BY <1>2, <2>1 DEF Running
  <2> QED
    BY <2>1, <2>2 DEF Fold!Next, Fold!EndErr
<1>10. CASE SpuriousWakeMain \/ Sigint
  <2>1. UNCHANGED <<next, result, work, wpc>> /\ Running /\ mainPc' # "written"
    BY <1>10 DEF SpuriousWakeMain, Sigint, Running
  <2> QED
    BY <1>1, <1>2, <2>1
<1>11. CASE UNCHANGED vars
  BY <1>2, <1>11 DEF vars, Running
<1> QED
  BY <1>3, <1>4, <1>5, <1>6, <1>7, <1>8, <1>9, <1>10, <1>11
     DEF Next, Environment, FolderStep, Terminated

(* Phase 2 of prove-boot implements the ordered fold, for any number of    *)
(* workers and chunks and all faults: it folds chunk after chunk, ends     *)
(* well only at the end or at a chunk a panic lost, and writes only what   *)
(* ended well.                                                             *)
THEOREM RefinesOrderedFold == Spec => ImplementsOrderedFold
<1>1. Init => Fold!Init
  BY DEF Init, Fold!Init, Running, Panicked
<1> QED
  BY <1>1, FoldStep, InvIsInvariant, FoldResultInvariant, PTL
     DEF Spec, ImplementsOrderedFold, Fold!Spec
=============================================================================
