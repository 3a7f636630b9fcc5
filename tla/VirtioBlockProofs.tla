------------------------- MODULE VirtioBlockProofs -------------------------
(***************************************************************************)
(* Proofs about VirtioBlock, for rings, index widths, descriptor tables    *)
(* and disks of any size that QueueAssumption admits.                      *)
(***************************************************************************)
EXTENDS VirtioBlock, NumberLemmas, SequenceTheorems, TLAPS

----------------------------------------------------------------------------
(* The inductive invariant *)

(* A stored register holds what was stored, or the last byte of it. *)
StoreLeaves(r) ==
  \/ regs[r] = Wanted[r]
  \/ /\ width = "word" /\ r # "QueueReady"
     /\ regs[r] = [Zero EXCEPT ![4] = Wanted[r][4]]

RegsInv ==
  /\ regs \in [Registers -> [1 .. 4 -> 0 .. 255]]
  /\ \A r \in Registers :
       IF r \in stored THEN StoreLeaves(r) ELSE regs[r] = Zero

(* What ring holds for the n-th request since the start *)
At(ring, n) == ring[n % QueueSize]

(* The ring indices are counters that never wrap, seen modulo IdxMod: u    *)
(* completions are collected, a requests carried out, v published.         *)
Counters(u, a, v) ==
  /\ u <= a /\ a <= v /\ v - u <= Cardinality(Heads)
  /\ lastUsed = u % IdxMod /\ lastAvail = a % IdxMod
  /\ usedIdx = a % IdxMod /\ availIdx = v % IdxMod

(* A request that can be carried out *)
Ready(h, rq, bf) ==
  /\ rq[h] \in Headers
  /\ bf[DataDesc(h, rq[h].linked)] \in Values \union {Idle}
  /\ rq[h].type = "out" => bf[DataDesc(h, rq[h].linked)] \in Values

(* The published requests that are not collected: their first descriptors  *)
(* differ, the used ring names those that are carried out in the same      *)
(* order, the others can be carried out.                                   *)
Window(u, a, v, ring, used, rq, bf) ==
  /\ \A n \in u .. v - 1 : At(ring, n) \in Heads /\ rq[At(ring, n)] \in Headers
  /\ \A m, n \in u .. v - 1 : At(ring, m) = At(ring, n) => m = n
  /\ \A n \in u .. a - 1 : /\ At(used, n) \in [id : Heads, len : {0, 1}]
                           /\ At(used, n).id = At(ring, n)
  /\ \A n \in a .. v - 1 : Ready(At(ring, n), rq, bf)

(* The request being submitted is none of these. *)
Submitting(u, v, ring, rq, bf, pc, f) ==
  pc \in {"filled", "listed"} =>
    /\ f \in Heads /\ Ready(f, rq, bf)
    /\ \A n \in u .. v - 1 : At(ring, n) # f
    /\ pc = "listed" => At(ring, v) = f

(* While process_queue runs, the driver does not move. *)
Serving == snap # Idle => snap = availIdx /\ queue_num = QueueSize

DiskInv ==
  /\ DiskTypeOK /\ RegsInv /\ Serving
  /\ \E u, a, v \in Nat :
       /\ Counters(u, a, v)
       /\ Window(u, a, v, availRing, usedRing, req, buf)
       /\ Submitting(u, v, availRing, req, buf, dpc, filling)

----------------------------------------------------------------------------
(* Rings *)

Put(ring, n, x) == [ring EXCEPT ![n % QueueSize] = x]

LEMMA Sizes ==
  /\ QueueSize \in Nat /\ QueueSize > 0
  /\ IdxMod \in Nat /\ IdxMod > 0 /\ IdxMod % QueueSize = 0
  /\ IsFiniteSet(Heads) /\ Cardinality(Heads) \in Nat
  /\ Cardinality(Heads) <= QueueSize /\ Cardinality(Heads) < IdxMod
  /\ Heads \subseteq Nat
<1>1. IsFiniteSet(Heads) /\ Cardinality(Heads) \in Nat
  BY QueueAssumption, FS_CardinalityType
<1> QED BY <1>1, QueueAssumption

LEMMA SlotOf ==
  ASSUME NEW n \in Nat
  PROVE  n % QueueSize \in Slots
<1>1. n \in Int
  OBVIOUS
<1> QED BY <1>1, Sizes, ModRange DEF Slots

(* The slot of an index is the slot of its counter. *)
LEMMA SlotOfIndex ==
  ASSUME NEW n \in Nat
  PROVE  (n % IdxMod) % QueueSize = n % QueueSize
<1>1. n \in Int
  OBVIOUS
<1> QED BY <1>1, Sizes, ModMod

LEMMA AtPut ==
  ASSUME NEW S, NEW ring \in [Slots -> S], NEW n \in Nat, NEW x
  PROVE  At(Put(ring, n, x), n) = x
<1>1. n % QueueSize \in Slots
  BY SlotOf
<1> QED BY <1>1 DEF At, Put

LEMMA AtPutOther ==
  ASSUME NEW S, NEW ring \in [Slots -> S], NEW m \in Nat, NEW n \in Nat, NEW x,
         m # n, m - n < QueueSize, n - m < QueueSize
  PROVE  At(Put(ring, n, x), m) = At(ring, m)
<1>1. m % QueueSize \in Slots /\ n % QueueSize \in Slots
  BY SlotOf
<1>2. m % QueueSize # n % QueueSize
  <2>1. m \in Int /\ n \in Int /\ (m < n \/ n < m)
    OBVIOUS
  <2>2. CASE m < n
    BY <2>1, <2>2, Sizes, ModDistinct
  <2>3. CASE n < m
    <3>1. n % QueueSize # m % QueueSize
      BY <2>1, <2>3, Sizes, ModDistinct
    <3> QED BY <3>1
  <2> QED BY <2>1, <2>2, <2>3
<1> DEFINE i == m % QueueSize
           j == n % QueueSize
<1>3. i \in Slots /\ j \in Slots /\ i # j
  BY <1>1, <1>2
<1> HIDE DEF i, j
<1>4. [ring EXCEPT ![j] = x][i] = ring[i]
  BY <1>3
<1> QED BY <1>4 DEF i, j, At, Put

(* The next index is the index of the next counter. *)
LEMMA NextIndex ==
  ASSUME NEW n \in Nat
  PROVE  wrapping_add(n % IdxMod) = (n + 1) % IdxMod
<1>1. n \in Int /\ 1 \in Int
  OBVIOUS
<1>2. ((n % IdxMod) + 1) % IdxMod = (n + 1) % IdxMod
  BY <1>1, Sizes, ModSum
<1> QED BY <1>2 DEF wrapping_add

LEMMA IndexType ==
  ASSUME NEW n \in Nat
  PROVE  n % IdxMod \in Indices
<1>1. n \in Int
  OBVIOUS
<1> QED BY <1>1, Sizes, ModRange DEF Indices

(* The distance of two indices is the distance of their counters. *)
LEMMA DistanceOf ==
  ASSUME NEW m \in Nat, NEW n \in Nat, m <= n, n - m <= Cardinality(Heads)
  PROVE  Distance(m % IdxMod, n % IdxMod) = n - m
<1>1. m \in Int /\ n \in Int /\ n - m < IdxMod
  BY Sizes
<1>2. ((n % IdxMod) - (m % IdxMod)) % IdxMod = n - m
  BY <1>1, Sizes, ModDistance
<1> QED BY <1>2 DEF Distance

(* Indices that agree come from the same counter. *)
LEMMA SameIndex ==
  ASSUME NEW m \in Nat, NEW n \in Nat, m <= n, n - m <= Cardinality(Heads),
         m % IdxMod = n % IdxMod
  PROVE  m = n
<1> SUFFICES ASSUME m # n PROVE FALSE
  OBVIOUS
<1>1. m \in Int /\ n \in Int /\ m < n /\ n - m < IdxMod
  BY Sizes
<1>2. m % IdxMod # n % IdxMod
  BY <1>1, Sizes, ModDistinct
<1> QED BY <1>2

(* The slot k places after an index *)
LEMMA SlotAfter ==
  ASSUME NEW m \in Nat, NEW k \in Nat
  PROVE  (((m % IdxMod) + k) % IdxMod) % QueueSize = (m + k) % QueueSize
<1>1. m \in Int /\ k \in Int /\ m + k \in Nat
  OBVIOUS
<1>2. ((m % IdxMod) + k) % IdxMod = (m + k) % IdxMod
  BY <1>1, Sizes, ModSum
<1>3. ((m + k) % IdxMod) % QueueSize = (m + k) % QueueSize
  BY <1>1, SlotOfIndex
<1> QED BY <1>2, <1>3, Zenon

----------------------------------------------------------------------------
(* Descriptors *)

LEMMA DescFacts ==
  ASSUME NEW h \in Heads, NEW l \in BOOLEAN
  PROVE  /\ DataDesc(h, l) \in h .. h + 2 /\ StatusDesc(h, l) \in h .. h + 2
         /\ h .. h + 2 \subseteq Descs
         /\ DataDesc(h, l) # StatusDesc(h, l)
<1>1. h \in Nat
  BY Sizes
<1> QED BY <1>1 DEF DataDesc, StatusDesc, Descs

LEMMA ChainsApart ==
  ASSUME NEW g \in Heads, NEW h \in Heads, g # h, NEW d \in g .. g + 2
  PROVE  d \notin h .. h + 2
<1>1. g \in Nat /\ h \in Nat /\ (g - h >= 3 \/ h - g >= 3)
  BY QueueAssumption
<1> QED BY <1>1

LEMMA HeaderFacts ==
  ASSUME NEW r \in Headers
  PROVE  /\ r.linked \in BOOLEAN /\ r.type \in {"in", "out", "other"}
         /\ r.sector \in 0 .. NumSectors
BY DiskAssumption DEF Headers

(* The published requests and one more need different descriptors. *)
LEMMA WindowFits ==
  ASSUME NEW u \in Nat, NEW v \in Nat, u <= v, NEW ring, NEW f \in Heads,
         \A n \in u .. v - 1 : At(ring, n) \in Heads /\ At(ring, n) # f,
         \A m, n \in u .. v - 1 : At(ring, m) = At(ring, n) => m = n
  PROVE  v - u + 1 <= Cardinality(Heads)
<1> DEFINE S == u .. v - 1
           T == Heads \ {f}
           g == [n \in S |-> At(ring, n)]
<1>1. IsFiniteSet(T) /\ Cardinality(T) = Cardinality(Heads) - 1
  BY Sizes, FS_RemoveElement
<1>2. g \in Injection(S, T)
  BY DEF Injection, IsInjective
<1>3. Cardinality(S) = v - u
  <2>1. u \in Int /\ v - 1 \in Int
    OBVIOUS
  <2>2. Cardinality(S) = IF u > v - 1 THEN 0 ELSE v - 1 - u + 1
    BY <2>1, FS_Interval
  <2> QED BY <2>2
<1> HIDE DEF S, T, g
<1>4. Cardinality(S) <= Cardinality(T)
  BY <1>1, <1>2, FS_Injection
<1> QED BY <1>1, <1>3, <1>4, Sizes

----------------------------------------------------------------------------
(* Registers *)

Word4 == [1 .. 4 -> 0 .. 255]

LEMMA WantedTypes ==
  Zero \in Word4 /\ \A r \in Registers : Wanted[r] \in Word4
<1>1. QueueSize % 256 \in 0 .. 255 /\ QueueSize \div 256 \in 0 .. 255
  BY QueueAssumption
<1>2. <<QueueSize % 256, QueueSize \div 256, 0, 0>> \in Word4
  BY <1>1 DEF Word4
<1>3. <<1, 0, 0, 0>> \in Word4 /\ Zero \in Word4
  BY DEF Word4, Zero
<1>4. RingAddr \in Word4
  BY DiskAssumption DEF Word4
<1> DEFINE n == <<QueueSize % 256, QueueSize \div 256, 0, 0>>
<1>5. /\ Wanted["QueueNum"] = n /\ Wanted["QueueReady"] = <<1, 0, 0, 0>>
      /\ Wanted["QueueAddr"] = RingAddr
  BY DEF Wanted
<1>6. n \in Word4
  BY <1>2
<1> HIDE DEF n
<1> QED BY <1>3, <1>4, <1>5, <1>6, Zenon DEF Registers

LEMMA Written ==
  ASSUME NEW r \in Registers, NEW word \in Word4, NEW i \in 1 .. 4, NEW b \in 0 .. 255
  PROVE  write_u8(r, word, i, b) \in Word4
BY WantedTypes DEF write_u8, read_u32, Word4

LEMMA WordStored ==
  ASSUME NEW r \in Registers, regs[r] \in Word4, NEW w \in Word4
  PROVE  mmio_store_word(r, w) =
           IF r = "QueueReady" THEN w ELSE [Zero EXCEPT ![4] = w[4]]
<1>1. CASE r # "QueueReady"
  BY <1>1 DEF mmio_store_word, write_u8, read_u32
<1>2. CASE r = "QueueReady"
  <2> DEFINE p == regs[r]
             q == [[[[p EXCEPT ![1] = w[1]] EXCEPT ![2] = w[2]]
                      EXCEPT ![3] = w[3]] EXCEPT ![4] = w[4]]
  <2>1. mmio_store_word(r, w) = q
    BY <1>2, Zenon DEF mmio_store_word, write_u8, read_u32
  <2>2. p \in Word4
    OBVIOUS
  <2> HIDE DEF p
  <2>3. q = w
    <3>1. q \in Word4
      BY <2>2 DEF Word4
    <3>2. \A i \in 1 .. 4 : i = 1 \/ i = 2 \/ i = 3 \/ i = 4
      OBVIOUS
    <3>3. \A i \in 1 .. 4 : q[i] = w[i]
      BY <2>2, <3>2 DEF Word4
    <3> QED BY <3>1, <3>3 DEF Word4
  <2> QED BY <1>2, <2>1, <2>3
<1> QED BY <1>1, <1>2

LEMMA LastByteType ==
  ASSUME NEW w \in Word4
  PROVE  [Zero EXCEPT ![4] = w[4]] \in Word4
BY WantedTypes DEF Word4

LEMMA StoresStep ==
  ASSUME RegsInv, width \in {"byte", "word"}, NEW r \in Registers, DriverStores(r)
  PROVE  RegsInv'
<1>1. regs \in [Registers -> Word4] /\ regs[r] = Zero
  BY DEF RegsInv, Word4, DriverStores
<1>2. /\ stored' = stored \union {r} /\ width' = width
  BY DEF DriverStores
<1>3. Wanted[r] \in Word4 /\ Zero \in Word4
  BY WantedTypes
<1>4. \E x \in Word4 : /\ regs' = [regs EXCEPT ![r] = x]
                       /\ \/ x = Wanted[r]
                          \/ /\ width = "word" /\ r # "QueueReady"
                             /\ x = [Zero EXCEPT ![4] = Wanted[r][4]]
  <2>1. CASE width = "word" /\ regs' = [regs EXCEPT ![r] = mmio_store_word(r, Wanted[r])]
    <3>1. mmio_store_word(r, Wanted[r]) =
            IF r = "QueueReady" THEN Wanted[r] ELSE [Zero EXCEPT ![4] = Wanted[r][4]]
      BY <1>1, <1>3, WordStored
    <3>2. [Zero EXCEPT ![4] = Wanted[r][4]] \in Word4
      BY <1>3, LastByteType
    <3> DEFINE y == [Zero EXCEPT ![4] = Wanted[r][4]]
               z == Wanted[r]
               x == mmio_store_word(r, z)
    <3>3. x = (IF r = "QueueReady" THEN z ELSE y) /\ y \in Word4 /\ z \in Word4
      BY <1>3, <3>1, <3>2
    <3>4. regs' = [regs EXCEPT ![r] = x]
      BY <2>1
    <3> HIDE DEF x, y, z
    <3>5. x \in Word4 /\ (x = z \/ (r # "QueueReady" /\ x = y))
      BY <3>3
    <3> QED BY <2>1, <3>4, <3>5 DEF y, z
  <2>2. CASE width = "byte"
    <3>1. PICK i \in 1 .. 4 :
            /\ Wanted[r] = [Zero EXCEPT ![i] = Wanted[r][i]]
            /\ regs' = [regs EXCEPT ![r] = write_u8(r, regs[r], i, Wanted[r][i])]
      BY <2>2 DEF DriverStores
    <3>2. write_u8(r, regs[r], i, Wanted[r][i]) = [Zero EXCEPT ![i] = Wanted[r][i]]
      BY <1>1 DEF write_u8, read_u32
    <3>3. regs' = [regs EXCEPT ![r] = Wanted[r]]
      BY <3>1, <3>2, Zenon
    <3> QED BY <1>3, <3>3
  <2> QED BY <2>1, <2>2 DEF DriverStores
<1>5. PICK x \in Word4 : /\ regs' = [regs EXCEPT ![r] = x]
                         /\ \/ x = Wanted[r]
                            \/ /\ width = "word" /\ r # "QueueReady"
                               /\ x = [Zero EXCEPT ![4] = Wanted[r][4]]
  BY <1>4
<1>6. regs' \in [Registers -> Word4] /\ regs'[r] = x
      /\ \A s \in Registers : s # r => regs'[s] = regs[s]
  BY <1>1, <1>5
<1>7. ASSUME NEW s \in Registers
      PROVE  IF s \in stored' THEN StoreLeaves(s)' ELSE regs'[s] = Zero
  <2>1. CASE s = r
    BY <1>2, <1>5, <1>6, <2>1 DEF StoreLeaves
  <2>2. CASE s # r
    BY <1>2, <1>6, <2>2 DEF RegsInv, StoreLeaves
  <2> QED BY <2>1, <2>2
<1> QED BY <1>6, <1>7 DEF RegsInv, Word4

(* The ring size never reached the device, or it is right. *)
LEMMA QueueNum ==
  ASSUME RegsInv
  PROVE  queue_num \in {0, QueueSize}
<1> DEFINE w == regs["QueueNum"]
<1>1. w = Zero \/ w = Wanted["QueueNum"] \/ w = [Zero EXCEPT ![4] = Wanted["QueueNum"][4]]
  BY DEF RegsInv, StoreLeaves, Registers
<1>2. Wanted["QueueNum"] = <<QueueSize % 256, QueueSize \div 256, 0, 0>>
  BY DEF Wanted
<1>3. [Zero EXCEPT ![4] = Wanted["QueueNum"][4]] = Zero
  BY <1>2 DEF Zero
<1>4. w = Zero \/ w = <<QueueSize % 256, QueueSize \div 256, 0, 0>>
  BY <1>1, <1>2, <1>3, Zenon
<1> HIDE DEF w
<1>5. CASE w = Zero
  <2>1. w[1] = 0 /\ w[2] = 0 /\ w[3] = 0 /\ w[4] = 0
    BY <1>5 DEF Zero
  <2>2. Num(w) = 0
    BY <2>1 DEF Num
  <2> QED BY <2>2 DEF queue_num, w
<1>6. CASE w = <<QueueSize % 256, QueueSize \div 256, 0, 0>>
  <2>1. w[1] = QueueSize % 256 /\ w[2] = QueueSize \div 256 /\ w[3] = 0 /\ w[4] = 0
    BY <1>6
  <2>2. Num(w) = QueueSize
    <3>1. (QueueSize % 256) + 256 * (QueueSize \div 256) = QueueSize
      BY Sizes
    <3> QED BY <2>1, <3>1, Sizes DEF Num
  <2> QED BY <2>2 DEF queue_num, w
<1> QED BY <1>4, <1>5, <1>6

----------------------------------------------------------------------------
(* What keeps the window *)

Core(u, a, v) ==
  /\ Counters(u, a, v)
  /\ Window(u, a, v, availRing, usedRing, req, buf)
  /\ Submitting(u, v, availRing, req, buf, dpc, filling)

(* Only the chain of h is written. *)
OthersKept(h, rq, bf, rq2, bf2) ==
  /\ \A g \in Heads : g # h => rq2[g] = rq[g]
  /\ \A d \in Descs : d \notin h .. h + 2 => bf2[d] = bf[d]

LEMMA ChainKept ==
  ASSUME NEW rq, NEW bf, NEW rq2, NEW bf2, NEW h \in Heads, NEW g \in Heads, g # h,
         OthersKept(h, rq, bf, rq2, bf2), rq[g] \in Headers
  PROVE  /\ rq2[g] = rq[g]
         /\ bf2[DataDesc(g, rq[g].linked)] = bf[DataDesc(g, rq[g].linked)]
         /\ bf2[StatusDesc(g, rq[g].linked)] = bf[StatusDesc(g, rq[g].linked)]
<1> DEFINE l == rq[g].linked
<1>1. l \in BOOLEAN
  BY HeaderFacts
<1> HIDE DEF l
<1>2. DataDesc(g, l) \in g .. g + 2 /\ StatusDesc(g, l) \in g .. g + 2
      /\ g .. g + 2 \subseteq Descs
  BY <1>1, DescFacts
<1>3. DataDesc(g, l) \notin h .. h + 2 /\ StatusDesc(g, l) \notin h .. h + 2
  BY <1>2, ChainsApart
<1>4. rq2[g] = rq[g] /\ bf2[DataDesc(g, l)] = bf[DataDesc(g, l)]
      /\ bf2[StatusDesc(g, l)] = bf[StatusDesc(g, l)]
  BY <1>2, <1>3 DEF OthersKept
<1> QED BY <1>4 DEF l

LEMMA ReadyKept ==
  ASSUME NEW rq, NEW bf, NEW rq2, NEW bf2, NEW h \in Heads, NEW g \in Heads, g # h,
         OthersKept(h, rq, bf, rq2, bf2), Ready(g, rq, bf)
  PROVE  Ready(g, rq2, bf2)
<1>1. rq[g] \in Headers
  BY DEF Ready
<1>2. rq2[g] = rq[g] /\ bf2[DataDesc(g, rq[g].linked)] = bf[DataDesc(g, rq[g].linked)]
  BY <1>1, ChainKept
<1> QED BY <1>2, Zenon DEF Ready

(* The window is kept when a chain outside of it is written. *)
LEMMA WindowKept ==
  ASSUME NEW u \in Nat, NEW a \in Nat, NEW v \in Nat, u <= a, a <= v,
         NEW ring, NEW used, NEW rq, NEW bf, NEW ring2, NEW rq2, NEW bf2,
         NEW h \in Heads,
         Window(u, a, v, ring, used, rq, bf),
         OthersKept(h, rq, bf, rq2, bf2),
         \A n \in u .. v - 1 : At(ring, n) # h,
         \A n \in u .. v - 1 : At(ring2, n) = At(ring, n)
  PROVE  Window(u, a, v, ring2, used, rq2, bf2)
<1>1. ASSUME NEW n \in u .. v - 1
      PROVE  At(ring2, n) \in Heads /\ rq2[At(ring2, n)] \in Headers
  <2>1. At(ring, n) \in Heads /\ rq[At(ring, n)] \in Headers /\ At(ring, n) # h
    BY DEF Window
  <2>2. rq2[At(ring, n)] = rq[At(ring, n)]
    BY <2>1 DEF OthersKept
  <2> QED BY <2>1, <2>2
<1>2. ASSUME NEW n \in a .. v - 1 PROVE Ready(At(ring2, n), rq2, bf2)
  <2>1. n \in u .. v - 1
    OBVIOUS
  <2>2. At(ring, n) \in Heads /\ At(ring, n) # h /\ Ready(At(ring, n), rq, bf)
    BY <2>1 DEF Window
  <2>3. Ready(At(ring, n), rq2, bf2)
    BY <2>2, ReadyKept
  <2> QED BY <2>1, <2>3
<1>3. \A m, n \in u .. v - 1 : At(ring2, m) = At(ring2, n) => m = n
  BY DEF Window
<1>4. ASSUME NEW n \in u .. a - 1
      PROVE  At(used, n) \in [id : Heads, len : {0, 1}] /\ At(used, n).id = At(ring2, n)
  <2>1. n \in u .. v - 1
    OBVIOUS
  <2> QED BY <2>1 DEF Window
<1> QED BY <1>1, <1>2, <1>3, <1>4 DEF Window

(* The driver's view of the window is the window. *)
LEMMA LiveIsWindow ==
  ASSUME NEW u \in Nat, NEW a \in Nat, NEW v \in Nat, Counters(u, a, v)
  PROVE  Live = {At(availRing, n) : n \in u .. v - 1}
<1>1. Distance(lastUsed, availIdx) = v - u
  <2>1. lastUsed = u % IdxMod /\ availIdx = v % IdxMod
        /\ u <= v /\ v - u <= Cardinality(Heads)
    BY DEF Counters
  <2> QED BY <2>1, DistanceOf
<1>2. ASSUME NEW k \in 0 .. v - u - 1
      PROVE  availRing[((lastUsed + k) % IdxMod) % QueueSize] = At(availRing, u + k)
  <2>1. (((u % IdxMod) + k) % IdxMod) % QueueSize = (u + k) % QueueSize
    <3>1. k \in Nat
      OBVIOUS
    <3> QED BY <3>1, SlotAfter
  <2>2. lastUsed = u % IdxMod
    BY DEF Counters
  <2> QED BY <2>1, <2>2, Zenon DEF At
<1>3. Live = {availRing[((lastUsed + k) % IdxMod) % QueueSize] : k \in 0 .. v - u - 1}
  BY <1>1, Zenon DEF Live
<1> DEFINE F(k) == availRing[((lastUsed + k) % IdxMod) % QueueSize]
           G(n) == At(availRing, n)
<1>4. Live = {F(k) : k \in 0 .. v - u - 1} /\ \A k \in 0 .. v - u - 1 : F(k) = G(u + k)
  BY <1>2, <1>3
<1> HIDE DEF F, G
<1>5. {F(k) : k \in 0 .. v - u - 1} = {G(n) : n \in u .. v - 1}
  <2>1. ASSUME NEW k \in 0 .. v - u - 1 PROVE F(k) \in {G(n) : n \in u .. v - 1}
    <3>1. u + k \in u .. v - 1
      OBVIOUS
    <3> QED BY <1>4, <3>1
  <2>2. ASSUME NEW n \in u .. v - 1 PROVE G(n) \in {F(k) : k \in 0 .. v - u - 1}
    <3>1. n - u \in 0 .. v - u - 1 /\ u + (n - u) = n
      OBVIOUS
    <3>2. F(n - u) = G(n)
      BY <1>4, <3>1
    <3> QED BY <3>1, <3>2
  <2> QED BY <2>1, <2>2
<1> QED BY <1>4, <1>5 DEF G

----------------------------------------------------------------------------
(* The steps that move the window *)

LEMMA FillsCore ==
  ASSUME DiskTypeOK, NEW u \in Nat, NEW a \in Nat, NEW v \in Nat, Core(u, a, v),
         DriverFills
  PROVE  /\ Core(u, a, v)' /\ (req' \in [Heads -> Headers \union {Idle}])
         /\ buf' \in [Descs -> Values \union {"none", "ok", "ioerr", Idle}]
         /\ filling' \in Heads
         /\ OthersKept(filling', req, buf, req', buf')
         /\ \A n \in u .. v - 1 : At(availRing, n) # filling'
<1>1. PICK h \in Heads, r \in Headers, x \in Values \union {Idle} :
        /\ h \notin Live
        /\ (r.type = "out") = (x \in Values)
        /\ filling' = h
        /\ req' = [req EXCEPT ![h] = r]
        /\ buf' = [buf EXCEPT ![DataDesc(h, r.linked)] = x,
                              ![StatusDesc(h, r.linked)] = "none"]
  BY DEF DriverFills
<1>2. Live = {At(availRing, n) : n \in u .. v - 1}
  BY LiveIsWindow DEF Core
<1>3. \A n \in u .. v - 1 : At(availRing, n) # h
  BY <1>1, <1>2
<1> DEFINE d == DataDesc(h, r.linked)
           s == StatusDesc(h, r.linked)
<1>4. d \in h .. h + 2 /\ s \in h .. h + 2 /\ h .. h + 2 \subseteq Descs /\ d # s
  <2>1. r.linked \in BOOLEAN
    BY HeaderFacts
  <2> QED BY <2>1, DescFacts
<1>5. buf' = [buf EXCEPT ![d] = x, ![s] = "none"]
  BY <1>1
<1> HIDE DEF d, s
<1>6. req \in [Heads -> Headers \union {Idle}]
      /\ buf \in [Descs -> Values \union {"none", "ok", "ioerr", Idle}]
  BY DEF DiskTypeOK
<1>7. req' \in [Heads -> Headers \union {Idle}] /\ req'[h] = r
      /\ \A g \in Heads : g # h => req'[g] = req[g]
  BY <1>1, <1>6
<1>8. /\ buf' \in [Descs -> Values \union {"none", "ok", "ioerr", Idle}]
      /\ buf'[d] = x /\ \A e \in Descs : e \notin h .. h + 2 => buf'[e] = buf[e]
  BY <1>4, <1>5, <1>6
<1>9. OthersKept(h, req, buf, req', buf')
  BY <1>7, <1>8 DEF OthersKept
<1>10. Ready(h, req', buf')
  <2>1. buf'[DataDesc(h, req'[h].linked)] = x
    BY <1>7, <1>8 DEF d
  <2> QED BY <1>1, <1>7, <2>1 DEF Ready
<1>11. /\ availRing' = availRing /\ usedRing' = usedRing /\ dpc' = "filled"
       /\ availIdx' = availIdx /\ usedIdx' = usedIdx /\ lastUsed' = lastUsed
       /\ lastAvail' = lastAvail
  BY DEF DriverFills
<1>12. Window(u, a, v, availRing, usedRing, req', buf')
  <2>1. Window(u, a, v, availRing, usedRing, req, buf) /\ u <= a /\ a <= v
    BY DEF Core, Counters
  <2> QED BY <1>3, <1>9, <2>1, WindowKept
<1>13. Submitting(u, v, availRing, req', buf', dpc', filling')
  BY <1>1, <1>3, <1>10, <1>11 DEF Submitting
<1>14. Counters(u, a, v)'
  BY <1>11 DEF Core, Counters
<1> QED BY <1>1, <1>3, <1>7, <1>8, <1>9, <1>11, <1>12, <1>13, <1>14 DEF Core

LEMMA ListsCore ==
  ASSUME DiskTypeOK, NEW u \in Nat, NEW a \in Nat, NEW v \in Nat, Core(u, a, v),
         DriverLists
  PROVE  /\ Core(u, a, v)' /\ availRing' \in [Slots -> Heads \union {Idle}]
         /\ \A n \in u .. v - 1 : At(availRing', n) = At(availRing, n)
<1>1. /\ dpc = "filled" /\ dpc' = "listed" /\ filling' = filling
      /\ usedRing' = usedRing /\ req' = req /\ buf' = buf
      /\ availIdx' = availIdx /\ usedIdx' = usedIdx /\ lastUsed' = lastUsed
      /\ lastAvail' = lastAvail
      /\ availRing' = [availRing EXCEPT ![availIdx % QueueSize] = filling]
  BY DEF DriverLists
<1>2. /\ u <= a /\ a <= v /\ availIdx = v % IdxMod
      /\ Window(u, a, v, availRing, usedRing, req, buf)
      /\ filling \in Heads /\ Ready(filling, req, buf)
      /\ \A n \in u .. v - 1 : At(availRing, n) # filling
  BY <1>1 DEF Core, Counters, Submitting
<1>3. availRing' = Put(availRing, v, filling)
  <2>1. (v % IdxMod) % QueueSize = v % QueueSize
    BY SlotOfIndex
  <2> QED BY <1>1, <1>2, <2>1, Zenon DEF Put
<1>4. v - u + 1 <= Cardinality(Heads)
  <2>1. /\ u <= v
        /\ \A n \in u .. v - 1 : At(availRing, n) \in Heads /\ At(availRing, n) # filling
        /\ \A m, n \in u .. v - 1 : At(availRing, m) = At(availRing, n) => m = n
    BY <1>2 DEF Window
  <2> QED BY <1>2, <2>1, WindowFits
<1>5. availRing \in [Slots -> Heads \union {Idle}]
  BY DEF DiskTypeOK
<1>6. ASSUME NEW n \in u .. v - 1 PROVE At(availRing', n) = At(availRing, n)
  <2>1. n \in Nat /\ n # v /\ n - v < QueueSize /\ v - n < QueueSize
    BY <1>4, Sizes
  <2> QED BY <1>3, <1>5, <2>1, AtPutOther
<1>7. At(availRing', v) = filling
  BY <1>3, <1>5, AtPut
<1>8. availRing' \in [Slots -> Heads \union {Idle}]
  <2>1. v % QueueSize \in Slots
    BY SlotOf
  <2> QED BY <1>2, <1>3, <1>5, <2>1 DEF Put
<1>9. OthersKept(filling, req, buf, req, buf)
  BY DEF OthersKept
<1>10. Window(u, a, v, availRing', usedRing, req, buf)
  BY <1>2, <1>6, <1>9, WindowKept
<1>11. Submitting(u, v, availRing', req, buf, dpc', filling)
  BY <1>2, <1>6, <1>7 DEF Submitting
<1>12. Counters(u, a, v)'
  BY <1>1 DEF Core, Counters
<1> QED BY <1>1, <1>6, <1>8, <1>10, <1>11, <1>12 DEF Core

LEMMA PublishesCore ==
  ASSUME DiskTypeOK, NEW u \in Nat, NEW a \in Nat, NEW v \in Nat, Core(u, a, v),
         DriverPublishes
  PROVE  /\ Core(u, a, v + 1)' /\ At(availRing, v) = filling
         /\ filling \in Heads /\ Ready(filling, req, buf)
         /\ \A n \in u .. v - 1 : At(availRing, n) # filling
<1>1. /\ dpc = "listed" /\ dpc' = "run"
      /\ usedRing' = usedRing /\ req' = req /\ buf' = buf /\ availRing' = availRing
      /\ usedIdx' = usedIdx /\ lastUsed' = lastUsed /\ lastAvail' = lastAvail
      /\ availIdx' = wrapping_add(availIdx)
  BY DEF DriverPublishes
<1>2. /\ u <= a /\ a <= v /\ availIdx = v % IdxMod
      /\ Window(u, a, v, availRing, usedRing, req, buf)
      /\ filling \in Heads /\ Ready(filling, req, buf)
      /\ \A n \in u .. v - 1 : At(availRing, n) # filling
      /\ At(availRing, v) = filling
  BY <1>1 DEF Core, Counters, Submitting
<1>3. v - u + 1 <= Cardinality(Heads)
  <2>1. /\ u <= v
        /\ \A n \in u .. v - 1 : At(availRing, n) \in Heads /\ At(availRing, n) # filling
        /\ \A m, n \in u .. v - 1 : At(availRing, m) = At(availRing, n) => m = n
    BY <1>2 DEF Window
  <2> QED BY <1>2, <2>1, WindowFits
<1>4. availIdx' = (v + 1) % IdxMod
  BY <1>1, <1>2, NextIndex
<1>5. \A n \in u .. v + 1 - 1 : n = v \/ n \in u .. v - 1
  OBVIOUS
<1>6. \A n \in a .. v + 1 - 1 : n = v \/ n \in a .. v - 1
  OBVIOUS
<1>7. Window(u, a, v + 1, availRing, usedRing, req, buf)
  <2>1. \A n \in u .. v + 1 - 1 : At(availRing, n) \in Heads /\ req[At(availRing, n)] \in Headers
    BY <1>2, <1>5 DEF Window, Ready
  <2>2. \A m, n \in u .. v + 1 - 1 : At(availRing, m) = At(availRing, n) => m = n
    BY <1>2, <1>5 DEF Window
  <2>3. \A n \in a .. v + 1 - 1 : Ready(At(availRing, n), req, buf)
    BY <1>2, <1>6 DEF Window
  <2> QED BY <1>2, <2>1, <2>2, <2>3 DEF Window
<1>8. Submitting(u, v + 1, availRing, req, buf, dpc', filling')
  BY <1>1 DEF Submitting
<1>9. Counters(u, a, v + 1)'
  <2>1. u <= a /\ a <= v + 1 /\ v + 1 - u <= Cardinality(Heads)
    BY <1>2, <1>3, Sizes
  <2> QED BY <1>1, <1>4, <2>1 DEF Core, Counters
<1> QED BY <1>1, <1>2, <1>7, <1>8, <1>9 DEF Core

(* Collecting retires the oldest request of the window. *)
LEMMA CollectsCore ==
  ASSUME DiskTypeOK, NEW u \in Nat, NEW a \in Nat, NEW v \in Nat, Core(u, a, v),
         DriverCollects
  PROVE  /\ Core(u + 1, a, v)' /\ u < a /\ At(availRing, u) \in Heads
         /\ req' \in [Heads -> Headers \union {Idle}]
         /\ buf' \in [Descs -> Values \union {"none", "ok", "ioerr", Idle}]
         /\ availRing' \in [Slots -> Heads \union {Idle}]
         /\ usedRing' \in [Slots -> [id : Heads, len : {0, 1}] \union {Idle}]
         /\ OthersKept(At(availRing, u), req, buf, req', buf')
         /\ \A n \in u + 1 .. v - 1 : /\ At(availRing, n) # At(availRing, u)
                                      /\ At(availRing', n) = At(availRing, n)
         /\ \A n \in u + 1 .. a - 1 : At(usedRing', n) = At(usedRing, n)
<1>1. /\ u <= a /\ a <= v /\ v - u <= Cardinality(Heads) /\ lastUsed = u % IdxMod
      /\ usedIdx = a % IdxMod /\ lastAvail = a % IdxMod /\ availIdx = v % IdxMod
      /\ Window(u, a, v, availRing, usedRing, req, buf)
      /\ Submitting(u, v, availRing, req, buf, dpc, filling)
  BY DEF Core, Counters
<1>2. u < a
  <2>1. lastUsed # usedIdx
    BY DEF DriverCollects
  <2>2. u # a
    BY <1>1, <2>1
  <2> QED BY <1>1, <2>2
<1> DEFINE h == At(availRing, u)
<1>3. u \in u .. v - 1 /\ u \in u .. a - 1
  BY <1>1, <1>2
<1>4. h \in Heads /\ At(usedRing, u).id = h
  BY <1>1, <1>3 DEF Window
<1>5. lastUsed % QueueSize = u % QueueSize
  BY <1>1, SlotOfIndex
<1>6. usedRing[lastUsed % QueueSize].id = h
  BY <1>4, <1>5 DEF At
<1>7. /\ req' = [req EXCEPT ![h] = Idle]
      /\ buf' = [d \in Descs |-> IF d \in h .. h + 2 THEN Idle ELSE buf[d]]
      /\ availRing' = [s \in Slots |-> IF availRing[s] = h THEN Idle ELSE availRing[s]]
      /\ usedRing' = Put(usedRing, u, Idle)
  <2>1. /\ req' = [req EXCEPT ![usedRing[lastUsed % QueueSize].id] = Idle]
        /\ buf' = [d \in Descs |-> IF d \in usedRing[lastUsed % QueueSize].id
                                             .. usedRing[lastUsed % QueueSize].id + 2
                                   THEN Idle ELSE buf[d]]
        /\ availRing' = [s \in Slots |-> IF availRing[s] = usedRing[lastUsed % QueueSize].id
                                         THEN Idle ELSE availRing[s]]
        /\ usedRing' = [usedRing EXCEPT ![lastUsed % QueueSize] = Idle]
    BY DEF DriverCollects
  <2> QED BY <1>5, <1>6, <2>1 DEF Put
<1> HIDE DEF h
<1>8. /\ req \in [Heads -> Headers \union {Idle}]
      /\ buf \in [Descs -> Values \union {"none", "ok", "ioerr", Idle}]
      /\ availRing \in [Slots -> Heads \union {Idle}]
      /\ usedRing \in [Slots -> [id : Heads, len : {0, 1}] \union {Idle}]
  BY DEF DiskTypeOK
<1>9. /\ req' \in [Heads -> Headers \union {Idle}]
      /\ buf' \in [Descs -> Values \union {"none", "ok", "ioerr", Idle}]
      /\ availRing' \in [Slots -> Heads \union {Idle}]
  BY <1>4, <1>7, <1>8
<1>10. usedRing' \in [Slots -> [id : Heads, len : {0, 1}] \union {Idle}]
  <2>1. u % QueueSize \in Slots
    BY SlotOf
  <2> QED BY <1>7, <1>8, <2>1 DEF Put
<1>11. OthersKept(h, req, buf, req', buf')
  BY <1>4, <1>7, <1>8 DEF OthersKept
<1>12. ASSUME NEW n \in Nat, At(availRing, n) # h
       PROVE  At(availRing', n) = At(availRing, n)
  <2>1. n % QueueSize \in Slots
    BY SlotOf
  <2> QED BY <1>7, <1>12, <2>1 DEF At
<1>13. ASSUME NEW n \in u + 1 .. v - 1
       PROVE  At(availRing, n) # h /\ At(availRing', n) = At(availRing, n)
  <2>1. n \in u .. v - 1 /\ n # u /\ n \in Nat
    OBVIOUS
  <2>2. At(availRing, n) # h
    BY <1>1, <1>3, <2>1 DEF Window, h
  <2> QED BY <1>12, <2>1, <2>2
<1>14. ASSUME NEW n \in u + 1 .. a - 1 PROVE At(usedRing', n) = At(usedRing, n)
  <2>1. n \in Nat /\ n # u /\ n - u < QueueSize /\ u - n < QueueSize
    BY <1>1, Sizes
  <2> QED BY <1>7, <1>8, <2>1, AtPutOther
<1>15. Window(u + 1, a, v, availRing, usedRing, req, buf)
  BY <1>1 DEF Window
<1>16. Window(u + 1, a, v, availRing', usedRing, req', buf')
  <2>1. u + 1 \in Nat /\ u + 1 <= a
    BY <1>2
  <2> QED BY <1>1, <1>4, <1>11, <1>13, <1>15, <2>1, WindowKept
<1>17. Window(u + 1, a, v, availRing', usedRing', req', buf')
  BY <1>14, <1>16 DEF Window
<1>18. dpc' = dpc /\ filling' = filling
  BY DEF DriverCollects
<1>19. Submitting(u + 1, v, availRing', req', buf', dpc, filling)
  <2> SUFFICES ASSUME dpc \in {"filled", "listed"}
               PROVE  /\ filling \in Heads /\ Ready(filling, req', buf')
                      /\ \A n \in u + 1 .. v - 1 : At(availRing', n) # filling
                      /\ dpc = "listed" => At(availRing', v) = filling
    BY DEF Submitting
  <2>1. /\ filling \in Heads /\ Ready(filling, req, buf)
        /\ \A n \in u .. v - 1 : At(availRing, n) # filling
        /\ dpc = "listed" => At(availRing, v) = filling
    BY <1>1 DEF Submitting
  <2>2. filling # h
    BY <1>3, <2>1 DEF h
  <2>3. Ready(filling, req', buf')
    BY <1>4, <1>11, <2>1, <2>2, ReadyKept
  <2>4. \A n \in u + 1 .. v - 1 : At(availRing', n) # filling
    BY <1>13, <2>1
  <2>5. dpc = "listed" => At(availRing', v) = filling
    BY <1>12, <2>1, <2>2
  <2> QED BY <2>1, <2>3, <2>4, <2>5
<1>20. Counters(u + 1, a, v)'
  <2>1. lastUsed' = (u + 1) % IdxMod
    BY <1>1, NextIndex DEF DriverCollects
  <2>2. u + 1 <= a /\ v - (u + 1) <= Cardinality(Heads)
    BY <1>1, <1>2, Sizes
  <2>3. usedIdx' = usedIdx /\ lastAvail' = lastAvail /\ availIdx' = availIdx
    BY DEF DriverCollects
  <2> QED BY <1>1, <2>1, <2>2, <2>3 DEF Counters
<1> QED BY <1>2, <1>4, <1>9, <1>10, <1>11, <1>13, <1>14, <1>17, <1>18, <1>19, <1>20
        DEF Core, h

(* Serving moves the first request that is not carried out to the used     *)
(* ring.                                                                   *)
LEMMA ServesCore ==
  ASSUME DiskTypeOK, Serving,
         NEW u \in Nat, NEW a \in Nat, NEW v \in Nat, Core(u, a, v),
         ServeOne
  PROVE  LET h == At(availRing, a)
             d == DataDesc(h, req[h].linked)
             s == StatusDesc(h, req[h].linked)
             ok == succeeds(req[h])
             in == ok /\ req[h].type = "in"
         IN  /\ Core(u, a + 1, v)' /\ a < v /\ h \in Heads /\ Ready(h, req, buf)
             /\ buf' \in [Descs -> Values \union {"none", "ok", "ioerr", Idle}]
             /\ usedRing' \in [Slots -> [id : Heads, len : {0, 1}] \union {Idle}]
             /\ vdisk' \in [DiskSectors -> Values]
             /\ OthersKept(h, req, buf, req, buf')
             /\ At(usedRing', a) = [id |-> h, len |-> IF in THEN 1 ELSE 0]
             /\ \A n \in u .. a - 1 : At(usedRing', n) = At(usedRing, n)
             /\ \A n \in u .. v - 1 : n # a => At(availRing, n) # h
             /\ buf'[d] = IF in THEN vdisk[req[h].sector] ELSE buf[d]
             /\ buf'[s] = IF ok THEN "ok" ELSE "ioerr"
             /\ vdisk' = IF ok /\ req[h].type = "out"
                           THEN [vdisk EXCEPT ![req[h].sector] = buf[d]] ELSE vdisk
<1>1. /\ u <= a /\ a <= v /\ v - u <= Cardinality(Heads) /\ lastUsed = u % IdxMod
      /\ usedIdx = a % IdxMod /\ lastAvail = a % IdxMod /\ availIdx = v % IdxMod
      /\ Window(u, a, v, availRing, usedRing, req, buf)
      /\ Submitting(u, v, availRing, req, buf, dpc, filling)
  BY DEF Core, Counters
<1>2. queue_num = QueueSize /\ snap = availIdx /\ lastAvail # snap
  BY DEF Serving, ServeOne
<1>3. a < v
  <2>1. a # v
    BY <1>1, <1>2
  <2> QED BY <1>1, <2>1
<1> DEFINE h == At(availRing, a)
           r == req[h]
           d == DataDesc(h, r.linked)
           s == StatusDesc(h, r.linked)
           ok == succeeds(r)
           in == ok /\ r.type = "in"
           x == [id |-> h, len |-> IF in THEN 1 ELSE 0]
<1>4. a \in u .. v - 1 /\ a \in a .. v - 1
  BY <1>1, <1>3
<1>5. h \in Heads /\ Ready(h, req, buf) /\ r \in Headers
  BY <1>1, <1>4 DEF Window
<1>6. lastAvail % queue_num = a % QueueSize /\ usedIdx % queue_num = a % QueueSize
  <2>1. (a % IdxMod) % QueueSize = a % QueueSize
    BY SlotOfIndex
  <2> QED BY <1>1, <1>2, <2>1, Zenon
<1>7. availRing[lastAvail % queue_num] = h
  BY <1>6, Zenon DEF At
<1>8. /\ buf' = [buf EXCEPT ![d] = IF in THEN vdisk[r.sector] ELSE @,
                            ![s] = IF ok THEN "ok" ELSE "ioerr"]
      /\ vdisk' = IF ok /\ r.type = "out"
                    THEN [vdisk EXCEPT ![r.sector] = buf[d]] ELSE vdisk
      /\ usedRing' = Put(usedRing, a, x)
  <2> DEFINE g == availRing[lastAvail % queue_num]
  <2>1. /\ buf' = [buf EXCEPT
                     ![DataDesc(g, req[g].linked)] =
                        IF succeeds(req[g]) /\ req[g].type = "in"
                        THEN vdisk[req[g].sector] ELSE @,
                     ![StatusDesc(g, req[g].linked)] =
                        IF succeeds(req[g]) THEN "ok" ELSE "ioerr"]
        /\ vdisk' = IF succeeds(req[g]) /\ req[g].type = "out"
                      THEN [vdisk EXCEPT ![req[g].sector] =
                              buf[DataDesc(g, req[g].linked)]] ELSE vdisk
        /\ usedRing' = [usedRing EXCEPT ![usedIdx % queue_num] =
              [id |-> g, len |-> IF succeeds(req[g]) /\ req[g].type = "in" THEN 1 ELSE 0]]
    BY DEF ServeOne
  <2>2. g = h
    BY <1>7
  <2> HIDE DEF g, h
  <2> QED BY <1>6, <2>1, <2>2, Zenon DEF Put
<1>9. /\ d \in h .. h + 2 /\ s \in h .. h + 2 /\ h .. h + 2 \subseteq Descs /\ d # s
      /\ r.linked \in BOOLEAN /\ r.type \in {"in", "out", "other"}
      /\ r.sector \in 0 .. NumSectors
  <2>1. /\ r.linked \in BOOLEAN /\ r.type \in {"in", "out", "other"}
        /\ r.sector \in 0 .. NumSectors
    BY <1>5, HeaderFacts
  <2> HIDE DEF h
  <2> QED BY <1>5, <2>1, DescFacts
<1>10. ok => r.sector \in DiskSectors
  BY <1>9, DiskAssumption DEF succeeds, DiskSectors
<1>11. /\ buf[d] \in Values \union {Idle} /\ (r.type = "out" => buf[d] \in Values)
  BY <1>5 DEF Ready
<1>12. /\ buf \in [Descs -> Values \union {"none", "ok", "ioerr", Idle}]
       /\ usedRing \in [Slots -> [id : Heads, len : {0, 1}] \union {Idle}]
       /\ availRing \in [Slots -> Heads \union {Idle}]
       /\ vdisk \in [DiskSectors -> Values]
  BY DEF DiskTypeOK
<1> HIDE DEF h, r, d, s, ok
<1>13. vdisk' \in [DiskSectors -> Values]
  BY <1>8, <1>10, <1>11, <1>12
<1>14. /\ buf' \in [Descs -> Values \union {"none", "ok", "ioerr", Idle}]
       /\ buf'[d] = IF in THEN vdisk[r.sector] ELSE buf[d]
       /\ buf'[s] = IF ok THEN "ok" ELSE "ioerr"
       /\ \A e \in Descs : e \notin h .. h + 2 => buf'[e] = buf[e]
  <2>1. in => vdisk[r.sector] \in Values
    BY <1>10, <1>12
  <2> DEFINE y == IF in THEN vdisk[r.sector] ELSE buf[d]
             z == IF ok THEN "ok" ELSE "ioerr"
  <2>2. y \in Values \union {"none", "ok", "ioerr", Idle} /\ z \in {"ok", "ioerr"}
    BY <1>11, <2>1
  <2>3. buf' = [buf EXCEPT ![d] = y, ![s] = z]
    BY <1>8
  <2> HIDE DEF y, z, in
  <2>4. /\ buf' \in [Descs -> Values \union {"none", "ok", "ioerr", Idle}]
        /\ buf'[d] = y /\ buf'[s] = z
        /\ \A e \in Descs : e \notin h .. h + 2 => buf'[e] = buf[e]
    BY <1>9, <1>12, <2>2, <2>3
  <2> QED BY <2>4 DEF y, z
<1>15. OthersKept(h, req, buf, req, buf')
  BY <1>14 DEF OthersKept
<1>16. x \in [id : Heads, len : {0, 1}] /\ x.id = h
  BY <1>5
<1> HIDE DEF x
<1>17. usedRing' \in [Slots -> [id : Heads, len : {0, 1}] \union {Idle}]
  <2>1. a % QueueSize \in Slots
    BY SlotOf
  <2> QED BY <1>8, <1>12, <1>16, <2>1 DEF Put
<1>18. At(usedRing', a) = x
  BY <1>8, <1>12, AtPut
<1>19. ASSUME NEW n \in u .. a - 1 PROVE At(usedRing', n) = At(usedRing, n)
  <2>1. n \in Nat /\ n # a /\ n - a < QueueSize
    BY Sizes
  <2>2. a - n <= v - u /\ v < u + QueueSize + 1
    BY <1>1, Sizes
  <2>3. a - n < QueueSize
    BY <1>3, <2>2, Sizes
  <2> QED BY <1>8, <1>12, <2>1, <2>3, AtPutOther
<1>20. \A n \in u .. v - 1 : n # a => At(availRing, n) # h
  BY <1>1, <1>4 DEF Window, h
<1>21. Window(u, a + 1, v, availRing, usedRing', req, buf')
  <2>1. ASSUME NEW n \in a + 1 .. v - 1 PROVE Ready(At(availRing, n), req, buf')
    <3>1. n \in a .. v - 1 /\ n \in u .. v - 1 /\ n # a
      BY <1>1
    <3>2. Ready(At(availRing, n), req, buf) /\ At(availRing, n) \in Heads
          /\ At(availRing, n) # h
      BY <1>1, <1>20, <3>1 DEF Window
    <3> QED BY <1>5, <1>15, <3>2, ReadyKept
  <2>2. ASSUME NEW n \in u .. a + 1 - 1
        PROVE  /\ At(usedRing', n) \in [id : Heads, len : {0, 1}]
               /\ At(usedRing', n).id = At(availRing, n)
    <3>1. CASE n = a
      BY <1>16, <1>18, <3>1 DEF h
    <3>2. CASE n # a
      <4>1. n \in u .. a - 1
        BY <3>2
      <4> QED BY <1>1, <1>19, <4>1 DEF Window
    <3> QED BY <3>1, <3>2
  <2> QED BY <1>1, <2>1, <2>2 DEF Window
<1>22. dpc' = dpc /\ filling' = filling /\ availRing' = availRing /\ req' = req
       /\ availIdx' = availIdx /\ lastUsed' = lastUsed
  BY DEF ServeOne, guestVars
<1>23. Submitting(u, v, availRing, req, buf', dpc, filling)
  <2> SUFFICES ASSUME dpc \in {"filled", "listed"}
               PROVE  Ready(filling, req, buf')
    BY <1>1 DEF Submitting
  <2>1. /\ filling \in Heads /\ Ready(filling, req, buf) /\ filling # h
    BY <1>1, <1>4 DEF Submitting, h
  <2> QED BY <1>5, <1>15, <2>1, ReadyKept
<1>24. Counters(u, a + 1, v)'
  <2>1. usedIdx' = (a + 1) % IdxMod /\ lastAvail' = (a + 1) % IdxMod
    BY <1>1, NextIndex DEF ServeOne
  <2>2. u <= a + 1 /\ a + 1 <= v
    BY <1>1, <1>3
  <2> QED BY <1>1, <1>22, <2>1, <2>2 DEF Counters
<1>25. Core(u, a + 1, v)'
  BY <1>21, <1>22, <1>23, <1>24 DEF Core
<1> QED BY <1>3, <1>5, <1>8, <1>13, <1>14, <1>15, <1>17, <1>18, <1>19, <1>20, <1>25, Zenon
        DEF h, r, d, s, ok, x

----------------------------------------------------------------------------
(* The invariant *)

LEMMA DiskInvInit == DiskInit => DiskInv
<1> SUFFICES ASSUME DiskInit PROVE DiskInv
  OBVIOUS
<1>1. 0 \in Indices
  BY Sizes DEF Indices
<1>2. RegsInv
  BY WantedTypes DEF DiskInit, RegsInv, Word4
<1>3. DiskTypeOK
  BY <1>1, <1>2 DEF DiskInit, DiskTypeOK, RegsInv
<1>4. Serving
  BY DEF DiskInit, Serving
<1>5. Core(0, 0, 0)
  <2>1. 0 % IdxMod = 0
    BY Sizes
  <2>2. \A n \in 0 .. 0 - 1 : FALSE
    OBVIOUS
  <2>3. Counters(0, 0, 0)
    BY <2>1, Sizes DEF DiskInit, Counters
  <2>4. Window(0, 0, 0, availRing, usedRing, req, buf)
    BY <2>2 DEF Window
  <2>5. Submitting(0, 0, availRing, req, buf, dpc, filling)
    BY DEF DiskInit, Submitting
  <2> QED BY <2>3, <2>4, <2>5 DEF Core
<1> QED BY <1>2, <1>3, <1>4, <1>5 DEF DiskInv, Core

(* Every step of the device or the driver *)
LEMMA DiskInvStep ==
  ASSUME DiskInv, [DiskNext]_diskVars
  PROVE  DiskInv'
<1>1. DiskTypeOK /\ RegsInv /\ Serving
  BY DEF DiskInv
<1>2. PICK u \in Nat, a \in Nat, v \in Nat : Core(u, a, v)
  BY DEF DiskInv, Core
<1>3. ASSUME NEW u2 \in Nat, NEW a2 \in Nat, NEW v2 \in Nat, Core(u2, a2, v2)',
             DiskTypeOK', RegsInv', Serving'
      PROVE  DiskInv'
  BY <1>3 DEF DiskInv, Core
<1>4. ASSUME UNCHANGED <<lastUsed, lastAvail, usedIdx, availIdx, availRing, usedRing,
                         req, buf, dpc, filling>>
      PROVE  Core(u, a, v)'
  BY <1>2, <1>4 DEF Core, Counters
<1>5. ASSUME UNCHANGED <<regs, width, stored>> PROVE RegsInv'
  BY <1>1, <1>5 DEF RegsInv, StoreLeaves
<1>6. ASSUME NEW r \in Registers, DriverStores(r) PROVE DiskInv'
  <2>1. RegsInv'
    BY <1>1, <1>6, StoresStep DEF DiskTypeOK
  <2>2. DiskTypeOK'
    BY <1>1, <1>6, <2>1 DEF DriverStores, DiskTypeOK, RegsInv
  <2>3. Serving'
    BY <1>6 DEF DriverStores, Serving
  <2>4. Core(u, a, v)'
    <3>1. dpc' \notin {"filled", "listed"}
      BY <1>6 DEF DriverStores
    <3>2. Submitting(u, v, availRing, req, buf, dpc, filling)'
      BY <3>1 DEF Submitting
    <3>3. UNCHANGED <<lastUsed, lastAvail, usedIdx, availIdx, availRing, usedRing, req, buf>>
      BY <1>6 DEF DriverStores
    <3> QED BY <1>2, <3>2, <3>3 DEF Core, Counters
  <2> QED BY <1>3, <2>1, <2>2, <2>3, <2>4
<1>7. CASE DriverNotifies
  <2>1. DiskTypeOK' /\ Serving'
    BY <1>1, <1>7 DEF DriverNotifies, DiskTypeOK, Serving, registers, guestVars
  <2>2. RegsInv' /\ Core(u, a, v)'
    BY <1>4, <1>5, <1>7 DEF DriverNotifies, registers, guestVars
  <2> QED BY <1>3, <2>1, <2>2
<1>8. CASE DriverAcks
  <2>1. DiskTypeOK' /\ Serving'
    BY <1>1, <1>8 DEF DriverAcks, DiskTypeOK, Serving, registers
  <2>2. RegsInv' /\ Core(u, a, v)'
    BY <1>4, <1>5, <1>8 DEF DriverAcks, registers
  <2> QED BY <1>3, <2>1, <2>2
<1>9. CASE DriverFills
  <2>1. /\ Core(u, a, v)' /\ req' \in [Heads -> Headers \union {Idle}]
        /\ buf' \in [Descs -> Values \union {"none", "ok", "ioerr", Idle}]
        /\ filling' \in Heads
    BY <1>1, <1>2, <1>9, FillsCore
  <2>2. DiskTypeOK'
    BY <1>1, <1>9, <2>1 DEF DriverFills, DiskTypeOK, registers
  <2>3. Serving'
    BY <1>9 DEF DriverFills, Serving
  <2>4. RegsInv'
    BY <1>5, <1>9 DEF DriverFills, registers
  <2> QED BY <1>3, <2>1, <2>2, <2>3, <2>4
<1>10. CASE DriverLists
  <2>1. Core(u, a, v)' /\ availRing' \in [Slots -> Heads \union {Idle}]
    BY <1>1, <1>2, <1>10, ListsCore
  <2>2. DiskTypeOK'
    BY <1>1, <1>10, <2>1 DEF DriverLists, DiskTypeOK, registers
  <2>3. Serving'
    BY <1>10 DEF DriverLists, Serving
  <2>4. RegsInv'
    BY <1>5, <1>10 DEF DriverLists, registers
  <2> QED BY <1>3, <2>1, <2>2, <2>3, <2>4
<1>11. CASE DriverPublishes
  <2>1. Core(u, a, v + 1)' /\ v + 1 \in Nat
    BY <1>1, <1>2, <1>11, PublishesCore
  <2>2. availIdx' \in Indices
    BY <2>1, IndexType DEF Core, Counters
  <2>3. DiskTypeOK'
    BY <1>1, <1>11, <2>2 DEF DriverPublishes, DiskTypeOK, registers
  <2>4. Serving'
    BY <1>11 DEF DriverPublishes, Serving
  <2>5. RegsInv'
    BY <1>5, <1>11 DEF DriverPublishes, registers
  <2> QED BY <1>3, <2>1, <2>3, <2>4, <2>5
<1>12. CASE DriverCollects
  <2>1. /\ Core(u + 1, a, v)' /\ req' \in [Heads -> Headers \union {Idle}]
        /\ buf' \in [Descs -> Values \union {"none", "ok", "ioerr", Idle}]
        /\ availRing' \in [Slots -> Heads \union {Idle}]
        /\ usedRing' \in [Slots -> [id : Heads, len : {0, 1}] \union {Idle}]
    BY <1>1, <1>2, <1>12, CollectsCore
  <2>2. lastUsed' \in Indices /\ u + 1 \in Nat
    BY <2>1, IndexType DEF Core, Counters
  <2>3. DiskTypeOK'
    BY <1>1, <1>12, <2>1, <2>2 DEF DriverCollects, DiskTypeOK, registers
  <2>4. Serving'
    BY <1>12 DEF DriverCollects, Serving
  <2>5. RegsInv'
    BY <1>5, <1>12 DEF DriverCollects, registers
  <2> QED BY <1>3, <2>1, <2>2, <2>3, <2>4, <2>5
<1>13. CASE DriverReturns
  <2>1. DiskTypeOK' /\ Serving'
    BY <1>1, <1>13 DEF DriverReturns, DiskTypeOK, Serving, registers
  <2>2. RegsInv' /\ Core(u, a, v)'
    BY <1>4, <1>5, <1>13 DEF DriverReturns, registers
  <2> QED BY <1>3, <2>1, <2>2
<1>14. CASE Begin
  <2>1. DiskTypeOK'
    BY <1>1, <1>14 DEF Begin, DiskTypeOK, registers, guestVars
  <2>2. queue_num' = queue_num /\ availIdx' = availIdx
        /\ snap' \in {Idle, availIdx} /\ (snap' # Idle => queue_num # 0)
    BY <1>14 DEF Begin, registers, guestVars, queue_num
  <2>3. Serving'
    BY <1>1, <2>2, QueueNum DEF Serving
  <2>4. RegsInv' /\ Core(u, a, v)'
    BY <1>4, <1>5, <1>14 DEF Begin, registers, guestVars
  <2> QED BY <1>3, <2>1, <2>3, <2>4
<1>15. CASE ServeOne
  <2>1. /\ Core(u, a + 1, v)'
        /\ buf' \in [Descs -> Values \union {"none", "ok", "ioerr", Idle}]
        /\ usedRing' \in [Slots -> [id : Heads, len : {0, 1}] \union {Idle}]
        /\ vdisk' \in [DiskSectors -> Values]
    BY <1>1, <1>2, <1>15, ServesCore
  <2>2. usedIdx' \in Indices /\ lastAvail' \in Indices /\ a + 1 \in Nat
    BY <2>1, IndexType DEF Core, Counters
  <2>3. DiskTypeOK'
    BY <1>1, <1>15, <2>1, <2>2 DEF ServeOne, DiskTypeOK, registers, guestVars
  <2>4. Serving'
    BY <1>1, <1>15 DEF ServeOne, Serving, queue_num, registers, guestVars
  <2>5. RegsInv'
    BY <1>5, <1>15 DEF ServeOne, registers
  <2> QED BY <1>3, <2>1, <2>2, <2>3, <2>4, <2>5
<1>16. CASE End
  <2>1. DiskTypeOK' /\ Serving'
    BY <1>1, <1>16 DEF End, DiskTypeOK, Serving, registers, guestVars
  <2>2. RegsInv' /\ Core(u, a, v)'
    BY <1>4, <1>5, <1>16 DEF End, registers, guestVars
  <2> QED BY <1>3, <2>1, <2>2
<1>17. CASE UNCHANGED diskVars
  <2>1. DiskTypeOK' /\ Serving'
    BY <1>1, <1>17 DEF diskVars, DiskTypeOK, Serving, queue_num
  <2>2. RegsInv' /\ Core(u, a, v)'
    BY <1>4, <1>5, <1>17 DEF diskVars
  <2> QED BY <1>3, <2>1, <2>2
<1> QED BY <1>6, <1>7, <1>8, <1>9, <1>10, <1>11, <1>12, <1>13, <1>14, <1>15, <1>16, <1>17
        DEF DiskNext, Device, Driver

(* DiskInv is an invariant: the ring indices stay the remainders of three  *)
(* counters at most a ring apart, whatever the order of ticks and driver   *)
(* steps and however often the indices have wrapped.                       *)
THEOREM DiskInvIsInvariant == DiskSpec => []DiskInv
<1> QED BY DiskInvInit, DiskInvStep, PTL DEF DiskSpec

(* The device, the rings and the driver keep their types. *)
THEOREM DiskTypes == DiskSpec => []DiskTypeOK
<1>1. DiskInv => DiskTypeOK
  BY DEF DiskInv
<1> QED BY <1>1, DiskInvIsInvariant, PTL

(* A register holds what the guest stored, except that a word store to a   *)
(* register that cannot be read back leaves its last byte (write_u8).      *)
THEOREM StoresCorrect == DiskSpec => []StoresReachRegisters
<1>1. DiskInv => StoresReachRegisters
  BY DEF DiskInv, DiskTypeOK, RegsInv, StoreLeaves, StoresReachRegisters
<1> QED BY <1>1, DiskInvIsInvariant, PTL

(* A completion the driver has not collected is signalled, being handled,  *)
(* or behind an index that has just wrapped to zero.                       *)
THEOREM SignalsCorrect == DiskSpec => []SignalledUnlessWrapped
<1>1. DiskInit => SignalledUnlessWrapped
  BY DEF DiskInit, SignalledUnlessWrapped
<1>2. SignalledUnlessWrapped /\ [DiskNext]_diskVars => SignalledUnlessWrapped'
  <2> SUFFICES ASSUME SignalledUnlessWrapped, [DiskNext]_diskVars
               PROVE  SignalledUnlessWrapped'
    OBVIOUS
  <2>1. CASE Begin
    BY <2>1 DEF Begin, SignalledUnlessWrapped, guestVars
  <2>2. CASE ServeOne
    BY <2>2 DEF ServeOne, SignalledUnlessWrapped
  <2>3. CASE End
    BY <2>3 DEF End, SignalledUnlessWrapped, guestVars
  <2>4. CASE \E r \in Registers : DriverStores(r)
    BY <2>4 DEF DriverStores, SignalledUnlessWrapped
  <2>5. CASE DriverNotifies
    BY <2>5 DEF DriverNotifies, SignalledUnlessWrapped, guestVars
  <2>6. CASE DriverAcks \/ DriverReturns \/ DriverCollects
    BY <2>6 DEF DriverAcks, DriverReturns, DriverCollects, SignalledUnlessWrapped
  <2>7. CASE DriverFills \/ DriverLists \/ DriverPublishes
    BY <2>7 DEF DriverFills, DriverLists, DriverPublishes, SignalledUnlessWrapped
  <2>8. CASE UNCHANGED diskVars
    BY <2>8 DEF diskVars, SignalledUnlessWrapped
  <2> QED BY <2>1, <2>2, <2>3, <2>4, <2>5, <2>6, <2>7, <2>8 DEF DiskNext, Device, Driver
<1> QED BY <1>1, <1>2, PTL DEF DiskSpec

----------------------------------------------------------------------------
(* The block store that the rings implement *)

ByteVals == Values \union {"none", "ok", "ioerr", Idle}
ReqSet == [head : Heads, type : {"in", "out", "other"}, sector : 0 .. NumSectors,
           data : Values \union {Idle}]
DoneSet == [head : Heads, len : {0, 1}, ok : BOOLEAN, data : ByteVals]

ReqAt(h, rq, bf) ==
  [head |-> h, type |-> rq[h].type, sector |-> rq[h].sector,
   data |-> bf[DataDesc(h, rq[h].linked)]]

DoneAt(x, rq, bf) ==
  [head |-> x.id, len |-> x.len, ok |-> bf[StatusDesc(x.id, rq[x.id].linked)] = "ok",
   data |-> bf[DataDesc(x.id, rq[x.id].linked)]]

(* The requests and the completions, by their counters *)
Flight(a, v, ring, rq, bf) == [k \in 1 .. v - a |-> ReqAt(At(ring, a + k - 1), rq, bf)]
Done(u, a, used, rq, bf) == [k \in 1 .. a - u |-> DoneAt(At(used, u + k - 1), rq, bf)]

LEMMA HeadOf ==
  ASSUME NEW h, NEW x, NEW rq, NEW bf
  PROVE  ReqAt(h, rq, bf).head = h /\ DoneAt(x, rq, bf).head = x.id
BY DEF ReqAt, DoneAt

LEMMA SlotAt ==
  ASSUME NEW m \in Nat, NEW k \in Nat \ {0}, NEW ring
  PROVE  ring[(((m % IdxMod) + k - 1) % IdxMod) % QueueSize] = At(ring, m + k - 1)
<1>1. k - 1 \in Nat /\ m + (k - 1) = m + k - 1
  OBVIOUS
<1>2. (((m % IdxMod) + (k - 1)) % IdxMod) % QueueSize = (m + (k - 1)) % QueueSize
  BY <1>1, SlotAfter
<1>3. (m % IdxMod) + (k - 1) = (m % IdxMod) + k - 1
  <2>1. m % IdxMod \in Int
    BY Sizes
  <2>2. \A x \in Int : x + (k - 1) = x + k - 1
    OBVIOUS
  <2> QED BY <2>1, <2>2
<1> QED BY <1>1, <1>2, <1>3, Zenon DEF At

(* What the refinement mapping reads off the rings, in any state *)
LEMMA FlightRead ==
  ASSUME NEW a \in Nat, NEW v \in Nat, a <= v, v - a <= Cardinality(Heads),
         NEW ring, NEW rq, NEW bf
  PROVE  [k \in 1 .. Distance(a % IdxMod, v % IdxMod) |->
            LET h == ring[(((a % IdxMod) + k - 1) % IdxMod) % QueueSize]
            IN  [head |-> h, type |-> rq[h].type, sector |-> rq[h].sector,
                 data |-> bf[DataDesc(h, rq[h].linked)]]]
           = Flight(a, v, ring, rq, bf)
<1>1. Distance(a % IdxMod, v % IdxMod) = v - a
  BY DistanceOf
<1> DEFINE F(k) == ring[(((a % IdxMod) + k - 1) % IdxMod) % QueueSize]
           G(k) == At(ring, a + k - 1)
<1>2. ASSUME NEW k \in 1 .. v - a PROVE F(k) = G(k)
  <2>1. k \in Nat \ {0}
    OBVIOUS
  <2> QED BY <2>1, SlotAt
<1> HIDE DEF F, G
<1>3. [k \in 1 .. v - a |-> ReqAt(F(k), rq, bf)] = [k \in 1 .. v - a |-> ReqAt(G(k), rq, bf)]
  BY <1>2
<1> QED BY <1>1, <1>3 DEF F, G, ReqAt, Flight

LEMMA DoneRead ==
  ASSUME NEW u \in Nat, NEW a \in Nat, u <= a, a - u <= Cardinality(Heads),
         NEW used, NEW rq, NEW bf
  PROVE  [k \in 1 .. Distance(u % IdxMod, a % IdxMod) |->
            LET x == used[(((u % IdxMod) + k - 1) % IdxMod) % QueueSize]
                h == x.id
            IN  [head |-> h, len |-> x.len,
                 ok   |-> bf[StatusDesc(h, rq[h].linked)] = "ok",
                 data |-> bf[DataDesc(h, rq[h].linked)]]]
           = Done(u, a, used, rq, bf)
<1>1. Distance(u % IdxMod, a % IdxMod) = a - u
  BY DistanceOf
<1> DEFINE F(k) == used[(((u % IdxMod) + k - 1) % IdxMod) % QueueSize]
           G(k) == At(used, u + k - 1)
<1>2. ASSUME NEW k \in 1 .. a - u PROVE F(k) = G(k)
  <2>1. k \in Nat \ {0}
    OBVIOUS
  <2> QED BY <2>1, SlotAt
<1> HIDE DEF F, G
<1>3. [k \in 1 .. a - u |-> DoneAt(F(k), rq, bf)] = [k \in 1 .. a - u |-> DoneAt(G(k), rq, bf)]
  BY <1>2
<1> QED BY <1>1, <1>3 DEF F, G, DoneAt, Done

(* The mapped state *)
LEMMA Mapped ==
  ASSUME NEW u \in Nat, NEW a \in Nat, NEW v \in Nat, Core(u, a, v)
  PROVE  /\ InFlight = Flight(a, v, availRing, req, buf)
         /\ Completed = Done(u, a, usedRing, req, buf)
<1>1. /\ u <= a /\ a <= v /\ v - a <= Cardinality(Heads) /\ a - u <= Cardinality(Heads)
      /\ lastUsed = u % IdxMod /\ lastAvail = a % IdxMod
      /\ usedIdx = a % IdxMod /\ availIdx = v % IdxMod
  BY Sizes DEF Core, Counters
<1>2. InFlight = Flight(a, v, availRing, req, buf)
  BY <1>1, FlightRead DEF InFlight
<1>3. Completed = Done(u, a, usedRing, req, buf)
  BY <1>1, DoneRead DEF Completed
<1> QED BY <1>2, <1>3

LEMMA MappedNext ==
  ASSUME NEW u \in Nat, NEW a \in Nat, NEW v \in Nat, Core(u, a, v)'
  PROVE  /\ InFlight' = Flight(a, v, availRing', req', buf')
         /\ Completed' = Done(u, a, usedRing', req', buf')
<1>1. /\ u <= a /\ a <= v /\ v - a <= Cardinality(Heads) /\ a - u <= Cardinality(Heads)
      /\ lastUsed' = u % IdxMod /\ lastAvail' = a % IdxMod
      /\ usedIdx' = a % IdxMod /\ availIdx' = v % IdxMod
  BY Sizes DEF Core, Counters
<1>2. InFlight' = Flight(a, v, availRing', req', buf')
  BY <1>1, FlightRead DEF InFlight
<1>3. Completed' = Done(u, a, usedRing', req', buf')
  BY <1>1, DoneRead DEF Completed
<1> QED BY <1>2, <1>3

LEMMA IsAppend ==
  ASSUME NEW S, NEW s \in Seq(S), NEW t \in Seq(S), NEW x \in S,
         Len(t) = Len(s) + 1, \A k \in 1 .. Len(s) : t[k] = s[k], t[Len(s) + 1] = x
  PROVE  t = Append(s, x)
<1>1. /\ Append(s, x) \in Seq(S) /\ Len(Append(s, x)) = Len(s) + 1 /\ Len(s) \in Nat
      /\ \A k \in 1 .. Len(s) + 1 :
           Append(s, x)[k] = IF k = Len(s) + 1 THEN x ELSE s[k]
  OBVIOUS
<1>2. \A k \in 1 .. Len(s) + 1 : t[k] = Append(s, x)[k]
  BY <1>1
<1> QED BY <1>1, <1>2, SeqEqual

LEMMA IsTail ==
  ASSUME NEW S, NEW s \in Seq(S), NEW t \in Seq(S),
         Len(s) = Len(t) + 1, \A k \in 1 .. Len(t) : t[k] = s[k + 1]
  PROVE  t = Tail(s) /\ s # <<>> /\ Head(s) = s[1]
<1>1. Len(t) \in Nat /\ s # <<>>
  OBVIOUS
<1>2. Tail(s) \in Seq(S) /\ Len(Tail(s)) = Len(s) - 1 /\ Head(s) = s[1]
      /\ \A k \in 1 .. Len(s) - 1 : Tail(s)[k] = s[k + 1]
  BY <1>1
<1>3. Len(Tail(s)) = Len(t) /\ \A k \in 1 .. Len(t) : Tail(s)[k] = t[k]
  BY <1>1, <1>2
<1> QED BY <1>1, <1>2, <1>3, SeqEqual

LEMMA FlightFacts ==
  ASSUME NEW u \in Nat, NEW a \in Nat, NEW v \in Nat, u <= a, a <= v,
         NEW ring, NEW used, NEW rq, NEW bf,
         Window(u, a, v, ring, used, rq, bf)
  PROVE  /\ Flight(a, v, ring, rq, bf) \in Seq(ReqSet)
         /\ Len(Flight(a, v, ring, rq, bf)) = v - a
         /\ \A k \in 1 .. v - a :
              Flight(a, v, ring, rq, bf)[k] = ReqAt(At(ring, a + k - 1), rq, bf)
<1>1. ASSUME NEW k \in 1 .. v - a PROVE ReqAt(At(ring, a + k - 1), rq, bf) \in ReqSet
  <2> DEFINE h == At(ring, a + k - 1)
  <2>1. a + k - 1 \in a .. v - 1 /\ a + k - 1 \in u .. v - 1
    OBVIOUS
  <2>2. h \in Heads /\ Ready(h, rq, bf)
    BY <2>1 DEF Window
  <2> HIDE DEF h
  <2>3. rq[h] \in Headers /\ bf[DataDesc(h, rq[h].linked)] \in Values \union {Idle}
    BY <2>2 DEF Ready
  <2>4. rq[h].type \in {"in", "out", "other"} /\ rq[h].sector \in 0 .. NumSectors
    BY <2>3, HeaderFacts
  <2>5. ReqAt(h, rq, bf) \in ReqSet
    BY <2>2, <2>3, <2>4 DEF ReqAt, ReqSet
  <2> QED BY <2>5 DEF h
<1>2. v - a \in Nat
  OBVIOUS
<1> QED BY <1>1, <1>2 DEF Flight

LEMMA DoneFacts ==
  ASSUME NEW u \in Nat, NEW a \in Nat, NEW v \in Nat, u <= a, a <= v,
         NEW ring, NEW used, NEW rq, NEW bf \in [Descs -> ByteVals],
         Window(u, a, v, ring, used, rq, bf)
  PROVE  /\ Done(u, a, used, rq, bf) \in Seq(DoneSet)
         /\ Len(Done(u, a, used, rq, bf)) = a - u
         /\ \A k \in 1 .. a - u :
              Done(u, a, used, rq, bf)[k] = DoneAt(At(used, u + k - 1), rq, bf)
<1>1. ASSUME NEW k \in 1 .. a - u PROVE DoneAt(At(used, u + k - 1), rq, bf) \in DoneSet
  <2> DEFINE x == At(used, u + k - 1)
             h == At(ring, u + k - 1)
  <2>1. u + k - 1 \in u .. a - 1 /\ u + k - 1 \in u .. v - 1
    OBVIOUS
  <2>2. x \in [id : Heads, len : {0, 1}] /\ x.id = h /\ h \in Heads /\ rq[h] \in Headers
    BY <2>1 DEF Window
  <2> HIDE DEF x, h
  <2>3. rq[h].linked \in BOOLEAN
    BY <2>2, HeaderFacts
  <2>4. DataDesc(h, rq[h].linked) \in Descs
    BY <2>2, <2>3, DescFacts
  <2>5. bf[DataDesc(h, rq[h].linked)] \in ByteVals
    BY <2>4
  <2>6. DoneAt(x, rq, bf) \in DoneSet
    BY <2>2, <2>5 DEF DoneAt, DoneSet
  <2> QED BY <2>6 DEF x
<1>2. a - u \in Nat
  OBVIOUS
<1> QED BY <1>1, <1>2 DEF Done

(* Neither changes when a chain outside of the window is written. *)
LEMMA FlightKept ==
  ASSUME NEW a \in Nat, NEW v \in Nat, a <= v,
         NEW ring, NEW rq, NEW bf, NEW ring2, NEW rq2, NEW bf2, NEW h \in Heads,
         \A n \in a .. v - 1 : At(ring, n) \in Heads /\ rq[At(ring, n)] \in Headers,
         OthersKept(h, rq, bf, rq2, bf2),
         \A n \in a .. v - 1 : At(ring, n) # h,
         \A n \in a .. v - 1 : At(ring2, n) = At(ring, n)
  PROVE  Flight(a, v, ring2, rq2, bf2) = Flight(a, v, ring, rq, bf)
<1>1. ASSUME NEW k \in 1 .. v - a
      PROVE  ReqAt(At(ring2, a + k - 1), rq2, bf2) = ReqAt(At(ring, a + k - 1), rq, bf)
  <2> DEFINE g == At(ring, a + k - 1)
  <2>1. a + k - 1 \in a .. v - 1
    OBVIOUS
  <2>2. g \in Heads /\ rq[g] \in Headers /\ g # h /\ At(ring2, a + k - 1) = g
    BY <2>1
  <2> HIDE DEF g
  <2>3. rq2[g] = rq[g] /\ bf2[DataDesc(g, rq[g].linked)] = bf[DataDesc(g, rq[g].linked)]
    BY <2>2, ChainKept
  <2>4. ReqAt(g, rq2, bf2) = ReqAt(g, rq, bf)
    BY <2>3, Zenon DEF ReqAt
  <2> QED BY <2>2, <2>4, Zenon DEF g
<1> QED BY <1>1, Zenon DEF Flight

LEMMA DoneKept ==
  ASSUME NEW u \in Nat, NEW a \in Nat, NEW v \in Nat, u <= a, a <= v,
         NEW ring, NEW used, NEW rq, NEW bf, NEW used2, NEW rq2, NEW bf2,
         NEW h \in Heads,
         Window(u, a, v, ring, used, rq, bf),
         OthersKept(h, rq, bf, rq2, bf2),
         \A n \in u .. a - 1 : At(ring, n) # h,
         \A n \in u .. a - 1 : At(used2, n) = At(used, n)
  PROVE  Done(u, a, used2, rq2, bf2) = Done(u, a, used, rq, bf)
<1>1. ASSUME NEW k \in 1 .. a - u
      PROVE  DoneAt(At(used2, u + k - 1), rq2, bf2) = DoneAt(At(used, u + k - 1), rq, bf)
  <2> DEFINE x == At(used, u + k - 1)
             g == At(ring, u + k - 1)
  <2>1. u + k - 1 \in u .. a - 1 /\ u + k - 1 \in u .. v - 1
    OBVIOUS
  <2>2. g \in Heads /\ rq[g] \in Headers /\ g # h /\ x.id = g /\ At(used2, u + k - 1) = x
    BY <2>1 DEF Window
  <2> HIDE DEF g, x
  <2>3. /\ rq2[g] = rq[g] /\ bf2[DataDesc(g, rq[g].linked)] = bf[DataDesc(g, rq[g].linked)]
        /\ bf2[StatusDesc(g, rq[g].linked)] = bf[StatusDesc(g, rq[g].linked)]
    BY <2>2, ChainKept
  <2>4. DoneAt(x, rq2, bf2) = DoneAt(x, rq, bf)
    BY <2>2, <2>3, Zenon DEF DoneAt
  <2> QED BY <2>2, <2>4, Zenon DEF x
<1> QED BY <1>1, Zenon DEF Done

----------------------------------------------------------------------------
(* Each step is a step of the block store or changes nothing it sees. *)

LEMMA FillsStutters ==
  ASSUME DiskTypeOK, NEW u \in Nat, NEW a \in Nat, NEW v \in Nat, Core(u, a, v),
         DriverFills
  PROVE  InFlight' = InFlight /\ Completed' = Completed
<1>1. /\ Core(u, a, v)' /\ filling' \in Heads
      /\ OthersKept(filling', req, buf, req', buf')
      /\ \A n \in u .. v - 1 : At(availRing, n) # filling'
  BY FillsCore
<1>2. /\ u <= a /\ a <= v /\ Window(u, a, v, availRing, usedRing, req, buf)
      /\ \A n \in a .. v - 1 : n \in u .. v - 1
      /\ \A n \in u .. a - 1 : n \in u .. v - 1
  BY DEF Core, Counters
<1>3. availRing' = availRing /\ usedRing' = usedRing
  BY DEF DriverFills
<1>4. Flight(a, v, availRing, req', buf') = Flight(a, v, availRing, req, buf)
  <2>1. \A n \in a .. v - 1 : /\ At(availRing, n) \in Heads /\ At(availRing, n) # filling'
                              /\ req[At(availRing, n)] \in Headers
    BY <1>1, <1>2 DEF Window
  <2> QED BY <1>1, <1>2, <2>1, FlightKept
<1>5. Done(u, a, usedRing, req', buf') = Done(u, a, usedRing, req, buf)
  BY <1>1, <1>2, DoneKept
<1> QED BY <1>1, <1>3, <1>4, <1>5, Mapped, MappedNext

LEMMA ListsStutters ==
  ASSUME DiskTypeOK, NEW u \in Nat, NEW a \in Nat, NEW v \in Nat, Core(u, a, v),
         DriverLists
  PROVE  InFlight' = InFlight /\ Completed' = Completed
<1>1. /\ Core(u, a, v)' /\ \A n \in u .. v - 1 : At(availRing', n) = At(availRing, n)
  BY ListsCore
<1>2. usedRing' = usedRing /\ req' = req /\ buf' = buf
  BY DEF DriverLists
<1>3. u <= a /\ a <= v
  BY DEF Core, Counters
<1>4. ASSUME NEW k \in 1 .. v - a
      PROVE  ReqAt(At(availRing', a + k - 1), req, buf) = ReqAt(At(availRing, a + k - 1), req, buf)
  <2>1. a + k - 1 \in u .. v - 1
    BY <1>3
  <2> QED BY <1>1, <2>1
<1>5. Flight(a, v, availRing', req, buf) = Flight(a, v, availRing, req, buf)
  BY <1>4, Zenon DEF Flight
<1> QED BY <1>1, <1>2, <1>5, Mapped, MappedNext

LEMMA PublishesSubmits ==
  ASSUME DiskTypeOK, NEW u \in Nat, NEW a \in Nat, NEW v \in Nat, Core(u, a, v),
         DriverPublishes
  PROVE  Store!Submit
<1>1. /\ Core(u, a, v + 1)' /\ At(availRing, v) = filling
      /\ filling \in Heads /\ Ready(filling, req, buf) /\ v + 1 \in Nat
      /\ \A n \in u .. v - 1 : At(availRing, n) # filling
  BY PublishesCore
<1>2. /\ usedRing' = usedRing /\ req' = req /\ buf' = buf /\ availRing' = availRing
      /\ vdisk' = vdisk
  BY DEF DriverPublishes
<1>3. u <= a /\ a <= v /\ Window(u, a, v, availRing, usedRing, req, buf)
      /\ Window(u, a, v + 1, availRing, usedRing, req, buf)
  BY <1>1, <1>2 DEF Core, Counters
<1> DEFINE s == Flight(a, v, availRing, req, buf)
           t == Flight(a, v + 1, availRing, req, buf)
           x == ReqAt(filling, req, buf)
           c == Done(u, a, usedRing, req, buf)
<1>4. InFlight = s /\ Completed = c
  BY Mapped
<1>5. InFlight' = t /\ Completed' = c
  BY <1>1, <1>2, MappedNext
<1>6. /\ s \in Seq(ReqSet) /\ Len(s) = v - a
      /\ \A k \in 1 .. v - a : s[k] = ReqAt(At(availRing, a + k - 1), req, buf)
  BY <1>3, FlightFacts
<1>7. /\ t \in Seq(ReqSet) /\ Len(t) = v + 1 - a
      /\ \A k \in 1 .. v + 1 - a : t[k] = ReqAt(At(availRing, a + k - 1), req, buf)
  <2>1. a <= v + 1
    BY <1>3
  <2> QED BY <1>1, <1>3, <2>1, FlightFacts
<1>8. /\ c \in Seq(DoneSet) /\ Len(c) = a - u
      /\ \A k \in 1 .. a - u : c[k] = DoneAt(At(usedRing, u + k - 1), req, buf)
  <2>1. buf \in [Descs -> ByteVals]
    BY DEF DiskTypeOK, ByteVals
  <2> QED BY <1>3, <2>1, DoneFacts
<1> HIDE DEF s, t, c
<1>9. t = Append(s, x) /\ x \in ReqSet
  <2>1. v - a \in Nat /\ v + 1 - a = v - a + 1 /\ a + (v - a + 1) - 1 = v
    BY <1>3
  <2>2. v - a + 1 \in 1 .. v + 1 - a
    BY <2>1
  <2>3. t[v - a + 1] = x
    BY <1>1, <1>7, <2>1, <2>2
  <2>4. t[v - a + 1] \in ReqSet
    BY <1>7, <2>1, <2>2
  <2>5. \A k \in 1 .. v - a : t[k] = s[k]
    BY <1>6, <1>7, <2>1
  <2> QED BY <1>6, <1>7, <2>1, <2>3, <2>4, <2>5, IsAppend
<1>10. x.head \notin {s[i].head : i \in DOMAIN s} \union {c[i].head : i \in DOMAIN c}
  <2>1. x.head = filling
    BY DEF ReqAt
  <2>2. ASSUME NEW i \in DOMAIN s PROVE s[i].head # filling
    <3>1. i \in 1 .. v - a
      BY <1>6
    <3>2. a + i - 1 \in u .. v - 1
      BY <1>3, <3>1
    <3>3. s[i].head = At(availRing, a + i - 1)
      <4>1. s[i] = ReqAt(At(availRing, a + i - 1), req, buf)
        BY <1>6, <3>1
      <4> QED BY <4>1, HeadOf
    <3> QED BY <1>1, <3>2, <3>3
  <2>3. ASSUME NEW i \in DOMAIN c PROVE c[i].head # filling
    <3>1. i \in 1 .. a - u
      BY <1>8
    <3>2. u + i - 1 \in u .. v - 1 /\ u + i - 1 \in u .. a - 1
      BY <1>3, <3>1
    <3>3. c[i].head = At(usedRing, u + i - 1).id
      <4>1. c[i] = DoneAt(At(usedRing, u + i - 1), req, buf)
        BY <1>8, <3>1
      <4> QED BY <4>1, HeadOf
    <3>4. At(usedRing, u + i - 1).id = At(availRing, u + i - 1)
      BY <1>3, <3>2 DEF Window
    <3> QED BY <1>1, <3>2, <3>3, <3>4
  <2> QED BY <2>1, <2>2, <2>3
<1>11. x \in Store!Requests
  BY <1>9 DEF Store!Requests, ReqSet
<1>12. x.head \notin Store!Outstanding
  BY <1>4, <1>10 DEF Store!Outstanding
<1>13. InFlight' = Append(InFlight, x) /\ Completed' = Completed
  BY <1>4, <1>5, <1>9
<1> HIDE DEF x
<1> QED BY <1>2, <1>11, <1>12, <1>13 DEF Store!Submit

LEMMA ServesServes ==
  ASSUME DiskTypeOK, Serving,
         NEW u \in Nat, NEW a \in Nat, NEW v \in Nat, Core(u, a, v),
         ServeOne
  PROVE  Store!Serve
<1> DEFINE h == At(availRing, a)
           r == req[h]
           d == DataDesc(h, r.linked)
           sd == StatusDesc(h, r.linked)
           ok == succeeds(r)
           in == ok /\ r.type = "in"
<1>1. /\ Core(u, a + 1, v)' /\ a < v /\ h \in Heads /\ Ready(h, req, buf)
      /\ buf' \in [Descs -> ByteVals]
      /\ OthersKept(h, req, buf, req, buf')
      /\ At(usedRing', a) = [id |-> h, len |-> IF in THEN 1 ELSE 0]
      /\ \A n \in u .. a - 1 : At(usedRing', n) = At(usedRing, n)
      /\ \A n \in u .. v - 1 : n # a => At(availRing, n) # h
      /\ buf'[d] = IF in THEN vdisk[r.sector] ELSE buf[d]
      /\ buf'[sd] = IF ok THEN "ok" ELSE "ioerr"
      /\ vdisk' = IF ok /\ r.type = "out"
                    THEN [vdisk EXCEPT ![r.sector] = buf[d]] ELSE vdisk
  BY ServesCore DEF ByteVals
<1>2. availRing' = availRing /\ req' = req
  BY DEF ServeOne, guestVars
<1>3. /\ u <= a /\ a <= v /\ a + 1 \in Nat /\ u <= a + 1 /\ a + 1 <= v
      /\ Window(u, a, v, availRing, usedRing, req, buf)
      /\ Window(u, a + 1, v, availRing, usedRing', req, buf')
  BY <1>1, <1>2 DEF Core, Counters
<1> DEFINE s == Flight(a, v, availRing, req, buf)
           t == Flight(a + 1, v, availRing, req, buf')
           c == Done(u, a, usedRing, req, buf)
           e == Done(u, a + 1, usedRing', req, buf')
           y == [id |-> h, len |-> IF in THEN 1 ELSE 0]
<1>4. InFlight = s /\ Completed = c
  BY Mapped
<1>5. InFlight' = t /\ Completed' = e
  BY <1>1, <1>2, <1>3, MappedNext
<1>6. /\ s \in Seq(ReqSet) /\ Len(s) = v - a
      /\ \A k \in 1 .. v - a : s[k] = ReqAt(At(availRing, a + k - 1), req, buf)
  BY <1>3, FlightFacts
<1>7. /\ t \in Seq(ReqSet) /\ Len(t) = v - (a + 1)
      /\ \A k \in 1 .. v - (a + 1) : t[k] = ReqAt(At(availRing, a + 1 + k - 1), req, buf')
  BY <1>3, FlightFacts
<1>8. /\ c \in Seq(DoneSet) /\ Len(c) = a - u
      /\ \A k \in 1 .. a - u : c[k] = DoneAt(At(usedRing, u + k - 1), req, buf)
  <2>1. buf \in [Descs -> ByteVals]
    BY DEF DiskTypeOK, ByteVals
  <2> QED BY <1>3, <2>1, DoneFacts
<1>9. /\ e \in Seq(DoneSet) /\ Len(e) = a + 1 - u
      /\ \A k \in 1 .. a + 1 - u : e[k] = DoneAt(At(usedRing', u + k - 1), req, buf')
  BY <1>1, <1>3, DoneFacts
<1>10. Flight(a + 1, v, availRing, req, buf') = Flight(a + 1, v, availRing, req, buf)
  <2>1. ASSUME NEW n \in a + 1 .. v - 1
        PROVE  /\ At(availRing, n) \in Heads /\ At(availRing, n) # h
               /\ req[At(availRing, n)] \in Headers
    <3>1. n \in u .. v - 1 /\ n # a
      BY <1>3
    <3> QED BY <1>1, <1>3, <3>1 DEF Window
  <2> HIDE DEF h
  <2> QED BY <1>1, <1>3, <2>1, FlightKept
<1>11. Done(u, a, usedRing', req, buf') = Done(u, a, usedRing, req, buf)
  <2>1. ASSUME NEW n \in u .. a - 1 PROVE At(availRing, n) # h
    <3>1. n \in u .. v - 1 /\ n # a
      BY <1>3
    <3> QED BY <1>1, <3>1
  <2> HIDE DEF h
  <2> QED BY <1>1, <1>3, <2>1, DoneKept
<1>12. t = Tail(s) /\ s # <<>> /\ Head(s) = ReqAt(h, req, buf)
  <2>1. t = Flight(a + 1, v, availRing, req, buf)
    BY <1>10
  <2>2. ASSUME NEW k \in 1 .. Len(t) PROVE t[k] = s[k + 1]
    <3>1. k \in 1 .. v - (a + 1) /\ k + 1 \in 1 .. v - a /\ a + 1 + k - 1 = a + (k + 1) - 1
      BY <1>3, <1>7
    <3>2. Flight(a + 1, v, availRing, req, buf)[k] = ReqAt(At(availRing, a + 1 + k - 1), req, buf)
      BY <3>1, Zenon DEF Flight
    <3>3. s[k + 1] = ReqAt(At(availRing, a + (k + 1) - 1), req, buf)
      BY <1>6, <3>1
    <3> QED BY <2>1, <3>1, <3>2, <3>3, Zenon
  <2>3. Len(s) = Len(t) + 1 /\ 1 \in 1 .. v - a /\ a + 1 - 1 = a
    BY <1>1, <1>3, <1>6, <1>7
  <2>4. s[1] = ReqAt(h, req, buf)
    BY <1>6, <2>3
  <2> HIDE DEF s, t, h
  <2> QED BY <1>6, <1>7, <2>2, <2>3, <2>4, IsTail
<1>13. e = Append(c, DoneAt(y, req, buf'))
  <2>1. a + 1 - u = a - u + 1 /\ a - u \in Nat /\ u + (a - u + 1) - 1 = a
        /\ a - u + 1 \in 1 .. a + 1 - u
    BY <1>3
  <2>2. e[a - u + 1] = DoneAt(y, req, buf')
    <3>1. e[a - u + 1] = DoneAt(At(usedRing', u + (a - u + 1) - 1), req, buf')
      BY <1>9, <2>1
    <3> QED BY <1>1, <2>1, <3>1, Zenon
  <2>3. e[a - u + 1] \in DoneSet
    BY <1>9, <2>1
  <2>4. ASSUME NEW k \in 1 .. a - u PROVE e[k] = c[k]
    <3>1. k \in 1 .. a + 1 - u
      BY <2>1
    <3>2. e[k] = DoneAt(At(usedRing', u + k - 1), req, buf')
      BY <1>9, <3>1
    <3>3. Done(u, a, usedRing', req, buf')[k] = DoneAt(At(usedRing', u + k - 1), req, buf')
      BY Zenon DEF Done
    <3> QED BY <1>11, <3>2, <3>3, Zenon
  <2> HIDE DEF e, c, y
  <2> QED BY <1>8, <1>9, <2>1, <2>2, <2>3, <2>4, IsAppend
<1>14. r.type \in {"in", "out", "other"} /\ r.sector \in 0 .. NumSectors
  <2>1. r \in Headers
    BY <1>1 DEF Ready
  <2> QED BY <2>1, HeaderFacts
<1> DEFINE q == ReqAt(h, req, buf)
<1>15. q.head = h /\ q.type = r.type /\ q.sector = r.sector /\ q.data = buf[d]
  BY DEF ReqAt
<1>16. ok = (q.type # "other" /\ q.sector \in Store!Sectors)
  BY <1>14, <1>15, DiskAssumption DEF succeeds, Store!Sectors
<1>17. ok \in BOOLEAN
  BY DEF succeeds
<1>18. DoneAt(y, req, buf') =
         [head |-> q.head, ok |-> ok, len |-> IF ok /\ q.type = "in" THEN 1 ELSE 0,
          data |-> IF ok /\ q.type = "in" THEN vdisk[q.sector] ELSE q.data]
  <2>1. y.id = h /\ y.len = IF in THEN 1 ELSE 0
    OBVIOUS
  <2>2. DoneAt(y, req, buf') = [head |-> h, len |-> IF in THEN 1 ELSE 0,
                                ok |-> buf'[sd] = "ok", data |-> buf'[d]]
    <3> HIDE DEF y, h
    <3> QED BY <2>1, Zenon DEF DoneAt
  <2>3. (buf'[sd] = "ok") = ok
    <3> HIDE DEF ok, sd, h, r
    <3> QED BY <1>1, <1>17
  <2>4. buf'[d] = IF in THEN vdisk[r.sector] ELSE buf[d]
    BY <1>1
  <2> HIDE DEF y, q, h, r, d, sd, ok
  <2> QED BY <1>15, <2>2, <2>3, <2>4
<1>19. vdisk' = IF ok /\ q.type = "out" THEN [vdisk EXCEPT ![q.sector] = q.data] ELSE vdisk
  BY <1>1, <1>15, Zenon
<1>20. InFlight # <<>> /\ Head(InFlight) = q /\ InFlight' = Tail(InFlight)
  BY <1>4, <1>5, <1>12
<1>21. Completed' = Append(Completed, DoneAt(y, req, buf'))
  BY <1>4, <1>5, <1>13
<1> HIDE DEF q, ok, y
<1> QED BY <1>16, <1>18, <1>19, <1>20, <1>21, Zenon DEF Store!Serve

LEMMA CollectsCollects ==
  ASSUME DiskTypeOK, NEW u \in Nat, NEW a \in Nat, NEW v \in Nat, Core(u, a, v),
         DriverCollects
  PROVE  Store!Collect
<1> DEFINE h == At(availRing, u)
<1>1. /\ Core(u + 1, a, v)' /\ u < a /\ h \in Heads
      /\ buf' \in [Descs -> ByteVals]
      /\ OthersKept(h, req, buf, req', buf')
      /\ \A n \in u + 1 .. v - 1 : /\ At(availRing, n) # h
                                   /\ At(availRing', n) = At(availRing, n)
      /\ \A n \in u + 1 .. a - 1 : At(usedRing', n) = At(usedRing, n)
  BY CollectsCore DEF ByteVals
<1> HIDE DEF h
<1>2. vdisk' = vdisk
  BY DEF DriverCollects
<1>3. /\ u <= a /\ a <= v /\ u + 1 \in Nat /\ u + 1 <= a
      /\ Window(u, a, v, availRing, usedRing, req, buf)
      /\ Window(u + 1, a, v, availRing', usedRing', req', buf')
  BY <1>1 DEF Core, Counters
<1>4. Window(u + 1, a, v, availRing, usedRing, req, buf)
  BY <1>3 DEF Window
<1> DEFINE c == Done(u, a, usedRing, req, buf)
           e == Done(u + 1, a, usedRing', req', buf')
<1>5. InFlight = Flight(a, v, availRing, req, buf) /\ Completed = c
  BY Mapped
<1>6. InFlight' = Flight(a, v, availRing', req', buf') /\ Completed' = e
  BY <1>1, <1>3, MappedNext
<1>7. Flight(a, v, availRing', req', buf') = Flight(a, v, availRing, req, buf)
  <2>1. ASSUME NEW n \in a .. v - 1
        PROVE  /\ At(availRing, n) \in Heads /\ At(availRing, n) # h
               /\ req[At(availRing, n)] \in Headers
               /\ At(availRing', n) = At(availRing, n)
    <3>1. n \in u .. v - 1 /\ n \in u + 1 .. v - 1
      BY <1>3
    <3> QED BY <1>1, <1>3, <3>1 DEF Window
  <2> QED BY <1>1, <1>3, <2>1, FlightKept
<1>8. e = Done(u + 1, a, usedRing, req, buf)
  <2>1. ASSUME NEW n \in u + 1 .. a - 1 PROVE At(availRing, n) # h
    <3>1. n \in u + 1 .. v - 1
      BY <1>3
    <3> QED BY <1>1, <3>1
  <2> QED BY <1>1, <1>3, <1>4, <2>1, DoneKept
<1>9. buf \in [Descs -> ByteVals]
  BY DEF DiskTypeOK, ByteVals
<1>10. /\ c \in Seq(DoneSet) /\ Len(c) = a - u
       /\ \A k \in 1 .. a - u : c[k] = DoneAt(At(usedRing, u + k - 1), req, buf)
  BY <1>3, <1>9, DoneFacts
<1>11. /\ e \in Seq(DoneSet) /\ Len(e) = a - (u + 1)
       /\ \A k \in 1 .. a - (u + 1) : e[k] = DoneAt(At(usedRing, u + 1 + k - 1), req, buf)
  <2> DEFINE w == u + 1
             g == Done(w, a, usedRing, req, buf)
  <2>1. w \in Nat /\ w <= a /\ Window(w, a, v, availRing, usedRing, req, buf) /\ e = g
    BY <1>3, <1>4, <1>8
  <2> HIDE DEF w, e
  <2>2. /\ g \in Seq(DoneSet) /\ Len(g) = a - w
        /\ \A k \in 1 .. a - w : g[k] = DoneAt(At(usedRing, w + k - 1), req, buf)
    BY <1>3, <1>9, <2>1, DoneFacts
  <2> HIDE DEF g
  <2> QED BY <2>1, <2>2 DEF w
<1> HIDE DEF c, e
<1>12. ASSUME NEW k \in 1 .. Len(e) PROVE e[k] = c[k + 1]
  <2>1. k \in 1 .. a - (u + 1) /\ k + 1 \in 1 .. a - u /\ u + 1 + k - 1 = u + (k + 1) - 1
    BY <1>3, <1>11
  <2> QED BY <1>10, <1>11, <2>1
<1>13. Len(c) = Len(e) + 1
  BY <1>3, <1>10, <1>11
<1>14. e = Tail(c) /\ c # <<>>
  BY <1>10, <1>11, <1>12, <1>13, IsTail
<1> QED BY <1>2, <1>5, <1>6, <1>7, <1>14 DEF Store!Collect

(* The device implements the block store: whenever ticks come between the  *)
(* driver's steps and however often the ring indices have wrapped, every   *)
(* request is carried out exactly once, in order, and completed with its   *)
(* own buffer, status and length (process_queue).                          *)
THEOREM RefinesBlockStore == DiskSpec => ImplementsBlockStore
<1>1. DiskInit => Store!Init
  <2> SUFFICES ASSUME DiskInit PROVE Store!Init
    OBVIOUS
  <2>1. Core(0, 0, 0) /\ DiskTypeOK
    <3>1. 0 % IdxMod = 0
      BY Sizes
    <3>2. \A n \in 0 .. 0 - 1 : FALSE
      OBVIOUS
    <3>3. Counters(0, 0, 0)
      BY <3>1, Sizes DEF DiskInit, Counters
    <3>4. Window(0, 0, 0, availRing, usedRing, req, buf)
      BY <3>2 DEF Window
    <3>5. Submitting(0, 0, availRing, req, buf, dpc, filling)
      BY DEF DiskInit, Submitting
    <3> QED BY <3>3, <3>4, <3>5, DiskInvInit DEF Core, DiskInv
  <2>2. /\ InFlight = Flight(0, 0, availRing, req, buf)
        /\ Completed = Done(0, 0, usedRing, req, buf)
    BY <2>1, Mapped
  <2>3. InFlight = <<>> /\ Completed = <<>>
    BY <2>2 DEF Flight, Done
  <2>4. vdisk \in [Store!Sectors -> Values \union {Idle}]
    BY DEF DiskInit, Store!Sectors, DiskSectors
  <2> QED BY <2>3, <2>4 DEF Store!Init
<1>2. DiskInv /\ [DiskNext]_diskVars => [Store!Next]_(Store!vars)
  <2> SUFFICES ASSUME DiskInv, [DiskNext]_diskVars PROVE [Store!Next]_(Store!vars)
    OBVIOUS
  <2>1. DiskTypeOK /\ Serving
    BY DEF DiskInv
  <2>2. PICK u \in Nat, a \in Nat, v \in Nat : Core(u, a, v)
    BY DEF DiskInv, Core
  <2>3. ASSUME UNCHANGED <<lastUsed, lastAvail, usedIdx, availIdx, availRing, usedRing,
                           req, buf, vdisk>>
        PROVE  UNCHANGED Store!vars
    BY <2>3 DEF Store!vars, InFlight, Completed
  <2>4. CASE \E r \in Registers : DriverStores(r)
    BY <2>3, <2>4 DEF DriverStores
  <2>5. CASE DriverNotifies
    BY <2>3, <2>5 DEF DriverNotifies, guestVars
  <2>6. CASE DriverAcks
    BY <2>3, <2>6 DEF DriverAcks
  <2>7. CASE DriverReturns
    BY <2>3, <2>7 DEF DriverReturns
  <2>8. CASE DriverFills
    BY <2>1, <2>2, <2>8, FillsStutters DEF Store!vars, DriverFills
  <2>9. CASE DriverLists
    BY <2>1, <2>2, <2>9, ListsStutters DEF Store!vars, DriverLists
  <2>10. CASE DriverPublishes
    BY <2>1, <2>2, <2>10, PublishesSubmits DEF Store!Next
  <2>11. CASE DriverCollects
    BY <2>1, <2>2, <2>11, CollectsCollects DEF Store!Next
  <2>12. CASE Begin
    BY <2>3, <2>12 DEF Begin, guestVars
  <2>13. CASE ServeOne
    BY <2>1, <2>2, <2>13, ServesServes DEF Store!Next
  <2>14. CASE End
    BY <2>3, <2>14 DEF End, guestVars
  <2>15. CASE UNCHANGED diskVars
    BY <2>3, <2>15 DEF diskVars
  <2> QED BY <2>4, <2>5, <2>6, <2>7, <2>8, <2>9, <2>10, <2>11, <2>12, <2>13, <2>14, <2>15
          DEF DiskNext, Device, Driver
<1> QED BY <1>1, <1>2, DiskInvIsInvariant, PTL DEF DiskSpec, ImplementsBlockStore
=============================================================================
