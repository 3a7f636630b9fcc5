------------------------- MODULE MemorySystemProofs -------------------------
(***************************************************************************)
(* Proofs about Translation, for any number of address spaces, page tables *)
(* of any size, any TLB size and any stores to page-table entries, and     *)
(* about Reservation, for an address space of any size and any sizes of    *)
(* LR, SC and stores below it.                                             *)
(***************************************************************************)
EXTENDS MCMachine, VirtioBlockProofs

----------------------------------------------------------------------------
(* Translation *)

(* What the walk now finds for a TLB entry: the same frame, the same       *)
(* permissions, a page that the entry's context may use and that is marked *)
(* as the access that made the entry left it.                              *)
Fresh(e) ==
  LET c == LastCell(e.satp, e.vpn)
      p == pte[c]
  IN  /\ Found(e.satp, e.vpn)
      /\ \A access \in e.allows :
           CASE access = "read"    -> "R" \in p.perm \/ (e.ctx.mxr /\ "X" \in p.perm)
             [] access = "write"   -> "W" \in p.perm
             [] access = "execute" -> "X" \in p.perm
      /\ IF "U" \in p.perm THEN e.ctx.mode = "S" => e.ctx.sum ELSE e.ctx.mode # "U"
      /\ e.ppn = p.ppn + (IF c = Root(e.satp, e.vpn) THEN e.vpn % Fan ELSE 0)
      /\ p.a
      /\ e.by = "write" => p.d

(* Every TLB entry that guest software has not made stale is such. *)
TlbFresh ==
  \A i \in 0 .. TlbSize - 1 :
    tlb[i] # NoEntry /\ ~tlb[i].stale => Fresh(tlb[i])

MmuInv == MmuTypeOK /\ TlbFresh

(* A page-table entry keeps what the walk reads; its bits may be set. *)
Kept(c) ==
  /\ pte'[c].v = pte[c].v
  /\ pte'[c].perm = pte[c].perm
  /\ pte'[c].ppn = pte[c].ppn
  /\ pte[c].a => pte'[c].a
  /\ pte[c].d => pte'[c].d

(* The walk of a mapped page stays inside the page tables. *)
LEMMA CellsOfWalk ==
  ASSUME NEW s \in Spaces, NEW vpn \in Vpns
  PROVE  Root(s, vpn) \in Cells /\ Leaf(s, vpn) \in Cells
         /\ LastCell(s, vpn) \in {Root(s, vpn), Leaf(s, vpn)}
BY DEF Cells, RootCells, LeafCells, LastCell

(* A walk over entries that are kept ends at the same cell and is as good. *)
LEMMA WalkKept ==
  ASSUME NEW s \in Spaces, NEW vpn \in Vpns,
         Kept(Root(s, vpn)), Kept(LastCell(s, vpn))
  PROVE  LastCell(s, vpn)' = LastCell(s, vpn) /\ Found(s, vpn)' = Found(s, vpn)
<1>1. LastCell(s, vpn)' = LastCell(s, vpn)
  BY DEF LastCell, Kept, is_leaf
<1>2. Found(s, vpn)' = Found(s, vpn)
  BY <1>1 DEF Found, usable, is_leaf, Kept
<1> QED
  BY <1>1, <1>2

(* An entry stays fresh while the cells of its walk are kept. *)
LEMMA FreshKept ==
  ASSUME NEW e \in TlbEntry, Fresh(e),
         Kept(Root(e.satp, e.vpn)), Kept(LastCell(e.satp, e.vpn))
  PROVE  Fresh(e)'
<1>1. e.satp \in Spaces /\ e.vpn \in Vpns
  BY DEF TlbEntry
<1>2. LastCell(e.satp, e.vpn)' = LastCell(e.satp, e.vpn)
      /\ Found(e.satp, e.vpn)' = Found(e.satp, e.vpn)
  BY <1>1, WalkKept
<1> QED
  BY <1>2 DEF Fresh, Kept

(* Setting the accessed and dirty bits keeps what the walk reads. *)
LEMMA PteUpdate ==
  ASSUME NEW p \in Pte, NEW access \in Accesses
  PROVE  LET q == pte_update(p, access)
         IN  /\ q \in Pte
             /\ q.v = p.v /\ q.perm = p.perm /\ q.ppn = p.ppn
             /\ q.a /\ (p.d => q.d) /\ (access = "write" => q.d)
<1> DEFINE q == pte_update(p, access)
<1>1. q = [v |-> p.v, perm |-> p.perm, a |-> TRUE, d |-> p.d \/ access = "write",
           ppn |-> p.ppn]
  <2>1. p = [v |-> p.v, perm |-> p.perm, a |-> p.a, d |-> p.d, ppn |-> p.ppn]
    BY DEF Pte
  <2>2. q = [[p EXCEPT !.a = TRUE] EXCEPT !.d = p.d \/ access = "write"]
    BY <2>1 DEF pte_update
  <2> QED
    BY <2>1, <2>2
<1>2. p.v \in BOOLEAN /\ p.perm \in SUBSET Perms /\ p.ppn \in Nat /\ p.d \in BOOLEAN
  BY DEF Pte
<1>3. (p.d \/ access = "write") \in BOOLEAN
  BY Zenon
<1>4. q \in Pte
  BY <1>1, <1>2, <1>3 DEF Pte
<1>5. q.a = TRUE /\ q.d = (p.d \/ access = "write")
  BY <1>1
<1>6. q.v = p.v /\ q.perm = p.perm /\ q.ppn = p.ppn
  BY <1>1
<1> QED
  BY <1>4, <1>5, <1>6, Zenon

(* The entry a successful walk makes *)
Made(vpn, access) ==
  [vpn |-> vpn, ppn |-> translate(satp, vpn, access, Context), satp |-> satp,
   allows |-> allows(pte[LastCell(satp, vpn)]),
   ctx |-> Context, by |-> access, stale |-> FALSE]

(* A successful walk sets bits in the entry it ends at and makes a fresh   *)
(* TLB entry.                                                              *)
LEMMA MissFacts ==
  ASSUME MmuTypeOK, translation_active,
         NEW vpn \in Vpns, NEW access \in Accesses,
         translate(satp, vpn, access, Context) # NoEntry,
         pte' = [pte EXCEPT ![LastCell(satp, vpn)] = pte_update(@, access)]
  PROVE  /\ satp \in Spaces
         /\ pte' \in [Cells -> Pte]
         /\ \A c \in Cells : Kept(c)
         /\ Made(vpn, access) \in TlbEntry
         /\ \A e : e = Made(vpn, access) => Fresh(e)'
<1> USE TranslationAssumption
<1> DEFINE c == LastCell(satp, vpn)
           p == pte[c]
<1>1. satp \in Spaces
  BY DEF MmuTypeOK, translation_active
<1>2. c \in Cells /\ Root(satp, vpn) \in Cells
  BY <1>1, CellsOfWalk
<1>3. p \in Pte /\ pte \in [Cells -> Pte]
  BY <1>2 DEF MmuTypeOK
<1>4. pte' = [pte EXCEPT ![c] = pte_update(p, access)]
  BY <1>2, <1>3
<1>5. pte' \in [Cells -> Pte] /\ pte'[c] = pte_update(p, access)
      /\ \A k \in Cells : k # c => pte'[k] = pte[k]
  BY <1>2, <1>3, <1>4, PteUpdate
<1>6. ASSUME NEW k \in Cells PROVE Kept(k)
  <2>1. CASE k = c
    BY <1>3, <1>5, <2>1, PteUpdate DEF Kept
  <2>2. CASE k # c
    BY <1>5, <2>2 DEF Kept
  <2> QED
    BY <2>1, <2>2
<1>7. Found(satp, vpn) /\ Permitted(p, access, Context)
      /\ translate(satp, vpn, access, Context)
           = p.ppn + (IF c = Root(satp, vpn) THEN vpn % Fan ELSE 0)
  BY DEF translate
<1>8. Made(vpn, access) \in TlbEntry
  <2>1. translate(satp, vpn, access, Context) \in Nat
    <3>1. vpn % Fan \in Nat
      BY DEF Vpns
    <3>2. p.ppn \in Nat
      BY <1>3 DEF Pte
    <3> QED
      BY <1>7, <3>1, <3>2
  <2>2. Context \in Contexts
    BY Zenon DEF MmuTypeOK, Context, Contexts
  <2>3. allows(p) \in SUBSET Accesses
    BY DEF allows
  <2> QED
    BY <1>1, <2>1, <2>2, <2>3 DEF Made, TlbEntry
<1>9. ASSUME NEW e, e = Made(vpn, access) PROVE Fresh(e)'
  <2>1. /\ e.satp = satp /\ e.vpn = vpn /\ e.by = access
        /\ e.ctx = Context /\ e.allows = allows(p)
        /\ e.ppn = p.ppn + (IF c = Root(satp, vpn) THEN vpn % Fan ELSE 0)
    BY <1>7, <1>9 DEF Made
  <2>2. LastCell(e.satp, e.vpn)' = c /\ Found(e.satp, e.vpn)'
    <3>1. e.satp \in Spaces /\ e.vpn \in Vpns
      BY <1>1, <2>1
    <3> QED
      BY <1>2, <1>6, <1>7, <2>1, <3>1, WalkKept
  <2>3. /\ pte'[c].perm = p.perm /\ pte'[c].ppn = p.ppn
        /\ pte'[c].a /\ (access = "write" => pte'[c].d)
    BY <1>3, <1>5, PteUpdate
  <2>4. \A a \in e.allows :
           CASE a = "read"    -> "R" \in p.perm \/ (e.ctx.mxr /\ "X" \in p.perm)
             [] a = "write"   -> "W" \in p.perm
             [] a = "execute" -> "X" \in p.perm
    <3>1. e.ctx.mxr = mxr
      BY <2>1 DEF Context
    <3> SUFFICES ASSUME NEW a \in allows(p)
                 PROVE  CASE a = "read"    -> "R" \in p.perm \/ (mxr /\ "X" \in p.perm)
                          [] a = "write"   -> "W" \in p.perm
                          [] a = "execute" -> "X" \in p.perm
      BY <2>1, <3>1
    <3> QED
      BY DEF allows
  <2>5. IF "U" \in p.perm THEN e.ctx.mode = "S" => e.ctx.sum ELSE e.ctx.mode # "U"
    BY <1>7, <2>1 DEF Permitted
  <2> QED
    BY <2>1, <2>2, <2>3, <2>4, <2>5 DEF Fresh
<1> QED
  BY <1>1, <1>5, <1>6, <1>8, <1>9

(* Steps that leave the page tables and the TLB alone *)
LEMMA QuietStep ==
  ASSUME MmuInv, UNCHANGED <<pte, tlb>>,
         satp' \in Spaces \union {Bare}, mode' \in Privileges,
         sum' \in BOOLEAN, mxr' \in BOOLEAN
  PROVE  MmuInv'
<1>1. MmuTypeOK'
  BY DEF MmuInv, MmuTypeOK
<1>2. \A c : Kept(c)
  BY DEF Kept
<1>3. ASSUME NEW i \in 0 .. TlbSize - 1, tlb'[i] # NoEntry, ~tlb'[i].stale
      PROVE  Fresh(tlb[i])'
  <2>1. tlb[i] \in TlbEntry /\ Fresh(tlb[i])
    BY <1>3 DEF MmuInv, MmuTypeOK, TlbFresh
  <2>2. PICK e \in TlbEntry : e = tlb[i] /\ Fresh(e)
    BY <2>1
  <2>3. Fresh(e)'
    BY <1>2, <2>2, FreshKept
  <2> QED
    BY <2>2, <2>3
<1> QED
  BY <1>1, <1>3 DEF MmuInv, TlbFresh

(* Retiring the whole TLB (SFENCE.VMA, MRET) *)
LEMMA FlushStep ==
  ASSUME MmuInv, tlb' = tlb_flush, UNCHANGED <<satp, sum, mxr, pte>>,
         mode' \in Privileges
  PROVE  MmuInv'
<1>1. tlb' \in [0 .. TlbSize - 1 -> TlbEntry \union {NoEntry}]
      /\ \A i \in 0 .. TlbSize - 1 : tlb'[i] = NoEntry
  BY DEF tlb_flush
<1> QED
  BY <1>1 DEF MmuInv, MmuTypeOK, TlbFresh

(* A walk that succeeds *)
LEMMA MissStep ==
  ASSUME MmuInv, translation_active, NEW vpn \in Vpns, NEW access \in Accesses,
         translate(satp, vpn, access, Context) # NoEntry,
         pte' = [pte EXCEPT ![LastCell(satp, vpn)] = pte_update(@, access)],
         tlb' = tlb_insert(vpn, access, translate(satp, vpn, access, Context)),
         UNCHANGED <<satp, mode, sum, mxr>>
  PROVE  MmuInv'
<1> USE TranslationAssumption
<1>1. /\ pte' \in [Cells -> Pte]
      /\ \A c \in Cells : Kept(c)
      /\ Made(vpn, access) \in TlbEntry
      /\ \A e : e = Made(vpn, access) => Fresh(e)'
  BY MissFacts DEF MmuInv
<1>2. tlb' = [tlb EXCEPT ![Slot(vpn)] = Made(vpn, access)]
  BY DEF tlb_insert, Made
<1>3. MmuTypeOK'
  BY <1>1, <1>2 DEF MmuInv, MmuTypeOK
<1>4. ASSUME NEW i \in 0 .. TlbSize - 1, tlb'[i] # NoEntry, ~tlb'[i].stale
      PROVE  Fresh(tlb[i])'
  <2>0. tlb \in [0 .. TlbSize - 1 -> TlbEntry \union {NoEntry}]
    BY DEF MmuInv, MmuTypeOK
  <2>1. CASE i = Slot(vpn)
    <3>1. PICK e : e = Made(vpn, access)
      OBVIOUS
    <3>2. tlb'[i] = e /\ Fresh(e)'
      BY <1>1, <1>2, <2>0, <2>1, <3>1
    <3> QED
      BY <3>2
  <2>2. CASE i # Slot(vpn)
    <3>1. tlb'[i] = tlb[i] /\ tlb[i] \in TlbEntry /\ Fresh(tlb[i])
      BY <1>2, <1>4, <2>0, <2>2 DEF MmuInv, TlbFresh
    <3>2. PICK e \in TlbEntry : e = tlb[i] /\ Fresh(e)
      BY <3>1
    <3>3. e.satp \in Spaces /\ e.vpn \in Vpns
      BY DEF TlbEntry
    <3>4. Root(e.satp, e.vpn) \in Cells /\ LastCell(e.satp, e.vpn) \in Cells
      BY <3>3, CellsOfWalk
    <3>5. Fresh(e)'
      BY <1>1, <3>2, <3>4, FreshKept
    <3> QED
      BY <3>1, <3>2, <3>5
  <2> QED
    BY <2>1, <2>2
<1> QED
  BY <1>3, <1>4 DEF MmuInv, TlbFresh

(* A store to a page-table entry makes the entries of its walks stale and  *)
(* leaves the cells of the others alone.                                   *)
LEMMA StorePteStep ==
  ASSUME MmuInv, NEW c \in Cells, NEW p \in Pte, StorePte(c, p)
  PROVE  MmuInv'
<1>0. /\ pte \in [Cells -> Pte]
      /\ tlb \in [0 .. TlbSize - 1 -> TlbEntry \union {NoEntry}]
  BY DEF MmuInv, MmuTypeOK
<1>1. pte' = [pte EXCEPT ![c] = p] /\ UNCHANGED <<satp, mode, sum, mxr>>
  BY DEF StorePte
<1>2. ASSUME NEW i \in 0 .. TlbSize - 1
      PROVE  tlb'[i] = IF /\ tlb[i] # NoEntry
                          /\ c \in {Root(tlb[i].satp, tlb[i].vpn),
                                    LastCell(tlb[i].satp, tlb[i].vpn)}
                         THEN [tlb[i] EXCEPT !.stale = TRUE] ELSE tlb[i]
  BY DEF StorePte
<1>3. ASSUME NEW e \in TlbEntry PROVE [e EXCEPT !.stale = TRUE] \in TlbEntry
                                      /\ [e EXCEPT !.stale = TRUE].stale
  BY DEF TlbEntry
<1>4. MmuTypeOK'
  <2>1. ASSUME NEW i \in 0 .. TlbSize - 1 PROVE tlb'[i] \in TlbEntry \union {NoEntry}
    BY <1>0, <1>2, <1>3
  <2>2. tlb' \in [0 .. TlbSize - 1 -> TlbEntry \union {NoEntry}]
    BY <2>1 DEF StorePte
  <2>3. pte' \in [Cells -> Pte]
    BY <1>0, <1>1
  <2> QED
    BY <1>1, <2>2, <2>3 DEF MmuInv, MmuTypeOK
<1>5. ASSUME NEW i \in 0 .. TlbSize - 1, tlb'[i] # NoEntry, ~tlb'[i].stale
      PROVE  Fresh(tlb[i])'
  <2>1. /\ tlb'[i] = tlb[i] /\ tlb[i] \in TlbEntry
        /\ c \notin {Root(tlb[i].satp, tlb[i].vpn),
                     LastCell(tlb[i].satp, tlb[i].vpn)}
    BY <1>0, <1>2, <1>3, <1>5
  <2>2. Fresh(tlb[i])
    BY <1>5, <2>1 DEF MmuInv, TlbFresh
  <2>3. PICK e \in TlbEntry : e = tlb[i] /\ Fresh(e)
    BY <2>1, <2>2
  <2>4. \A k \in Cells : k # c => Kept(k)
    BY <1>0, <1>1 DEF Kept
  <2>5. e.satp \in Spaces /\ e.vpn \in Vpns
    BY DEF TlbEntry
  <2>6. Kept(Root(e.satp, e.vpn)) /\ Kept(LastCell(e.satp, e.vpn))
    BY <2>1, <2>3, <2>4, <2>5, CellsOfWalk
  <2>7. Fresh(e)'
    BY <2>3, <2>6, FreshKept
  <2> QED
    BY <2>1, <2>3, <2>7
<1> QED
  BY <1>4, <1>5 DEF MmuInv, TlbFresh

(* The type invariant and the freshness of live TLB entries hold of every  *)
(* behaviour of the translation.                                           *)
THEOREM MmuInvIsInvariant == MmuSpec => []MmuInv
<1>1. MmuInit => MmuInv
  BY PtesAssumption DEF MmuInit, MmuInv, MmuTypeOK, TlbFresh, Privileges
<1>2. MmuInv /\ [MmuNext]_mmuVars => MmuInv'
  <2> SUFFICES ASSUME MmuInv, [MmuNext]_mmuVars PROVE MmuInv'
    OBVIOUS
  <2>0. /\ satp \in Spaces \union {Bare} /\ mode \in Privileges
        /\ sum \in BOOLEAN /\ mxr \in BOOLEAN
    BY DEF MmuInv, MmuTypeOK
  <2>1. ASSUME NEW vpn \in Vpns, NEW access \in Accesses, Access(vpn, access)
        PROVE  MmuInv'
    <3>1. CASE UNCHANGED mmuVars
      BY <2>0, <3>1, QuietStep DEF mmuVars
    <3>2. CASE /\ translate(satp, vpn, access, Context) # NoEntry
               /\ pte' = [pte EXCEPT ![LastCell(satp, vpn)] = pte_update(@, access)]
               /\ tlb' = tlb_insert(vpn, access, translate(satp, vpn, access, Context))
               /\ UNCHANGED <<satp, mode, sum, mxr>>
      BY <2>1, <3>2, MissStep DEF Access
    <3>3. CASE EnterHandler /\ UNCHANGED <<satp, sum, mxr, pte, tlb>>
      BY <2>0, <3>3, QuietStep DEF EnterHandler, Privileges
    <3> QED
      BY <2>1, <3>1, <3>2, <3>3 DEF Access
  <2>2. CASE Trap \/ SretMmu
    <3>1. mode' \in Privileges
      BY <2>2 DEF Trap, SretMmu, EnterHandler, Privileges
    <3> QED
      BY <2>0, <2>2, <3>1, QuietStep DEF Trap, SretMmu
  <2>3. CASE MretMmu \/ SfenceVma
    BY <2>0, <2>3, FlushStep DEF MretMmu, SfenceVma
  <2>4. CASE WriteSatp
    BY <2>0, <2>4, QuietStep DEF WriteSatp
  <2>5. CASE WriteSumMxr
    <3>1. sum' \in BOOLEAN /\ mxr' \in BOOLEAN
      BY <2>5, TranslationAssumption DEF WriteSumMxr
    <3> QED
      BY <2>0, <2>5, <3>1, QuietStep DEF WriteSumMxr
  <2>6. ASSUME NEW t \in PteStores, StorePte(t[1], t[2]) PROVE MmuInv'
    BY <2>6, PtesAssumption, StorePteStep
  <2>7. CASE UNCHANGED mmuVars
    BY <2>0, <2>7, QuietStep DEF mmuVars
  <2> QED
    BY <2>1, <2>2, <2>3, <2>4, <2>5, <2>6, <2>7 DEF MmuNext
<1> QED
  BY <1>1, <1>2, PTL DEF MmuSpec

(* A TLB hit (tlb_lookup in translate_addr) sends the access where the     *)
(* walk in the entry's own context would send it, unless software has      *)
(* stored to the page table since: for every page-table content, TLB size  *)
(* and interleaving of satp writes, traps and flushes.                     *)
THEOREM HitsCorrect == MmuSpec => []HitAgreesWithWalk
<1>1. MmuInv => HitAgreesWithWalk
  <2> SUFFICES ASSUME MmuInv, NEW vpn \in Vpns, NEW access \in Accesses,
                      tlb_lookup(vpn, access, satp) # NoEntry,
                      ~tlb[Slot(vpn)].stale
               PROVE  translate(satp, vpn, access, tlb[Slot(vpn)].ctx)
                        = tlb_lookup(vpn, access, satp)
    BY DEF HitAgreesWithWalk
  <2> DEFINE e == tlb[Slot(vpn)]
  <2>1. /\ e # NoEntry /\ e.vpn = vpn /\ e.satp = satp /\ access \in e.allows
        /\ tlb_lookup(vpn, access, satp) = e.ppn
    BY DEF tlb_lookup
  <2>2. Slot(vpn) \in 0 .. TlbSize - 1
    BY TranslationAssumption DEF Slot, Vpns
  <2>3. Fresh(e)
    BY <2>1, <2>2 DEF MmuInv, TlbFresh
  <2>4. Found(satp, vpn) /\ Permitted(pte[LastCell(satp, vpn)], access, e.ctx)
    BY <2>1, <2>3 DEF Fresh, Permitted
  <2> QED
    BY <2>1, <2>3, <2>4 DEF Fresh, translate
<1> QED
  BY <1>1, MmuInvIsInvariant, PTL

(* A live TLB entry's page is marked accessed, and dirty if a store made   *)
(* the entry, for every behaviour (the PTE update in mmu::translate).      *)
THEOREM MarkedCorrect == MmuSpec => []CachedPagesMarked
<1>1. MmuInv => CachedPagesMarked
  BY DEF MmuInv, TlbFresh, Fresh, CachedPagesMarked
<1> QED
  BY <1>1, MmuInvIsInvariant, PTL

----------------------------------------------------------------------------
(* Reservation *)

(* The reservation is that of the last LR, or gone. *)
FromLastLr == reservation = NoRes \/ reservation = lr

ResInv == ResTypeOK /\ FromLastLr /\ ScSucceedsIffUndisturbed

(* An address below the modulus is its own remainder. *)
LEMMA SmallMod == ASSUME NEW n \in Nat \ {0}, NEW x \in 0 .. n - 1
                  PROVE  x % n = x
OBVIOUS

(* The bytes of an access are addresses; one that ends below the top of    *)
(* the address space has an interval of them, one that does not has the    *)
(* last address among them.                                                *)
LEMMA BytesFacts ==
  ASSUME NEW addr \in Addrs, NEW size \in 1 .. AddrMod - 1
  PROVE  /\ Bytes(addr, size) \subseteq Addrs
         /\ ~WrapsAround(addr, size) => Bytes(addr, size) = addr .. addr + size - 1
         /\ WrapsAround(addr, size) => AddrMod - 1 \in Bytes(addr, size)
<1> USE ReservationAssumption DEF Addrs, WrapsAround
<1>1. Bytes(addr, size) \subseteq Addrs
  <2>1. ASSUME NEW i \in 0 .. size - 1 PROVE (addr + i) % AddrMod \in 0 .. AddrMod - 1
    OBVIOUS
  <2> QED
    BY <2>1 DEF Bytes
<1>2. ASSUME NEW i \in 0 .. size - 1, addr + i < AddrMod
      PROVE  (addr + i) % AddrMod = addr + i
  BY <1>2, SmallMod
<1>3. ASSUME ~WrapsAround(addr, size)
      PROVE  Bytes(addr, size) = addr .. addr + size - 1
  <2>1. \A i \in 0 .. size - 1 : (addr + i) % AddrMod = addr + i
    BY <1>2, <1>3
  <2>2. ASSUME NEW a \in addr .. addr + size - 1 PROVE a \in Bytes(addr, size)
    <3>1. a - addr \in 0 .. size - 1 /\ addr + (a - addr) = a
      OBVIOUS
    <3> QED
      BY <2>1, <3>1 DEF Bytes
  <2>3. ASSUME NEW a \in Bytes(addr, size) PROVE a \in addr .. addr + size - 1
    <3>1. PICK i \in 0 .. size - 1 : a = (addr + i) % AddrMod
      BY DEF Bytes
    <3>2. a = addr + i
      BY <2>1, <3>1
    <3> QED
      BY <3>2
  <2> QED
    BY <2>2, <2>3
<1>4. ASSUME WrapsAround(addr, size) PROVE AddrMod - 1 \in Bytes(addr, size)
  <2>1. AddrMod - 1 - addr \in 0 .. size - 1 /\ addr + (AddrMod - 1 - addr) = AddrMod - 1
    BY <1>4
  <2>2. (addr + (AddrMod - 1 - addr)) % AddrMod = AddrMod - 1
    BY <1>2, <2>1
  <2> QED
    BY <2>1, <2>2 DEF Bytes
<1> QED
  BY <1>1, <1>3, <1>4

(* Where nothing wraps, the test of check_reservation_on_store is exactly  *)
(* that the store touches a reserved byte.                                 *)
LEMMA OverlapsExact ==
  ASSUME NEW a \in Addrs, NEW s \in LrSizes, reservation = <<a, s>>,
         ~WrapsAround(a, s),
         NEW addr \in Addrs, NEW size \in StoreSizes, ~WrapsAround(addr, size)
  PROVE  overlaps(addr, size) <=> Bytes(addr, size) \intersect Bytes(a, s) # {}
<1> USE ReservationAssumption DEF Addrs, WrapsAround
<1>1. s \in 1 .. AddrMod - 1 /\ size \in 1 .. AddrMod - 1
  OBVIOUS
<1>2. Bytes(addr, size) = addr .. addr + size - 1 /\ Bytes(a, s) = a .. a + s - 1
  BY <1>1, BytesFacts
<1>3. (a + s) % AddrMod = a + s /\ (addr + size) % AddrMod = addr + size
  <2>1. a + s \in 0 .. AddrMod - 1 /\ addr + size \in 0 .. AddrMod - 1
    BY <1>1
  <2> QED
    BY <2>1, SmallMod
<1>4. overlaps(addr, size) <=> addr < a + s /\ a < addr + size
  BY <1>3 DEF overlaps
<1>5. ASSUME addr < a + s, a < addr + size
      PROVE  \E x \in addr .. addr + size - 1 : x \in a .. a + s - 1
  <2>1. CASE addr < a
    BY <1>1, <1>5, <2>1
  <2>2. CASE addr >= a
    BY <1>1, <1>5, <2>2
  <2> QED
    BY <2>1, <2>2
<1>6. ASSUME NEW x \in addr .. addr + size - 1, x \in a .. a + s - 1
      PROVE  addr < a + s /\ a < addr + size
  BY <1>1, <1>6
<1> QED
  BY <1>2, <1>4, <1>5, <1>6

(* LR, SC and AMOs leave nothing touched, and the reservation as lr. *)
LEMMA FreshInv ==
  ASSUME ResTypeOK', reservation' = lr', touched' = {}
  PROVE  ResInv'
BY DEF ResInv, FromLastLr, ScSucceedsIffUndisturbed

(* A store preserves the invariant: away from the top of the address space *)
(* it ends the reservation exactly if it touches it.                       *)
LEMMA StoreInv ==
  ASSUME ResInv, NEW addr \in Addrs, NEW size \in StoreSizes, StoreRes(addr, size)
  PROVE  ResInv'
<1> USE ReservationAssumption
<1>1. size \in 1 .. AddrMod - 1
  OBVIOUS
<1>2. ResTypeOK'
  <2>1. Bytes(addr, size) \subseteq Addrs
    BY <1>1, BytesFacts
  <2> QED
    BY <2>1 DEF ResInv, ResTypeOK, StoreRes
<1>3. FromLastLr'
  BY DEF ResInv, FromLastLr, StoreRes
<1>4. ScSucceedsIffUndisturbed'
  <2> SUFFICES ASSUME NEW a \in Addrs, NEW s \in LrSizes,
                      ~WrapsAround(a, s),
                      \A x \in touched' : ~WrapsAround(x, 1)
               PROVE  (reservation' = <<a, s>>) =
                        (lr' = <<a, s>> /\ touched' \intersect Bytes(a, s) = {})
    BY DEF ScSucceedsIffUndisturbed
  <2>0. <<a, s>> # NoRes
    OBVIOUS
  <2>1. CASE lr = NoRes
    BY <2>0, <2>1 DEF ResInv, FromLastLr, StoreRes
  <2>2. CASE lr # NoRes
    <3>1. lr' = lr /\ touched' = touched \union Bytes(addr, size)
      BY <2>2 DEF StoreRes
    <3>2. ~WrapsAround(addr, size)
      <4>1. ASSUME WrapsAround(addr, size) PROVE FALSE
        <5>1. AddrMod - 1 \in touched'
          BY <1>1, <3>1, <4>1, BytesFacts
        <5> QED
          BY <5>1 DEF WrapsAround
      <4> QED
        BY <4>1
    <3>3. (reservation = <<a, s>>) =
            (lr = <<a, s>> /\ touched \intersect Bytes(a, s) = {})
      BY <3>1 DEF ResInv, ScSucceedsIffUndisturbed
    <3>4. CASE reservation = <<a, s>>
      <4>1. overlaps(addr, size) <=> Bytes(addr, size) \intersect Bytes(a, s) # {}
        BY <3>2, <3>4, OverlapsExact
      <4>2. (reservation' = <<a, s>>) = ~overlaps(addr, size)
        BY <2>0, <3>4 DEF StoreRes
      <4> QED
        BY <3>1, <3>3, <3>4, <4>1, <4>2
    <3>5. CASE reservation # <<a, s>>
      <4>1. reservation' # <<a, s>>
        BY <2>0, <3>5 DEF StoreRes
      <4> QED
        BY <3>1, <3>3, <3>5, <4>1
    <3> QED
      BY <3>4, <3>5
  <2> QED
    BY <2>1, <2>2
<1> QED
  BY <1>2, <1>3, <1>4 DEF ResInv

(* The invariant holds of every behaviour of the reservation. *)
THEOREM ResInvIsInvariant == ResSpec => []ResInv
<1>1. ResInit => ResInv
  BY ReservationAssumption DEF ResInit, ResInv, ResTypeOK, FromLastLr,
     ScSucceedsIffUndisturbed
<1>2. ResInv /\ [ResNext]_resVars => ResInv'
  <2> SUFFICES ASSUME ResInv, [ResNext]_resVars PROVE ResInv'
    OBVIOUS
  <2>1. ASSUME NEW addr \in Addrs, NEW size \in LrSizes, LR(addr, size)
        PROVE  ResInv'
    <3>1. ResTypeOK'
      BY <2>1 DEF LR, ResTypeOK
    <3> QED
      BY <2>1, <3>1, FreshInv DEF LR
  <2>2. ASSUME NEW addr \in Addrs, NEW size \in StoreSizes, StoreRes(addr, size)
        PROVE  ResInv'
    BY <2>2, StoreInv
  <2>3. CASE Amo \/ \E addr \in Addrs, size \in LrSizes, ok \in BOOLEAN :
                      SC(addr, size, ok)
    <3>1. reservation' = NoRes /\ lr' = NoRes /\ touched' = {}
      BY <2>3 DEF Amo, SC
    <3>2. ResTypeOK'
      BY <3>1 DEF ResTypeOK
    <3> QED
      BY <3>1, <3>2, FreshInv
  <2>4. CASE UNCHANGED resVars
    BY <2>4 DEF resVars, ResInv, ResTypeOK, FromLastLr, ScSucceedsIffUndisturbed
  <2> QED
    BY <2>1, <2>2, <2>3, <2>4 DEF ResNext
<1> QED
  BY <1>1, <1>2, PTL DEF ResSpec

(* SC after LR (Vm::execute, check_reservation_on_store) succeeds exactly  *)
(* if the hart has stored to none of the reserved bytes, for an address    *)
(* space of any size, all access sizes and every address below its top.    *)
THEOREM ScCorrect == ResSpec => []ScSucceedsIffUndisturbed
<1>1. ResInv => ScSucceedsIffUndisturbed
  BY DEF ResInv
<1> QED
  BY <1>1, ResInvIsInvariant, PTL

----------------------------------------------------------------------------
(* The composition that TLC runs *)

(* A behaviour of the composed machine is one of the block device, of      *)
(* address translation and of the reservation, so what is proved of a part *)
(* holds of the runs' specification.                                       *)
THEOREM MachineRunsParts == MachineSpec => DiskSpec /\ MmuSpec /\ ResSpec
<1>1. MachineInit => DiskInit /\ MmuInit /\ ResInit
  BY DEF MachineInit
<1>2. [MachineNext]_machineVars => [DiskNext]_diskVars
  BY DEF MachineNext, machineVars
<1>3. [MachineNext]_machineVars => [MmuNext]_mmuVars
  BY DEF MachineNext, machineVars
<1>4. [MachineNext]_machineVars => [ResNext]_resVars
  BY DEF MachineNext, machineVars
<1> QED BY <1>1, <1>2, <1>3, <1>4, PTL DEF MachineSpec, DiskSpec, MmuSpec, ResSpec

(* The types of the device, the page tables, the TLB and the reservation,  *)
(* for every queue size, table, TLB and address space.                     *)
THEOREM MachineTypesCorrect == MachineSpec => []MachineTypeOK
<1>1. MmuInv => MmuTypeOK
  BY DEF MmuInv
<1>2. ResInv => ResTypeOK
  BY DEF ResInv
<1> QED BY <1>1, <1>2, MachineRunsParts, DiskTypes, MmuInvIsInvariant, ResInvIsInvariant, PTL
        DEF MachineTypeOK
=============================================================================
