---------------------------- MODULE Translation ----------------------------
(***************************************************************************)
(* Address translation of the privileged VM: the Sv39 page-table walk with *)
(* its accessed and dirty bits, and the direct-mapped TLB in front of it,  *)
(* which is retired only by SFENCE.VMA and MRET and whose entries carry    *)
(* the satp they were made under.  The walk has two levels here instead of *)
(* three: a root entry is a leaf (a superpage of Fan pages), a pointer to  *)
(* a table of Fan leaf entries, or no good.  An unmapped or non-canonical  *)
(* address is a page whose walk faults.                                    *)
(*                                                                         *)
(* The fields ctx, by and stale of a TLB entry are not in the code: they   *)
(* record the context and the access it was made for, and whether guest    *)
(* software has stored to its page-table entries since.                    *)
(***************************************************************************)
EXTENDS Naturals, FiniteSets

CONSTANTS
  Spaces,    \* satp values in Sv39 mode, one page table each
  Bare,      \* satp = 0
  Fan,       \* entries of a page table
  Roots,     \* entries of a root table in use
  TlbSize,   \* TLB_SIZE
  InitPtes,  \* the page tables at first
  PteStores, \* the stores to page-table entries software may do: <<cell, pte>>
  Statuses,  \* the <<SUM, MXR>> software may set
  NoEntry    \* an empty TLB slot, and a failed translation

Perms == {"R", "W", "X", "U"}
Pte == [v : BOOLEAN, perm : SUBSET Perms, a : BOOLEAN, d : BOOLEAN, ppn : Nat]

ASSUME TranslationAssumption ==
  /\ Fan \in Nat \ {0} /\ Roots \in Nat /\ TlbSize \in Nat \ {0}
  /\ Bare \notin Spaces
  /\ NoEntry \notin Nat
  /\ Statuses \subseteq BOOLEAN \X BOOLEAN

VARIABLES
  satp,  \* the SATP register
  mode,  \* cpu.priv_mode
  sum,   \* mstatus.SUM
  mxr,   \* mstatus.MXR
  pte,   \* the page-table entries in guest memory
  tlb    \* Vm::tlb

mmuVars == <<satp, mode, sum, mxr, pte, tlb>>

Vpns == 0 .. Fan * Roots - 1
Accesses == {"read", "write", "execute"}
Privileges == {"U", "S", "M"}
Contexts == [mode : Privileges, sum : BOOLEAN, mxr : BOOLEAN]
Context == [mode |-> mode, sum |-> sum, mxr |-> mxr]

Root(s, vpn) == <<s, 1, vpn \div Fan>>
Leaf(s, vpn) == <<s, 0, vpn>>
RootCells == {Root(s, vpn) : s \in Spaces, vpn \in Vpns}
LeafCells == {Leaf(s, vpn) : s \in Spaces, vpn \in Vpns}

Cells == RootCells \union LeafCells

ASSUME PtesAssumption ==
  /\ InitPtes \in [Cells -> Pte]
  /\ PteStores \subseteq Cells \X Pte

MmuInit ==
  /\ satp = Bare /\ mode = "M" /\ sum = FALSE /\ mxr = FALSE
  /\ pte = InitPtes
  /\ tlb = [i \in 0 .. TlbSize - 1 |-> NoEntry]

----------------------------------------------------------------------------
(* mmu::translate *)

is_leaf(p) == p.perm \intersect {"R", "X"} # {}

(* Valid, and not the reserved pattern of W without R. *)
usable(p) == p.v /\ ("W" \in p.perm => "R" \in p.perm)

(* The entry at which the walk ends. *)
LastCell(s, vpn) ==
  IF is_leaf(pte[Root(s, vpn)]) THEN Root(s, vpn) ELSE Leaf(s, vpn)

(* The walk finds a leaf: all entries it meets are usable, and a           *)
(* superpage's frame is aligned.                                           *)
Found(s, vpn) ==
  /\ usable(pte[Root(s, vpn)])
  /\ usable(pte[LastCell(s, vpn)])
  /\ is_leaf(pte[LastCell(s, vpn)])
  /\ LastCell(s, vpn) = Root(s, vpn) => pte[Root(s, vpn)].ppn % Fan = 0

(* The permission and U-bit checks *)
Permitted(p, access, ctx) ==
  /\ CASE access = "read"    -> "R" \in p.perm \/ (ctx.mxr /\ "X" \in p.perm)
       [] access = "write"   -> "W" \in p.perm
       [] access = "execute" -> "X" \in p.perm
  /\ IF "U" \in p.perm THEN ctx.mode = "S" => ctx.sum ELSE ctx.mode # "U"

(* The frame an access is sent to, or NoEntry for a page fault. *)
translate(s, vpn, access, ctx) ==
  LET c == LastCell(s, vpn)
  IN  IF ~Found(s, vpn) \/ ~Permitted(pte[c], access, ctx) THEN NoEntry
      ELSE pte[c].ppn + (IF c = Root(s, vpn) THEN vpn % Fan ELSE 0)

(* Faulty variant: a store does not set the dirty bit. *)
Bad_pte_update(p, access) == [p EXCEPT !.a = TRUE]

(* The accessed and dirty bits after a walk *)
pte_update(p, access) == [p EXCEPT !.a = TRUE, !.d = @ \/ access = "write"]

----------------------------------------------------------------------------
(* The TLB *)

Slot(vpn) == vpn % TlbSize

(* Faulty variant: the entry's satp is not compared. *)
Bad_tlb_lookup(vpn, access, s) ==
  LET e == tlb[Slot(vpn)]
  IN  IF e # NoEntry /\ e.vpn = vpn /\ access \in e.allows
        THEN e.ppn ELSE NoEntry

tlb_lookup(vpn, access, s) ==
  LET e == tlb[Slot(vpn)]
  IN  IF e # NoEntry /\ e.vpn = vpn /\ e.satp = s /\ access \in e.allows
        THEN e.ppn ELSE NoEntry

(* The entry's flags: from the page-table entry, with MXR folded in. *)
allows(p) == {access \in Accesses :
                CASE access = "read"    -> "R" \in p.perm \/ (mxr /\ "X" \in p.perm)
                  [] access = "write"   -> "W" \in p.perm
                  [] access = "execute" -> "X" \in p.perm}

tlb_insert(vpn, access, ppn) ==
  [tlb EXCEPT ![Slot(vpn)] =
     [vpn |-> vpn, ppn |-> ppn, satp |-> satp,
      allows |-> allows(pte[LastCell(satp, vpn)]),
      ctx |-> Context, by |-> access, stale |-> FALSE]]

tlb_flush == [i \in 0 .. TlbSize - 1 |-> NoEntry]

----------------------------------------------------------------------------
(* What the guest does *)

translation_active == satp # Bare /\ mode # "M"

(* A page fault, an exception or an interrupt enters S or M mode. *)
EnterHandler == mode' \in (IF mode = "M" THEN {"M"} ELSE {"S", "M"})

(* translate_addr *)
Access(vpn, access) ==
  /\ translation_active
  /\ \/ /\ tlb_lookup(vpn, access, satp) # NoEntry
        /\ UNCHANGED mmuVars
     \/ /\ tlb_lookup(vpn, access, satp) = NoEntry
        /\ translate(satp, vpn, access, Context) # NoEntry
        /\ pte' = [pte EXCEPT ![LastCell(satp, vpn)] = pte_update(@, access)]
        /\ tlb' = tlb_insert(vpn, access, translate(satp, vpn, access, Context))
        /\ UNCHANGED <<satp, mode, sum, mxr>>
     \/ /\ tlb_lookup(vpn, access, satp) = NoEntry
        /\ translate(satp, vpn, access, Context) = NoEntry
        /\ EnterHandler
        /\ UNCHANGED <<satp, sum, mxr, pte, tlb>>

(* Any other trap *)
Trap ==
  /\ EnterHandler
  /\ UNCHANGED <<satp, sum, mxr, pte, tlb>>

(* Neither return checks the mode it is executed in. *)
SretMmu ==
  /\ mode' \in {"U", "S"}
  /\ UNCHANGED <<satp, sum, mxr, pte, tlb>>

MretMmu ==
  /\ mode' \in Privileges
  /\ tlb' = tlb_flush
  /\ UNCHANGED <<satp, sum, mxr, pte>>

(* SFENCE.VMA; with TVM set it traps instead. *)
SfenceVma ==
  /\ tlb' = tlb_flush
  /\ UNCHANGED <<satp, mode, sum, mxr, pte>>

WriteSatp ==
  /\ mode # "U"
  /\ satp' \in Spaces \union {Bare}
  /\ UNCHANGED <<mode, sum, mxr, pte, tlb>>

(* Writing sstatus or mstatus *)
WriteSumMxr ==
  /\ mode # "U"
  /\ \E t \in Statuses : sum' = t[1] /\ mxr' = t[2]
  /\ UNCHANGED <<satp, mode, pte, tlb>>

(* Guest software stores to a page-table entry; the entries made from it   *)
(* are stale from then on.                                                 *)
StorePte(c, p) ==
  /\ mode # "U"
  /\ pte' = [pte EXCEPT ![c] = p]
  /\ tlb' = [i \in 0 .. TlbSize - 1 |->
               IF /\ tlb[i] # NoEntry
                  /\ c \in {Root(tlb[i].satp, tlb[i].vpn),
                            LastCell(tlb[i].satp, tlb[i].vpn)}
                 THEN [tlb[i] EXCEPT !.stale = TRUE] ELSE tlb[i]]
  /\ UNCHANGED <<satp, mode, sum, mxr>>

MmuNext ==
  \/ \E vpn \in Vpns, access \in Accesses : Access(vpn, access)
  \/ Trap \/ SretMmu \/ MretMmu \/ SfenceVma \/ WriteSatp \/ WriteSumMxr
  \/ \E t \in PteStores : StorePte(t[1], t[2])

MmuSpec == MmuInit /\ [][MmuNext]_mmuVars

----------------------------------------------------------------------------
(* Properties *)

TlbEntry == [vpn : Vpns, ppn : Nat, satp : Spaces, allows : SUBSET Accesses,
             ctx : Contexts, by : Accesses, stale : BOOLEAN]

(* The type invariant of the translation state. *)
MmuTypeOK ==
  /\ satp \in Spaces \union {Bare}
  /\ mode \in Privileges /\ sum \in BOOLEAN /\ mxr \in BOOLEAN
  /\ pte \in [Cells -> Pte]
  /\ tlb \in [0 .. TlbSize - 1 -> TlbEntry \union {NoEntry}]

(* A TLB hit sends the access where the walk would send it in the context  *)
(* the entry was made in, for every access the entry allows and not only   *)
(* the one it was made for, unless guest software has stored to the page   *)
(* table since (and owes an SFENCE.VMA).  Neither switching satp back and  *)
(* forth, nor two pages sharing a slot, nor superpages break this.         *)
HitAgreesWithWalk ==
  \A vpn \in Vpns, access \in Accesses :
    translation_active /\ tlb_lookup(vpn, access, satp) # NoEntry =>
      LET e == tlb[Slot(vpn)]
      IN  \/ e.stale
          \/ translate(satp, vpn, access, e.ctx)
               = tlb_lookup(vpn, access, satp)

(* A page with a live TLB entry is marked accessed, and dirty if a store   *)
(* made the entry.  Nothing more holds: a store that hits an entry made by *)
(* a load leaves the dirty bit alone (translate_addr returns on the hit).  *)
CachedPagesMarked ==
  \A i \in 0 .. TlbSize - 1 :
    tlb[i] # NoEntry /\ ~tlb[i].stale =>
      LET p == pte[LastCell(tlb[i].satp, tlb[i].vpn)]
      IN  p.a /\ (tlb[i].by = "write" => p.d)
=============================================================================
