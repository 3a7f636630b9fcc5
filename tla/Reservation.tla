---------------------------- MODULE Reservation ----------------------------
(***************************************************************************)
(* The reservation of LR and SC.  Addresses are physical and wrap at       *)
(* AddrMod (2^64 in the code): two virtual aliases of an address are one   *)
(* here.  lr and touched are not in the code: they record the last LR that *)
(* no SC or AMO has followed, and what the hart has stored to since.       *)
(*                                                                         *)
(* Only the hart's own stores count: the accessed and dirty bits a walk    *)
(* sets and the block device's transfers do not look at the reservation.   *)
(***************************************************************************)
EXTENDS Naturals

CONSTANTS
  AddrMod,    \* size of the address space
  LrSizes,    \* sizes of LR and SC
  StoreSizes, \* sizes of stores
  NoRes       \* no reservation

Addrs == 0 .. AddrMod - 1

ASSUME ReservationAssumption ==
  /\ AddrMod \in Nat \ {0}
  /\ LrSizes \subseteq 1 .. AddrMod - 1 /\ StoreSizes \subseteq 1 .. AddrMod - 1
  /\ NoRes \notin Addrs \X LrSizes

VARIABLES
  reservation,  \* Vm::reservation
  lr,           \* the address and size of the last LR, or NoRes
  touched       \* addresses the hart has stored to since

resVars == <<reservation, lr, touched>>

Bytes(addr, size) == {(addr + i) % AddrMod : i \in 0 .. size - 1}

ResInit == reservation = NoRes /\ lr = NoRes /\ touched = {}

LR(addr, size) ==
  /\ reservation' = <<addr, size>>
  /\ lr' = <<addr, size>>
  /\ touched' = {}

(* Faulty variant: only a store to the very address ends the reservation. *)
Bad_overlaps(addr, size) == addr = reservation[1]

(* The test of check_reservation_on_store, whose sums wrap *)
overlaps(addr, size) ==
  /\ addr < (reservation[1] + reservation[2]) % AddrMod
  /\ reservation[1] < (addr + size) % AddrMod

(* SB, SH, SW, SD *)
StoreRes(addr, size) ==
  /\ reservation' = IF reservation # NoRes /\ overlaps(addr, size) THEN NoRes
                    ELSE reservation
  /\ touched' = IF lr = NoRes THEN {} ELSE touched \union Bytes(addr, size)
  /\ UNCHANGED lr

(* Every AMO ends the reservation, wherever it stores. *)
Amo ==
  /\ reservation' = NoRes
  /\ lr' = NoRes
  /\ touched' = {}

SC(addr, size, ok) ==
  /\ ok = (reservation = <<addr, size>>)
  /\ reservation' = NoRes
  /\ lr' = NoRes
  /\ touched' = {}

ResNext ==
  \/ \E addr \in Addrs, size \in LrSizes : LR(addr, size)
  \/ \E addr \in Addrs, size \in StoreSizes : StoreRes(addr, size)
  \/ Amo
  \/ \E addr \in Addrs, size \in LrSizes, ok \in BOOLEAN : SC(addr, size, ok)

ResSpec == ResInit /\ [][ResNext]_resVars

(* The type invariant of the reservation. *)
ResTypeOK ==
  /\ reservation \in (Addrs \X LrSizes) \union {NoRes}
  /\ lr \in (Addrs \X LrSizes) \union {NoRes}
  /\ touched \subseteq Addrs

(* SC succeeds exactly when its address and size are those of the last LR, *)
(* no SC or AMO came between, and the hart has stored to none of the       *)
(* reserved bytes.  The exceptions are at the top of the address space,    *)
(* where the end of the reservation or of the store wraps to a small       *)
(* address and check_reservation_on_store sees no overlap.                 *)
WrapsAround(addr, size) == addr + size >= AddrMod

ScSucceedsIffUndisturbed ==
  \A addr \in Addrs, size \in LrSizes :
    (reservation = <<addr, size>>) =
      (lr = <<addr, size>> /\ touched \intersect Bytes(addr, size) = {})
    \/ WrapsAround(addr, size)
    \/ \E a \in touched : WrapsAround(a, 1)
=============================================================================
