----------------------------- MODULE MCMachine -----------------------------
(***************************************************************************)
(* TLC instance of the machine around the hart: the block device, address  *)
(* translation and the reservation.  The three share no state but guest    *)
(* memory, of which each models its own cells, so a behaviour runs one of  *)
(* them, chosen at the start, and leaves the others in an initial state.   *)
(***************************************************************************)
EXTENDS VirtioBlock, Translation, Reservation

VARIABLE part

machineVars == <<part, diskVars, mmuVars, resVars>>

(* The disk's contents and the width of the driver's stores are open only  *)
(* where the device runs.                                                  *)
MachineInit ==
  /\ DiskInit /\ MmuInit /\ ResInit
  /\ part \in {"disk", "mmu", "reservation"}
  /\ part # "disk" => /\ width = "byte"
                      /\ vdisk = [s \in DiskSectors |-> CHOOSE v \in Values : TRUE]

MachineNext ==
  /\ UNCHANGED part
  /\ \/ part = "disk" /\ DiskNext /\ UNCHANGED <<mmuVars, resVars>>
     \/ part = "mmu" /\ MmuNext /\ UNCHANGED <<diskVars, resVars>>
     \/ part = "reservation" /\ ResNext /\ UNCHANGED <<diskVars, mmuVars>>

(* Ticks keep coming: Vm::step calls tick_devices before each instruction, *)
(* Vm::run before each batch of TICK_INTERVAL instructions.                *)
MachineSpec ==
  MachineInit /\ [][MachineNext]_machineVars /\ WF_diskVars(part = "disk" /\ Device)

(* The type invariant of the three parts. *)
MachineTypeOK == DiskTypeOK /\ MmuTypeOK /\ ResTypeOK

----------------------------------------------------------------------------
(* The instance *)

TopByteSet == <<0, 0, 0, 128>>

Page(perm, ppn) ==
  [v |-> TRUE, perm |-> perm, a |-> FALSE, d |-> FALSE, ppn |-> ppn]
NoPage == [v |-> FALSE, perm |-> {}, a |-> FALSE, d |-> FALSE, ppn |-> 0]

(* Space "A" maps its first page through a leaf table, space "B" both of   *)
(* its pages with a superpage.                                             *)
FirstPtes ==
  [c \in Cells |-> CASE c = <<"A", 1, 0>> -> Page({}, 0)
                     [] c = <<"A", 0, 0>> -> Page({"R", "W"}, 1)
                     [] c = <<"B", 1, 0>> -> Page({"R", "W"}, 6)
                     [] OTHER -> NoPage]

(* Superpages aligned and not, the reserved pattern, a user page that can  *)
(* only be executed, a pointer at the last level.                          *)
SomeStores ==
  ({<<"A", 1, 0>>} \X {Page({}, 0), Page({"R", "W"}, 2), Page({"R", "W"}, 3),
                       Page({"W"}, 0)})
    \union ({<<"A", 0, 0>>} \X {Page({"R", "W"}, 1), Page({"X", "U"}, 4),
                                Page({}, 0)})

NoneOrBoth == {<<FALSE, FALSE>>, <<TRUE, TRUE>>}
=============================================================================
