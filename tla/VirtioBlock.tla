---------------------------- MODULE VirtioBlock ----------------------------
(***************************************************************************)
(* The VirtIO block device and a driver in the guest.  The driver sets the *)
(* device's registers with guest stores, which the VM splits into bytes,   *)
(* then fills descriptors and the available ring step by step; the device  *)
(* runs inside tick_devices between any two guest instructions, carries    *)
(* out every request it finds and fills the used ring.  Ring indices are   *)
(* u16 counters that wrap (IdxMod stands for 2^16).                        *)
(*                                                                         *)
(* A call of process_queue is a Begin step, a step per request and an End  *)
(* step; the guest does not run while it is under way.  The registers that *)
(* matter are QueueNum, QueueReady and QueueAddr, which stands for the     *)
(* addresses of the three rings.  A sector is one value.                   *)
(***************************************************************************)
EXTENDS Integers, Sequences, FiniteSets

CONSTANTS
  QueueSize,   \* the ring size the driver asks for
  RingAddr,    \* the address word the driver asks for: four bytes
  IdxMod,      \* the width of the ring indices
  Heads,       \* first descriptors the driver uses, three apart
  Values,      \* what a sector holds
  NumSectors,  \* the size of the disk
  Idle         \* no request

ASSUME QueueAssumption ==
  /\ QueueSize \in 1 .. 256
  /\ IdxMod \in Nat /\ IdxMod % QueueSize = 0
  /\ \A g, h \in Heads : g \in Nat /\ (g # h => g - h >= 3 \/ h - g >= 3)
  /\ IsFiniteSet(Heads)
  /\ Cardinality(Heads) <= QueueSize /\ Cardinality(Heads) < IdxMod
ASSUME DiskAssumption == NumSectors \in Nat /\ RingAddr \in [1 .. 4 -> 0 .. 255]

VARIABLES
  regs,       \* queue_num, queue_ready and the ring addresses, as bytes
  width,      \* the width of the driver's register stores: "byte", "word"
  stored,     \* the registers the driver has stored
  notify,     \* notify_pending
  intr,       \* interrupt_status bit 0
  lastAvail,  \* last_avail_idx
  snap,       \* the avail_idx a running process_queue has read, or Idle
  vdisk,      \* the backing storage
  availIdx, availRing,          \* the available ring in guest memory
  usedIdx, usedRing,            \* the used ring in guest memory
  req,        \* the request header behind each first descriptor
  buf,        \* the buffer each descriptor points to
  dpc,        \* where the driver is in submitting a request
  filling,    \* the first descriptor it is submitting
  handling,   \* whether its interrupt handler runs
  lastUsed    \* how far it has collected the used ring

diskVars == <<regs, width, stored, notify, intr, lastAvail, snap, vdisk,
              availIdx, availRing, usedIdx, usedRing, req, buf, dpc, filling,
              handling, lastUsed>>
registers == <<regs, width, stored>>
guestVars == <<availIdx, availRing, req, dpc, filling, handling, lastUsed>>

Registers == {"QueueNum", "QueueReady", "QueueAddr"}
Zero == <<0, 0, 0, 0>>
Wanted == [QueueNum |-> <<QueueSize % 256, QueueSize \div 256, 0, 0>>,
           QueueReady |-> <<1, 0, 0, 0>>,
           QueueAddr |-> RingAddr]

Slots == 0 .. QueueSize - 1
Indices == 0 .. IdxMod - 1
Descs == UNION {h .. h + 2 : h \in Heads}
DiskSectors == 0 .. NumSectors - 1
Headers == [type : {"in", "out"}, sector : 0 .. NumSectors, linked : BOOLEAN]
             \union [type : {"other"}, sector : {0}, linked : BOOLEAN]

DiskInit ==
  /\ regs = [r \in Registers |-> Zero]
  /\ width \in {"byte", "word"} /\ stored = {}
  /\ notify = FALSE /\ intr = FALSE
  /\ lastAvail = 0 /\ snap = Idle
  /\ vdisk \in [DiskSectors -> Values]
  /\ availIdx = 0 /\ availRing = [s \in Slots |-> Idle]
  /\ usedIdx = 0 /\ usedRing = [s \in Slots |-> Idle]
  /\ req = [h \in Heads |-> Idle]
  /\ buf = [d \in Descs |-> Idle]
  /\ dpc = "setup" /\ filling = Idle
  /\ handling = FALSE /\ lastUsed = 0

----------------------------------------------------------------------------
(* Register access *)

(* read_u32 of a register that holds word: of the three, only QueueReady   *)
(* can be read back.                                                       *)
read_u32(r, word) == IF r = "QueueReady" THEN word ELSE Zero

(* Faulty variant: the byte replaces the whole word. *)
Bad_write_u8(r, word, i, b) == [Zero EXCEPT ![i] = b]

(* write_u8: what register r, holding word, becomes when b is stored to    *)
(* its byte i.                                                             *)
write_u8(r, word, i, b) == [read_u32(r, word) EXCEPT ![i] = b]

(* mmio_store_word: the guest's word store is four byte stores. *)
mmio_store_word(r, w) ==
  write_u8(r, write_u8(r, write_u8(r, write_u8(r, regs[r],
    1, w[1]), 2, w[2]), 3, w[3]), 4, w[4])

(* The driver stores a register with a word store, or with a byte store of *)
(* the one byte that is not zero.                                          *)
DriverStores(r) ==
  /\ dpc = "setup" /\ snap = Idle
  /\ r \notin stored
  /\ \/ width = "word" /\ regs' = [regs EXCEPT ![r] = mmio_store_word(r, Wanted[r])]
     \/ /\ width = "byte"
        /\ \E i \in 1 .. 4 :
             /\ Wanted[r] = [Zero EXCEPT ![i] = Wanted[r][i]]
             /\ regs' = [regs EXCEPT ![r] = write_u8(r, regs[r], i, Wanted[r][i])]
  /\ stored' = stored \union {r}
  /\ dpc' = IF stored' = Registers THEN "run" ELSE "setup"
  /\ UNCHANGED <<width, notify, intr, lastAvail, snap, vdisk, availIdx, availRing,
                 usedIdx, usedRing, req, buf, filling, handling, lastUsed>>

(* QueueNotify *)
DriverNotifies ==
  /\ dpc # "setup" /\ snap = Idle
  /\ notify' = TRUE
  /\ UNCHANGED <<registers, intr, lastAvail, snap, vdisk, usedIdx, usedRing,
                 buf, guestVars>>

(* InterruptACK, at the start of the driver's handler *)
DriverAcks ==
  /\ snap = Idle /\ ~handling
  /\ intr
  /\ intr' = FALSE
  /\ handling' = TRUE
  /\ UNCHANGED <<registers, notify, lastAvail, snap, vdisk, availIdx,
                 availRing, usedIdx, usedRing, req, buf, dpc, filling, lastUsed>>

----------------------------------------------------------------------------
(* The driver's side of the rings: a tick may come between any two steps. *)

(* Faulty variant: the index does not wrap. *)
Bad_wrapping_add(i) == i + 1

(* u16::wrapping_add(1) *)
wrapping_add(i) == (i + 1) % IdxMod

Distance(from, to) == (to - from) % IdxMod
Live == {availRing[((lastUsed + k) % IdxMod) % QueueSize] :
           k \in 0 .. Distance(lastUsed, availIdx) - 1}

DataDesc(h, linked) == IF linked THEN h + 2 ELSE h + 1
StatusDesc(h, linked) == IF linked THEN h + 1 ELSE h + 2

(* Write a chain of three descriptors: linked by NEXT flags in another     *)
(* order, or one after the other without flags.                            *)
DriverFills ==
  /\ dpc = "run" /\ snap = Idle
  /\ \E h \in Heads, r \in Headers, v \in Values \union {Idle} :
       /\ h \notin Live
       /\ (r.type = "out") = (v \in Values)
       /\ filling' = h
       /\ req' = [req EXCEPT ![h] = r]
       /\ buf' = [buf EXCEPT ![DataDesc(h, r.linked)] = v,
                             ![StatusDesc(h, r.linked)] = "none"]
  /\ dpc' = "filled"
  /\ UNCHANGED <<registers, notify, intr, lastAvail, snap, vdisk, availIdx,
                 availRing, usedIdx, usedRing, handling, lastUsed>>

DriverLists ==
  /\ dpc = "filled" /\ snap = Idle
  /\ availRing' = [availRing EXCEPT ![availIdx % QueueSize] = filling]
  /\ dpc' = "listed"
  /\ UNCHANGED <<registers, notify, intr, lastAvail, snap, vdisk, availIdx,
                 usedIdx, usedRing, req, buf, filling, handling, lastUsed>>

DriverPublishes ==
  /\ dpc = "listed" /\ snap = Idle
  /\ availIdx' = wrapping_add(availIdx)
  /\ dpc' = "run" /\ filling' = Idle
  /\ UNCHANGED <<registers, notify, intr, lastAvail, snap, vdisk, availRing,
                 usedIdx, usedRing, req, buf, handling, lastUsed>>

(* Take a completion from the used ring and forget its buffers. *)
DriverCollects ==
  /\ handling /\ snap = Idle
  /\ lastUsed # usedIdx
  /\ LET h == usedRing[lastUsed % QueueSize].id
     IN  /\ req' = [req EXCEPT ![h] = Idle]
         /\ buf' = [d \in Descs |-> IF d \in h .. h + 2 THEN Idle ELSE buf[d]]
         /\ availRing' = [s \in Slots |-> IF availRing[s] = h THEN Idle
                                          ELSE availRing[s]]
  /\ usedRing' = [usedRing EXCEPT ![lastUsed % QueueSize] = Idle]
  /\ lastUsed' = wrapping_add(lastUsed)
  /\ UNCHANGED <<registers, notify, intr, lastAvail, snap, vdisk, availIdx,
                 usedIdx, dpc, filling, handling>>

DriverReturns ==
  /\ handling /\ snap = Idle
  /\ lastUsed = usedIdx
  /\ handling' = FALSE
  /\ UNCHANGED <<registers, notify, intr, lastAvail, snap, vdisk, availIdx,
                 availRing, usedIdx, usedRing, req, buf, dpc, filling, lastUsed>>

----------------------------------------------------------------------------
(* The device *)

Num(word) == word[1] + 256 * (word[2] + 256 * (word[3] + 256 * word[4]))

queue_num == Num(regs["QueueNum"])

(* Faulty variant: the available index is not read again. *)
Bad_Begin ==
  /\ snap = Idle
  /\ notify
  /\ notify' = FALSE
  /\ snap' = IF regs["QueueReady"] = Zero \/ queue_num = 0 THEN Idle ELSE lastAvail
  /\ UNCHANGED <<registers, intr, lastAvail, vdisk, usedIdx, usedRing, buf,
                 guestVars>>

(* process_queue: without a ready queue only the notification is cleared;  *)
(* otherwise the available index is read once.                             *)
Begin ==
  /\ snap = Idle
  /\ notify
  /\ notify' = FALSE
  /\ snap' = IF regs["QueueReady"] = Zero \/ queue_num = 0 THEN Idle ELSE availIdx
  /\ UNCHANGED <<registers, intr, lastAvail, vdisk, usedIdx, usedRing, buf,
                 guestVars>>

(* Faulty variant: an unknown request type succeeds. *)
Bad_succeeds(r) == r.sector < NumSectors

(* The status byte is VIRTIO_BLK_S_OK. Sectors are below 2^55, where the   *)
(* byte offset of a sector does not leave its u64.                         *)
succeeds(r) == r.type # "other" /\ r.sector < NumSectors

(* One request: follow its chain, carry it out, write its status, post it  *)
(* in the used ring.                                                       *)
ServeOne ==
  /\ snap # Idle
  /\ lastAvail # snap
  /\ LET h      == availRing[lastAvail % queue_num]
         r      == req[h]
         data   == DataDesc(h, r.linked)
         status == StatusDesc(h, r.linked)
         ok     == succeeds(r)
         in     == ok /\ r.type = "in"
     IN  /\ buf' = [buf EXCEPT
                      ![data] = IF in THEN vdisk[r.sector] ELSE @,
                      ![status] = IF ok THEN "ok" ELSE "ioerr"]
         /\ vdisk' = IF ok /\ r.type = "out"
                       THEN [vdisk EXCEPT ![r.sector] = buf[data]] ELSE vdisk
         /\ usedRing' = [usedRing EXCEPT
              ![usedIdx % queue_num] = [id |-> h, len |-> IF in THEN 1 ELSE 0]]
  /\ usedIdx' = wrapping_add(usedIdx)
  /\ lastAvail' = wrapping_add(lastAvail)
  /\ UNCHANGED <<registers, notify, intr, snap, guestVars>>

(* Faulty variant: signals only if requests are left. *)
Bad_End ==
  /\ snap # Idle
  /\ lastAvail = snap
  /\ intr' = (intr \/ lastAvail # availIdx)
  /\ snap' = Idle
  /\ UNCHANGED <<registers, notify, lastAvail, vdisk, usedIdx, usedRing, buf,
                 guestVars>>

(* The end of process_queue: signal used buffers, unless both indices are  *)
(* zero.                                                                   *)
End ==
  /\ snap # Idle
  /\ lastAvail = snap
  /\ intr' = (intr \/ lastAvail # 0 \/ snap # 0)
  /\ snap' = Idle
  /\ UNCHANGED <<registers, notify, lastAvail, vdisk, usedIdx, usedRing, buf,
                 guestVars>>

Device == Begin \/ ServeOne \/ End

Driver == \/ \E r \in Registers : DriverStores(r)
          \/ DriverNotifies \/ DriverAcks
          \/ DriverFills \/ DriverLists \/ DriverPublishes
          \/ DriverCollects \/ DriverReturns

DiskNext == Device \/ Driver

DiskSpec == DiskInit /\ [][DiskNext]_diskVars

----------------------------------------------------------------------------
(* Properties *)

(* The type invariant of the device, the rings and the driver. *)
DiskTypeOK ==
  /\ regs \in [Registers -> [1 .. 4 -> 0 .. 255]]
  /\ width \in {"byte", "word"} /\ stored \subseteq Registers
  /\ notify \in BOOLEAN /\ intr \in BOOLEAN /\ handling \in BOOLEAN
  /\ {lastAvail, availIdx, usedIdx, lastUsed} \subseteq Indices
  /\ snap \in Indices \union {Idle}
  /\ vdisk \in [DiskSectors -> Values]
  /\ availRing \in [Slots -> Heads \union {Idle}]
  /\ usedRing \in [Slots -> [id : Heads, len : {0, 1}] \union {Idle}]
  /\ req \in [Heads -> Headers \union {Idle}]
  /\ buf \in [Descs -> Values \union {"none", "ok", "ioerr", Idle}]
  /\ dpc \in {"setup", "run", "filled", "listed"}
  /\ filling \in Heads \union {Idle}

(* The requests the device has not reached and the completions the driver  *)
(* has not collected, read off the rings.                                  *)
InFlight ==
  [k \in 1 .. Distance(lastAvail, availIdx) |->
     LET h == availRing[((lastAvail + k - 1) % IdxMod) % QueueSize]
     IN  [head |-> h, type |-> req[h].type, sector |-> req[h].sector,
          data |-> buf[DataDesc(h, req[h].linked)]]]

Completed ==
  [k \in 1 .. Distance(lastUsed, usedIdx) |->
     LET u == usedRing[((lastUsed + k - 1) % IdxMod) % QueueSize]
         h == u.id
     IN  [head |-> h, len |-> u.len,
          ok   |-> buf[StatusDesc(h, req[h].linked)] = "ok",
          data |-> buf[DataDesc(h, req[h].linked)]]]

Store == INSTANCE BlockStore WITH
  Values <- Values \union {Idle},
  disk <- vdisk, flight <- InFlight, done <- Completed

(* The device implements the block store: whenever ticks come between the  *)
(* driver's steps, and across the wrap of the ring indices, every request  *)
(* is carried out exactly once, in order, and completed with its own       *)
(* buffer, status and length.                                              *)
ImplementsBlockStore == Store!Init /\ [][Store!Next]_(Store!vars)

(* A completion the driver has not seen is signalled, or its handler is at *)
(* work, or the device's index has just wrapped to zero: in that one case  *)
(* process_queue takes the zero for "nothing done" (virtio.rs, the test    *)
(* after the loop) and no interrupt is raised.                             *)
SignalledUnlessWrapped ==
  snap = Idle /\ lastUsed # usedIdx => intr \/ handling \/ lastAvail = 0

(* After a store to a register, the register holds what was stored, with   *)
(* one exception: a word store to a register that cannot be read back      *)
(* keeps only its last byte, because each of the four byte stores is a     *)
(* read-modify-write over zero.                                            *)
StoresReachRegisters ==
  \A r \in stored :
    \/ regs[r] = Wanted[r]
    \/ /\ width = "word" /\ r # "QueueReady"
       /\ regs[r] = [Zero EXCEPT ![4] = Wanted[r][4]]

(* A published request is carried out once the driver has notified the     *)
(* device, if the ring size reached the device.                            *)
NotifiedRequestsServed ==
  \A h \in Heads :
    (notify /\ queue_num # 0 /\ \E k \in DOMAIN InFlight : InFlight[k].head = h)
      ~> (\A k \in DOMAIN InFlight : InFlight[k].head # h)
=============================================================================
