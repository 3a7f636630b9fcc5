-------------------------------- MODULE Hart --------------------------------
(***************************************************************************)
(* The privileged RV64 hart of the VM: polling of devices and interrupts,  *)
(* trap delivery with delegation, the trap returns MRET and SRET, and the  *)
(* CSR instructions that touch the trap state, under any guest software.   *)
(*                                                                         *)
(* A register of flag bits is the set of the bits that are 1, so the masks *)
(* of csr.rs are set operations.  mip is not kept: the five device bits    *)
(* are recomputed by every tick_devices right before the only place that   *)
(* looks at them, so Poll takes them as an input; SSIP alone persists.     *)
(* Code addresses are opaque; a handler's entry stands for base + 4*cause  *)
(* too.  A CSR instruction of the guest sets or clears one bit.            *)
(***************************************************************************)
EXTENDS Naturals, FiniteSets

CONSTANTS
  Code,          \* addresses of ordinary code
  Stvec, Mtvec,  \* the handlers' entries
  Devices,       \* device interrupts that may be raised (all but SSI)
  Exceptions,    \* synchronous causes that may be met
  Delegable,     \* causes the guest may delegate
  StatusBits,    \* the flag bits of mstatus the guest may write
  TickInterval,  \* inner steps between two polls: 1 for step, 64 for run
  None

Interrupts == {"MEI", "MSI", "MTI", "SEI", "SSI", "STI"}
Flags == {"SIE", "MIE", "SPIE", "MPIE", "SPP", "TSR", "TW", "TVM"}

ASSUME DevicesAssumption == Devices \subseteq Interrupts \ {"SSI"}
ASSUME StatusBitsAssumption == StatusBits \subseteq Flags
ASSUME TickIntervalAssumption == TickInterval \in Nat \ {0}

VARIABLES
  pc, priv,    \* CpuState.pc, CpuState.priv_mode
  mstatus,     \* the flags of mstatus that are set
  mpp,         \* the two bits of mstatus.MPP
  mepc, sepc,
  mie,         \* the enabled interrupts
  ssip,        \* mip.SSIP
  deleg,       \* medeleg and mideleg
  left,        \* inner steps before the next poll
  mframe,      \* history: what the last trap to M interrupted, or None once
  sframe       \* the guest has changed what it saved; the same for S

vars == <<pc, priv, mstatus, mpp, mepc, sepc, mie, ssip, deleg, left,
          mframe, sframe>>

Modes == {"U", "S", "M"}
PCs == Code \union {Stvec, Mtvec}
Frame == [pc : PCs, priv : Modes, enabled : BOOLEAN]

ASSUME NoneAssumption == None \notin Frame

S_MASK == {"SSI", "STI", "SEI"}
SSTATUS_MASK == {"SIE", "SPIE", "SPP"}

(* PrivilegeMode as u64, and back: the reserved pattern 2 means M. *)
Bits == [U |-> 0, S |-> 1, M |-> 3]

(* Faulty variant of from_bits: the reserved pattern is kept. *)
Bad_from_bits(bits) ==
  CASE bits = 0 -> "U" [] bits = 1 -> "S" [] bits = 2 -> "reserved" [] OTHER -> "M"

from_bits(bits) == CASE bits = 0 -> "U" [] bits = 1 -> "S" [] OTHER -> "M"

(* priv_mode >= required_privilege *)
AtLeast(mode) == CASE mode = "M" -> priv = "M"
                   [] mode = "S" -> priv \in {"S", "M"}
                   [] OTHER -> TRUE

(* bit := b in a set of bits *)
Assign(bits, bit, b) == IF b THEN bits \union {bit} ELSE bits \ {bit}

(* The loaded VM: M-mode, everything masked, nothing delegated. *)
Init ==
  /\ pc \in Code
  /\ priv = "M"
  /\ mstatus = {}
  /\ mpp = 0
  /\ mepc \in Code
  /\ sepc = mepc
  /\ mie = {}
  /\ ssip = FALSE
  /\ deleg = {}
  /\ left = 0
  /\ mframe = None
  /\ sframe = None

----------------------------------------------------------------------------
(* Trap delivery *)

(* Faulty variants of deliver_trap: SIE stays set in an S handler, and a   *)
(* trap to M overwrites the S level's saved enable bit.                    *)
Bad_DeliverKeepsSie(cause, epc) ==
  LET delegated == priv # "M" /\ cause \in deleg
  IN  IF delegated
      THEN /\ sepc' = epc
           /\ mstatus' = Assign(Assign(mstatus, "SPIE", "SIE" \in mstatus),
                                "SPP", priv = "S")
           /\ pc' = Stvec
           /\ priv' = "S"
           /\ sframe' = [pc |-> epc, priv |-> priv, enabled |-> "SIE" \in mstatus]
           /\ UNCHANGED <<mepc, mpp, mframe>>
      ELSE /\ mepc' = epc
           /\ mstatus' = Assign(Assign(mstatus, "MPIE", "MIE" \in mstatus),
                                "MIE", FALSE)
           /\ mpp' = Bits[priv]
           /\ pc' = Mtvec
           /\ priv' = "M"
           /\ mframe' = [pc |-> epc, priv |-> priv, enabled |-> "MIE" \in mstatus]
           /\ UNCHANGED <<sepc, sframe>>

Bad_DeliverClobbersSpie(cause, epc) ==
  LET delegated == priv # "M" /\ cause \in deleg
  IN  IF delegated
      THEN /\ sepc' = epc
           /\ mstatus' = Assign(Assign(Assign(mstatus, "SPIE", "SIE" \in mstatus),
                                       "SPP", priv = "S"), "SIE", FALSE)
           /\ pc' = Stvec
           /\ priv' = "S"
           /\ sframe' = [pc |-> epc, priv |-> priv, enabled |-> "SIE" \in mstatus]
           /\ UNCHANGED <<mepc, mpp, mframe>>
      ELSE /\ mepc' = epc
           /\ mstatus' = Assign(Assign(Assign(mstatus, "MPIE", "MIE" \in mstatus),
                                       "SPIE", "SIE" \in mstatus), "MIE", FALSE)
           /\ mpp' = Bits[priv]
           /\ pc' = Mtvec
           /\ priv' = "M"
           /\ mframe' = [pc |-> epc, priv |-> priv, enabled |-> "MIE" \in mstatus]
           /\ UNCHANGED <<sepc, sframe>>

(* Faulty variant of Delegated: traps from M-mode are delegated, too. *)
Bad_Delegated(cause) == cause \in deleg

(* Delegated traps go to S-mode; traps from M-mode never do. *)
Delegated(cause) == priv # "M" /\ cause \in deleg

(* deliver_trap; the frames remember what was interrupted. *)
deliver_trap(cause, epc) ==
  IF Delegated(cause)
  THEN /\ sepc' = epc
       /\ mstatus' = Assign(Assign(Assign(mstatus, "SPIE", "SIE" \in mstatus),
                                   "SPP", priv = "S"), "SIE", FALSE)
       /\ pc' = Stvec
       /\ priv' = "S"
       /\ sframe' = [pc |-> epc, priv |-> priv, enabled |-> "SIE" \in mstatus]
       /\ UNCHANGED <<mepc, mpp, mframe>>
  ELSE /\ mepc' = epc
       /\ mstatus' = Assign(Assign(mstatus, "MPIE", "MIE" \in mstatus),
                            "MIE", FALSE)
       /\ mpp' = Bits[priv]
       /\ pc' = Mtvec
       /\ priv' = "M"
       /\ mframe' = [pc |-> epc, priv |-> priv, enabled |-> "MIE" \in mstatus]
       /\ UNCHANGED <<sepc, sframe>>

----------------------------------------------------------------------------
(* Polling *)

(* Priority order: MEI > MSI > MTI > SEI > SSI > STI *)
Priority == [MEI |-> 1, MSI |-> 2, MTI |-> 3, SEI |-> 4, SSI |-> 5, STI |-> 6]

(* check_pending_interrupts: may this interrupt be taken now? *)
should_take(cause) ==
  IF cause \in deleg
  THEN priv = "U" \/ (priv = "S" /\ "SIE" \in mstatus)
  ELSE priv # "M" \/ "MIE" \in mstatus

(* The pending, enabled interrupts that may be taken, with the device bits *)
(* as lines                                                                *)
Takeable(lines) ==
  {c \in (lines \union (IF ssip THEN {"SSI"} ELSE {})) \cap mie : should_take(c)}

(* tick_devices followed by check_pending_interrupts; the batch of inner   *)
(* steps that follows may be cut short by run's step limit.                *)
Poll ==
  /\ left = 0
  /\ left' \in 1 .. TickInterval
  /\ \E lines \in SUBSET Devices :
       \/ /\ Takeable(lines) = {}
          /\ UNCHANGED <<pc, priv, mstatus, mpp, mepc, sepc, mframe, sframe>>
       \/ \E c \in Takeable(lines) :
            /\ \A d \in Takeable(lines) : Priority[c] <= Priority[d]
            /\ deliver_trap(c, pc)
  /\ UNCHANGED <<mie, ssip, deleg>>

----------------------------------------------------------------------------
(* step_inner: one instruction of the guest *)

(* A synchronous exception at the fetch or in execute: a page fault, an    *)
(* illegal instruction, ECALL, EBREAK, a refused CSR access, or SRET, WFI  *)
(* or SFENCE.VMA in S-mode with TSR, TW or TVM set.                        *)
Exception ==
  /\ left > 0
  /\ \E cause \in Exceptions : deliver_trap(cause, pc)
  /\ left' = left - 1
  /\ UNCHANGED <<mie, ssip, deleg>>

(* An instruction without effect on the trap state, or WFI, which is a NOP *)
Compute ==
  /\ left > 0
  /\ pc' \in Code
  /\ left' = left - 1
  /\ UNCHANGED <<priv, mstatus, mpp, mepc, sepc, mie, ssip, deleg, mframe,
                 sframe>>

(* Faulty variant of MRET: MIE keeps its value. *)
Bad_MRET ==
  /\ left > 0
  /\ mstatus' = mstatus \union {"MPIE"}
  /\ mpp' = 0
  /\ priv' = from_bits(mpp)
  /\ pc' = mepc
  /\ left' = left - 1
  /\ mframe' = None
  /\ UNCHANGED <<mepc, sepc, mie, ssip, deleg, sframe>>

MRET ==
  /\ left > 0
  /\ mstatus' = Assign(mstatus, "MIE", "MPIE" \in mstatus) \union {"MPIE"}
  /\ mpp' = 0
  /\ priv' = from_bits(mpp)
  /\ pc' = mepc
  /\ left' = left - 1
  /\ mframe' = None
  /\ UNCHANGED <<mepc, sepc, mie, ssip, deleg, sframe>>

SRET ==
  /\ left > 0
  /\ ~(priv = "S" /\ "TSR" \in mstatus)
  /\ mstatus' = (Assign(mstatus, "SIE", "SPIE" \in mstatus) \union {"SPIE"})
                \ {"SPP"}
  /\ priv' = IF "SPP" \in mstatus THEN "S" ELSE "U"
  /\ pc' = sepc
  /\ left' = left - 1
  /\ sframe' = None
  /\ UNCHANGED <<mpp, mepc, sepc, mie, ssip, deleg, mframe>>

(* A CSR write completes: the next instruction follows. *)
CsrDone == left > 0 /\ left' = left - 1 /\ pc' \in Code /\ UNCHANGED priv

(* CsrFile::write on mstatus, and on sstatus, its supervisor shadow: what  *)
(* a trap saved is no longer what the return will restore.                 *)
WriteStatus ==
  /\ CsrDone
  /\ \/ /\ AtLeast("M")
        /\ \/ \E f \in StatusBits, b \in BOOLEAN : mstatus' = Assign(mstatus, f, b)
              /\ UNCHANGED mpp
           \/ mpp' \in 0 .. 3 /\ UNCHANGED mstatus
        /\ mframe' = None
     \/ /\ AtLeast("S")
        /\ \E f \in SSTATUS_MASK, b \in BOOLEAN : mstatus' = Assign(mstatus, f, b)
        /\ UNCHANGED <<mpp, mframe>>
  /\ sframe' = None
  /\ UNCHANGED <<mepc, sepc, mie, ssip, deleg>>

WriteEpc ==
  /\ CsrDone
  /\ \/ AtLeast("M") /\ mepc' \in Code /\ mframe' = None /\ UNCHANGED <<sepc, sframe>>
     \/ AtLeast("S") /\ sepc' \in Code /\ sframe' = None /\ UNCHANGED <<mepc, mframe>>
  /\ UNCHANGED <<mstatus, mpp, mie, ssip, deleg>>

(* mie, and sie, its shadow under S_MASK *)
WriteIe ==
  /\ CsrDone
  /\ \E c \in Devices \union {"SSI"}, b \in BOOLEAN :
       /\ AtLeast("M") \/ (AtLeast("S") /\ c \in S_MASK)
       /\ mie' = Assign(mie, c, b)
  /\ UNCHANGED <<mstatus, mpp, mepc, sepc, ssip, deleg, mframe, sframe>>

(* mip or sip: of the bits that persist, SSIP *)
WriteIp ==
  /\ CsrDone
  /\ AtLeast("S")
  /\ ssip' \in BOOLEAN
  /\ UNCHANGED <<mstatus, mpp, mepc, sepc, mie, deleg, mframe, sframe>>

(* medeleg or mideleg *)
WriteDeleg ==
  /\ CsrDone
  /\ AtLeast("M")
  /\ \E c \in Delegable, b \in BOOLEAN : deleg' = Assign(deleg, c, b)
  /\ UNCHANGED <<mstatus, mpp, mepc, sepc, mie, ssip, mframe, sframe>>

Next == \/ Poll \/ Exception \/ Compute \/ MRET \/ SRET
        \/ WriteStatus \/ WriteEpc \/ WriteIe \/ WriteIp \/ WriteDeleg

Spec == Init /\ [][Next]_vars

----------------------------------------------------------------------------
(* Properties *)

(* The type invariant of the hart's trap state. *)
TypeOK ==
  /\ pc \in PCs
  /\ priv \in Modes
  /\ mstatus \subseteq Flags
  /\ mpp \in 0 .. 3
  /\ mepc \in PCs
  /\ sepc \in PCs
  /\ mie \subseteq Interrupts
  /\ ssip \in BOOLEAN
  /\ deleg \subseteq Delegable
  /\ left \in 0 .. TickInterval
  /\ mframe \in Frame \union {None}
  /\ sframe \in Frame \union {None}

(* A handler is not interrupted at its own level before the guest itself   *)
(* touches what the trap saved: check_pending_interrupts takes nothing in  *)
(* an untouched M handler, and nothing that goes to S in an untouched S    *)
(* handler, across everything that can happen in between, traps to M out   *)
(* of an S handler and their return included.                              *)
HandlerRunsMasked ==
  /\ mframe # None /\ priv = "M" => \A c \in Interrupts : ~should_take(c)
  /\ sframe # None /\ priv = "S" => \A c \in Interrupts \cap deleg : ~should_take(c)

(* A trap never lowers the privilege, whatever medeleg and mideleg say:    *)
(* "Traps from M-mode are never delegated".                                *)
TrapNeverLowersPrivilege ==
  [][ Poll \/ Exception => Bits[priv'] >= Bits[priv] ]_vars

(* MRET out of an untouched M handler puts the hart back exactly where the *)
(* trap found it: address, mode and interrupt enable.                      *)
MretRestores ==
  [][ MRET /\ mframe # None =>
        /\ pc' = mframe.pc
        /\ priv' = mframe.priv
        /\ ("MIE" \in mstatus') = mframe.enabled ]_vars

(* The same for SRET, although M-mode may have trapped out of the handler  *)
(* and returned any number of times: what S-mode saved is the S level's    *)
(* alone.                                                                  *)
SretRestores ==
  [][ SRET /\ sframe # None =>
        /\ pc' = sframe.pc
        /\ priv' = sframe.priv
        /\ ("SIE" \in mstatus') = sframe.enabled ]_vars

=============================================================================
