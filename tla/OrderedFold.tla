---------------------------- MODULE OrderedFold ----------------------------
(***************************************************************************)
(* What phase 2 of prove-boot promises, without its threads: the chunks    *)
(* are folded one by one in the order of their index; a chunk may be lost  *)
(* before it is folded; the fold ends well only at the end of the chunks   *)
(* or at the first lost one; and only a fold that ended well is written.   *)
(* ProvePipeline implements this.                                          *)
(***************************************************************************)
EXTENDS Naturals

CONSTANTS NumChunks

VARIABLES
  folded,   \* how many chunks are folded: 0 .. folded - 1
  lost,     \* chunks that will never be folded
  outcome,  \* "none" until the fold ends
  phase     \* "running", then "written" or "failed"

vars == <<folded, lost, outcome, phase>>

Init ==
  /\ folded = 0
  /\ lost = {}
  /\ outcome = "none"
  /\ phase = "running"

FoldNext ==
  /\ phase = "running" /\ outcome = "none"
  /\ folded < NumChunks /\ folded \notin lost
  /\ folded' = folded + 1
  /\ UNCHANGED <<lost, outcome, phase>>

(* A chunk is lost once, and never after it was folded. *)
Lose ==
  /\ phase = "running"
  /\ \E c \in folded .. NumChunks - 1 : c \notin lost /\ lost' = lost \union {c}
  /\ UNCHANGED <<folded, outcome, phase>>

EndOk ==
  /\ phase = "running" /\ outcome = "none"
  /\ folded > 0
  /\ folded = NumChunks \/ folded \in lost
  /\ outcome' = "ok"
  /\ UNCHANGED <<folded, lost, phase>>

EndErr ==
  /\ phase = "running" /\ outcome = "none"
  /\ outcome' = "err"
  /\ UNCHANGED <<folded, lost, phase>>

Write ==
  /\ phase = "running" /\ outcome = "ok"
  /\ phase' = "written"
  /\ UNCHANGED <<folded, lost, outcome>>

(* An input or output error, a second signal, or a fold that failed. *)
Fail ==
  /\ phase = "running"
  /\ phase' = "failed"
  /\ UNCHANGED <<folded, lost, outcome>>

Next == FoldNext \/ Lose \/ EndOk \/ EndErr \/ Write \/ Fail

Spec == Init /\ [][Next]_vars
=============================================================================
