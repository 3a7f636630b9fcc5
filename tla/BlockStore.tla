----------------------------- MODULE BlockStore -----------------------------
(***************************************************************************)
(* What the VirtIO block device promises its driver, without rings and     *)
(* indices: requests are carried out one at a time in the order in which   *)
(* they were submitted, each exactly once, and their completions are       *)
(* collected in the same order.  VirtioBlock implements this.              *)
(***************************************************************************)
EXTENDS Naturals, Sequences

CONSTANTS Heads, Values, NumSectors

VARIABLES
  disk,    \* the contents of each sector
  flight,  \* requests submitted and not carried out, oldest first
  done     \* completions the driver has not collected, oldest first

vars == <<disk, flight, done>>

Sectors == 0 .. NumSectors - 1
Requests == [head : Heads, type : {"in", "out", "other"},
             sector : 0 .. NumSectors, data : Values]

Init ==
  /\ disk \in [Sectors -> Values]
  /\ flight = <<>>
  /\ done = <<>>

Outstanding == {flight[i].head : i \in DOMAIN flight}
                 \union {done[i].head : i \in DOMAIN done}

Submit ==
  /\ \E r \in Requests : r.head \notin Outstanding
                         /\ flight' = Append(flight, r)
  /\ UNCHANGED <<disk, done>>

(* A request for a sector that does not exist, or of an unknown type, ends *)
(* in an I/O error; len counts what was written to the driver's buffer.    *)
Serve ==
  /\ flight # <<>>
  /\ LET r  == Head(flight)
         ok == r.type # "other" /\ r.sector \in Sectors
     IN  /\ disk' = IF ok /\ r.type = "out"
                      THEN [disk EXCEPT ![r.sector] = r.data] ELSE disk
         /\ done' = Append(done,
              [head |-> r.head, ok |-> ok,
               len  |-> IF ok /\ r.type = "in" THEN 1 ELSE 0,
               data |-> IF ok /\ r.type = "in" THEN disk[r.sector]
                        ELSE r.data])
  /\ flight' = Tail(flight)

Collect ==
  /\ done # <<>>
  /\ done' = Tail(done)
  /\ UNCHANGED <<disk, flight>>

Next == Submit \/ Serve \/ Collect

Spec == Init /\ [][Next]_vars
=============================================================================
