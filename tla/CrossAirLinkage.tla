-------------------------- MODULE CrossAirLinkage --------------------------
(***************************************************************************)
(* joint_prove and joint_verify for one linkage between two AIRs: every    *)
(* active row of A looks its tuple up among the active rows of B.  Both    *)
(* traces are inflated to one domain, committed, and a third trace (the    *)
(* linkage) carries the LogUp columns that tie them together.              *)
(*                                                                         *)
(* 1/(gamma - t) is a formal symbol for each tuple t, so a sum of inverses *)
(* is a bag of tuples.  Column values are compared as whole columns: two   *)
(* polynomials that agree at the verifier's random point are the same one. *)
(***************************************************************************)
EXTENDS Naturals, Sequences, FiniteSets

CONSTANTS
  Tuples,      \* encoded tuples; 0 is that of an all-zero row
  AirsA,       \* the traces of A
  AirsB,       \* the traces of B
  MinPad,      \* the smallest padded size (16 in the code)
  RangeTable   \* RANGE_TABLE_SIZE (256 in the code)

(* A trace before joint_prove: the real rows' tuples and selector values,  *)
(* whether the linkage is gated by no column, an ordinary one or the AIR's *)
(* padding selector, whether the AIR declares lookups, and whether its     *)
(* fix_trace_padding copies the last row's tuple to the padding.           *)
Traces ==
  [tuple : Seq(Tuples), sel : Seq(Nat), gate : {"none", "column", "padding"},
   lookups : BOOLEAN, fixes : BOOLEAN]

ASSUME LinkageAssumption ==
  /\ 0 \in Tuples /\ Tuples \subseteq Nat
  /\ MinPad \in Nat \ {0} /\ RangeTable \in Nat
  /\ \A t \in AirsA \union AirsB :
       t \in Traces /\ Len(t.tuple) > 0 /\ Len(t.sel) = Len(t.tuple)

VARIABLES
  air,        \* the two traces, by side
  inflated,   \* their columns after inflation
  committed,  \* the columns phase 1 commits to
  witness,    \* the LogUp witness, by side
  linkage,    \* the linkage trace, by side
  verdict,    \* "none", or how it ended
  lpc

linkageVars == <<air, inflated, committed, witness, linkage, verdict, lpc>>
Sides == {"A", "B"}
Unset == [s \in Sides |-> <<>>]

Larger(x, y) == IF x > y THEN x ELSE y

nearest_power_of_two(n) ==
  CHOOSE p \in {MinPad * 2^k : k \in 0 .. n} :
    /\ n <= p
    /\ \A q \in {MinPad * 2^k : k \in 0 .. n} : n <= q => p <= q

LinkageInit ==
  /\ \E a \in AirsA, b \in AirsB : air = [s \in Sides |-> IF s = "A" THEN a ELSE b]
  /\ inflated = Unset /\ committed = Unset /\ witness = Unset /\ linkage = Unset
  /\ verdict = "none" /\ lpc = "inflate"

----------------------------------------------------------------------------
(* joint_prove *)

Rows(s) == Len(air[s].tuple)
effective_padded(s) ==
  LET native == nearest_power_of_two(Rows(s))
  IN  IF air[s].lookups THEN Larger(native, RangeTable) ELSE native
target_padded == Larger(effective_padded("A"), effective_padded("B"))

(* A column of n rows: the real ones, then what the padding holds *)
Column(real, n, pad) == [i \in 1 .. n |-> IF i <= Len(real) THEN real[i] ELSE pad]

fix_trace_padding(s) == IF air[s].fixes THEN air[s].tuple[Rows(s)] ELSE 0

Inflate ==
  /\ lpc = "inflate"
  /\ inflated' = [s \in Sides |->
       [tuple |-> Column(air[s].tuple, target_padded, fix_trace_padding(s)),
        sel |-> Column(air[s].sel, target_padded, 0)]]
  /\ lpc' = "commit"
  /\ UNCHANGED <<air, committed, witness, linkage, verdict>>

(* commit_main_columns_phase1 on the inflated traces: the same fix-ups     *)
(* again, and ones on the padding of the AIR's padding selector.           *)
CommitMain ==
  /\ lpc = "commit"
  /\ committed' = [s \in Sides |->
       [tuple |-> Column(air[s].tuple, target_padded, fix_trace_padding(s)),
        sel |-> Column(air[s].sel, target_padded, IF air[s].gate = "padding" THEN 1 ELSE 0)]]
  /\ lpc' = "witness"
  /\ UNCHANGED <<air, inflated, witness, linkage, verdict>>

(* Formal sums of inverses *)
Zero == [t \in Tuples |-> 0]
Times(m, t) == [Zero EXCEPT ![t] = m]
Plus(x, y) == [t \in Tuples |-> x[t] + y[t]]

(* build_active_column: every row without a selector, else the rows where  *)
(* it is not zero                                                          *)
build_active_column(s) ==
  {i \in 1 .. target_padded : air[s].gate = "none" \/ inflated[s].sel[i] # 0}

(* How often tuple t occurs among the active rows of A *)
a_count(t) ==
  LET at[n \in 0 .. target_padded] ==
        IF n = 0 THEN 0
        ELSE at[n - 1] + (IF n \in build_active_column("A") /\ inflated["A"].tuple[n] = t
                          THEN 1 ELSE 0)
  IN  at[target_padded]

(* Faulty variant: the count is not zeroed once a row has taken it. *)
Bad_m_column(i) ==
  IF i \in build_active_column("B") THEN a_count(inflated["B"].tuple[i]) ELSE 0

(* m_B: the first active row with a tuple takes its whole count. *)
m_column(i) ==
  LET tuple == inflated["B"].tuple
      first == \A j \in build_active_column("B") : j < i => tuple[j] # tuple[i]
  IN  IF i \in build_active_column("B") /\ first THEN a_count(tuple[i]) ELSE 0

f_column(s, i) ==
  IF s = "A" THEN Times(IF i \in build_active_column("A") THEN 1 ELSE 0, inflated["A"].tuple[i])
  ELSE Times(m_column(i), inflated["B"].tuple[i])

(* h[0] = 0 and h[i + 1] = h[i] + f[i], for rows counted from 1 *)
h_column(f) ==
  LET h[i \in 1 .. Len(f)] == IF i = 1 THEN Zero ELSE Plus(h[i - 1], f[i - 1]) IN h

unmatched ==
  \E i \in build_active_column("A") :
    \A j \in build_active_column("B") : inflated["B"].tuple[j] # inflated["A"].tuple[i]

(* compute_cross_air_logup_witness; its Err ends joint_prove. *)
ComputeWitness ==
  /\ lpc = "witness"
  /\ \/ /\ unmatched
        /\ verdict' = "unmatched" /\ lpc' = "done"
        /\ UNCHANGED witness
     \/ /\ ~unmatched
        /\ witness' = [s \in Sides |->
             LET f == [i \in 1 .. target_padded |-> f_column(s, i)]
                 h == h_column(f)
             IN  [f |-> f, h |-> h, closure |-> Plus(h[Len(f)], f[Len(f)])]]
        /\ lpc' = "linkage"
        /\ UNCHANGED verdict
  /\ UNCHANGED <<air, inflated, committed, linkage>>

(* build_linkage_trace.  After inflation both sides have the padded size   *)
(* of the linkage, so nothing is extended.                                 *)
BuildLinkage ==
  /\ lpc = "linkage"
  /\ linkage' = [s \in Sides |->
       [tuple |-> inflated[s].tuple,
        active |-> [i \in 1 .. target_padded |->
                      IF i \in build_active_column(s) THEN 1 ELSE 0],
        m |-> [i \in 1 .. target_padded |-> IF s = "A" THEN 0 ELSE m_column(i)],
        f |-> witness[s].f, h |-> witness[s].h]]
  /\ lpc' = "verify"
  /\ UNCHANGED <<air, inflated, committed, witness, verdict>>

----------------------------------------------------------------------------
(* joint_verify *)

(* The constraints of LinkageConstraintSystem: inv_a, inv_b, and the       *)
(* running sum on every row but the last                                   *)
RowsHold(s) ==
  LET l == linkage[s]
      n == Len(l.tuple)
  IN  /\ \A i \in 1 .. n :
           l.f[i] = Times(IF s = "A" THEN l.active[i] ELSE l.m[i], l.tuple[i])
      /\ \A i \in 1 .. n - 1 : l.h[i + 1] = Plus(l.h[i], l.f[i])

(* closure = h + f, opened at the last point of the domain *)
derived_closure(s) ==
  Plus(linkage[s].h[Len(linkage[s].h)], linkage[s].f[Len(linkage[s].f)])

Verifies ==
  /\ \A s \in Sides :
       /\ RowsHold(s)
       /\ linkage[s].tuple = committed[s].tuple
       /\ air[s].gate # "none" => linkage[s].active = committed[s].sel
       /\ witness[s].closure = derived_closure(s)
  /\ derived_closure("A") = derived_closure("B")

JointVerify ==
  /\ lpc = "verify"
  /\ verdict' = IF Verifies THEN "accepted" ELSE "rejected"
  /\ lpc' = "done"
  /\ UNCHANGED <<air, inflated, committed, witness, linkage>>

LinkageDone == lpc = "done" /\ UNCHANGED linkageVars

LinkageNext == Inflate \/ CommitMain \/ ComputeWitness \/ BuildLinkage \/ JointVerify \/ LinkageDone
LinkageSpec == LinkageInit /\ [][LinkageNext]_linkageVars

----------------------------------------------------------------------------
(* Properties *)

(* What the linkage states, read off the two traces themselves: row i of   *)
(* side s is a lookup of A or a table entry of B with this tuple.          *)
TupleAt(s, i) == IF i <= Rows(s) THEN air[s].tuple[i] ELSE fix_trace_padding(s)
Live(s, i) == air[s].gate = "none" \/ (i <= Rows(s) /\ air[s].sel[i] # 0)
LiveTuples(s) == {TupleAt(s, i) : i \in {j \in 1 .. target_padded : Live(s, j)}}

(* joint_prove succeeds exactly if every tuple A looks up is in B's table, *)
(* whatever the multiplicities on either side, and joint_verify accepts    *)
(* its result exactly if, further, the selectors are zero or one and none  *)
(* is a padding selector with padding to fill: phase 1 sets ones there     *)
(* after joint_prove has read the selector.  The closure joint_verify then *)
(* derives at the last row of the domain is all of A's lookups with their  *)
(* multiplicity, the last row's included, for traces of any two lengths.   *)
LinkageAcceptedIffIncluded ==
  lpc = "done" =>
    /\ (verdict = "unmatched") <=> ~(LiveTuples("A") \subseteq LiveTuples("B"))
    /\ (verdict = "rejected") <=>
         /\ verdict # "unmatched"
         /\ \E s \in Sides :
              /\ air[s].gate # "none"
              /\ \/ \E i \in 1 .. Rows(s) : air[s].sel[i] > 1
                 \/ air[s].gate = "padding" /\ Rows(s) < target_padded
    /\ verdict = "accepted" =>
         \A s \in Sides, t \in Tuples :
           derived_closure(s)[t] =
             Cardinality({i \in 1 .. target_padded : Live("A", i) /\ TupleAt("A", i) = t})
=============================================================================
