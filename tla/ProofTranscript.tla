-------------------------- MODULE ProofTranscript --------------------------
(***************************************************************************)
(* The Fiat-Shamir transcript of an execution proof.  The prover and six   *)
(* separate pieces of code that replay it (two verifiers, three in the     *)
(* recursion, one in the cross-AIR linkage) must absorb the same messages  *)
(* and draw the same challenges in the same order, for every combination   *)
(* of optional parts a constraint system may ask for.  The prover decides  *)
(* what to do from the constraint system, a replay from what it finds in   *)
(* the proof.                                                              *)
(*                                                                         *)
(* A transcript is the sequence of what was appended and drawn, and a      *)
(* challenge is the transcript it was drawn from: the hash is taken to be  *)
(* free of collisions.  A vector of commitments or evaluations is one      *)
(* message, except the quotient's, whose number matters.                   *)
(***************************************************************************)
EXTENDS Naturals, Sequences

CONSTANTS
  MaxOracle,  \* oracle entries of a trace
  MaxRaw,     \* quotient chunks the constraint polynomial may call for
  QMod        \* num_quotient_chunks is a u8: 256 in the code

ASSUME TranscriptAssumption == MaxOracle \in Nat /\ MaxRaw \in Nat /\ QMod \in Nat \ (0 .. 2)

(* The parts with columns of their own, and those with something to commit *)
(* to before the quotient, in the order of the prover's steps 3b to 3f     *)
Parts == {"logup", "bitwise", "perm", "reg_perm", "frame_perm"}
CommitOrder == <<"logup", "bitwise", "perm", "oracle", "reg_perm", "frame_perm">>
OpenOrder == <<"shifted", "logup", "bitwise", "perm", "reg_perm", "frame_perm">>

(* What of an ExecutionProof the transcript depends on: the number of      *)
(* quotient chunks, the number of oracle entries, and which of the other   *)
(* vectors are not empty                                                   *)
Proofs == [q : 0 .. MaxRaw, oracle : 0 .. MaxOracle,
           shifted : BOOLEAN, logup : BOOLEAN, bitwise : BOOLEAN,
           perm : BOOLEAN, reg_perm : BOOLEAN, frame_perm : BOOLEAN]
Bare0 == [q |-> 0, oracle |-> 0, shifted |-> FALSE, logup |-> FALSE,
          bitwise |-> FALSE, perm |-> FALSE, reg_perm |-> FALSE,
          frame_perm |-> FALSE]

VARIABLES
  wants,    \* what the constraint system and the trace call for
  prover,   \* "scheme" (prove_inner_scheme) or "legacy" (prove_inner)
  chunked,  \* whether the proof is a chunk proof
  num_steps, \* the steps of the trace: none, or 1 for any other number
  todo,     \* the steps of the prover that are left
  log,      \* the prover's transcript
  proof,    \* the proof so far
  reader,   \* the replay that has run, or "none"
  rlog      \* its transcript

transcriptVars ==
  <<wants, prover, chunked, num_steps, todo, log, proof, reader, rlog>>

----------------------------------------------------------------------------
(* Transcript operations: each names the part it belongs to, what is       *)
(* absorbed or drawn, and a number that tells several of them apart.       *)

append(p, what, n) == <<"append", p, what, n>>
draw(p, what) == <<"draw", p, what, 0>>

(* The first place of challenge c in transcript t and all that came before *)
Challenge(t, c) ==
  LET at == {i \in 1 .. Len(t) : t[i] = c}
  IN  IF at = {} THEN <<>> ELSE SubSeq(t, 1, CHOOSE i \in at : \A j \in at : i <= j)
Draws(t) == {t[i] : i \in {j \in 1 .. Len(t) : t[j][1] = "draw"}}

ChunkPrefix(is) ==
  IF is THEN <<append("chunk", "index", 0), append("chunk", "initial_state", 0),
               append("chunk", "final_state", 0)>>
  ELSE <<>>

(* commit_main_columns_phase1 and the draw of alpha *)
MainColumns == <<append("main", "num_steps", 0), append("main", "domain_size", 0),
                 append("main", "column_commitment", 0), draw("main", "alpha")>>

(* Steps 3b to 3f for part p: its challenges, then the commitments made    *)
(* with them; n is the number of oracle entries.                           *)
Commit(p, n) ==
  CASE p = "oracle" -> <<append(p, "num_oracle_entries", n)>>
                         \o [i \in 1 .. n |-> append(p, "oracle_entry", i)]
    [] p = "logup"  -> <<draw(p, "gamma"), append(p, "column_commitment", 0)>>
    [] OTHER -> <<draw(p, "gamma"), draw(p, "delta"), append(p, "column_commitment", 0)>>

Quotient(q) ==
  [i \in 1 .. q |-> append("main", "quotient_commitment", i)] \o <<draw("main", "z")>>

Has(pf, p) == IF p = "oracle" THEN pf.oracle > 0 ELSE pf[p]

Eval(p) ==
  (IF p = "shifted" THEN <<>> ELSE <<append(p, "evaluation", 0)>>)
    \o <<append(p, "shifted_evaluation", 0)>>

Open(p) == (IF p = "shifted" THEN <<>> ELSE <<draw(p, "beta")>>) \o <<draw(p, "beta_shifted")>>

(* What is done for those parts of an order that are in the proof; no      *)
(* order has more than six.                                                *)
ForParts(order, pf, Op(_)) ==
  LET At(i) == IF i <= Len(order) /\ Has(pf, order[i]) THEN Op(order[i]) ELSE <<>>
  IN  At(1) \o At(2) \o At(3) \o At(4) \o At(5) \o At(6)

Commits(order, pf) ==
  LET One(p) == Commit(p, pf.oracle) IN ForParts(order, pf, One)
Evaluations(order, pf) ==
  <<append("main", "evaluation", pf.q)>> \o ForParts(order, pf, Eval) \o <<draw("main", "beta")>>
Openings(order, pf) == ForParts(order, pf, Open)

----------------------------------------------------------------------------
(* The prover *)

TranscriptInit ==
  /\ wants \in {w \in Proofs : w.q > 0}
  /\ prover \in {"scheme", "legacy"}
  /\ chunked \in BOOLEAN /\ num_steps \in {0, 1}
  /\ todo = <<"columns">>
  /\ log = <<>> /\ proof = Bare0
  /\ reader = "none" /\ rlog = <<>>

(* Phase 1; prove_inner has none of the auxiliary steps. *)
CommitColumns ==
  /\ todo # <<>> /\ Head(todo) = "columns"
  /\ log' = ChunkPrefix(chunked) \o MainColumns
  /\ todo' = (IF prover = "scheme" THEN CommitOrder ELSE <<>>)
               \o <<"quotient", "evaluate", "open">>
  /\ UNCHANGED <<wants, prover, chunked, num_steps, proof, reader, rlog>>

CommitPart ==
  /\ todo # <<>> /\ Head(todo) \in Parts \union {"oracle"}
  /\ LET p == Head(todo) IN
       IF Has(wants, p)
         THEN /\ log' = log \o Commit(p, wants.oracle)
              /\ proof' = [proof EXCEPT ![p] = wants[p]]
         ELSE UNCHANGED <<log, proof>>
  /\ todo' = Tail(todo)
  /\ UNCHANGED <<wants, prover, chunked, num_steps, reader, rlog>>

(* Faulty variant: the number of chunks loses one at a boundary. *)
Bad_QuotientChunks(raw) ==
  IF prover = "scheme" THEN raw % QMod ELSE IF raw < 2 THEN raw ELSE 1

(* The quotient's chunks: the number becomes a u8, or is cut down to two. *)
QuotientChunks(raw) ==
  IF prover = "scheme" THEN raw % QMod ELSE IF raw < 2 THEN raw ELSE 2

CommitQuotient ==
  /\ todo # <<>> /\ Head(todo) = "quotient"
  /\ LET q == QuotientChunks(wants.q) IN
       /\ proof' = [proof EXCEPT !.q = q]
       /\ log' = log \o Quotient(q)
  /\ todo' = Tail(todo)
  /\ UNCHANGED <<wants, prover, chunked, num_steps, reader, rlog>>

Evaluate ==
  /\ todo # <<>> /\ Head(todo) = "evaluate"
  /\ proof' = [proof EXCEPT !.shifted = wants.shifted]
  /\ log' = log \o Evaluations(OpenOrder, proof')
  /\ todo' = Tail(todo)
  /\ UNCHANGED <<wants, prover, chunked, num_steps, reader, rlog>>

OpenAll ==
  /\ todo # <<>> /\ Head(todo) = "open"
  /\ log' = log \o Openings(OpenOrder, proof)
  /\ todo' = Tail(todo)
  /\ UNCHANGED <<wants, prover, chunked, num_steps, proof, reader, rlog>>

----------------------------------------------------------------------------
(* ExecutionProof::to_bytes and from_bytes: the parts are framed one after *)
(* the other and read back by position; no quotient chunk is an error.     *)

WriteOrder == <<"q", "shifted", "logup", "bitwise", "perm", "oracle", "reg_perm", "frame_perm">>
ReadOrder == <<"q", "shifted", "logup", "bitwise", "perm", "oracle", "reg_perm", "frame_perm">>

(* Faulty variant: the register part is read before the oracle data. *)
Bad_from_bytes(b) ==
  [f \in DOMAIN Bare0 |->
     b[CHOOSE i \in 1 .. Len(ReadOrder) :
         ReadOrder[i] = CASE f = "perm" -> "reg_perm" [] f = "reg_perm" -> "perm"
                          [] OTHER -> f]]

to_bytes(pf) == [i \in 1 .. Len(WriteOrder) |-> pf[WriteOrder[i]]]
from_bytes(b) ==
  [f \in DOMAIN Bare0 |-> b[CHOOSE i \in 1 .. Len(ReadOrder) : ReadOrder[i] = f]]
Decoded == from_bytes(to_bytes(proof))

----------------------------------------------------------------------------
(* The replays, each with its own copy of the order of the parts *)

verify_inner_scheme(pf) ==
  LET opened == <<"shifted", "logup", "bitwise", "perm", "reg_perm", "frame_perm">>
  IN  MainColumns
        \o Commits(<<"logup", "bitwise", "perm", "oracle", "reg_perm", "frame_perm">>, pf)
        \o Quotient(pf.q) \o Evaluations(opened, pf) \o Openings(opened, pf)

(* verify_inner passes over the bitwise commitments, and refuses before it *)
(* would open any auxiliary part.                                          *)
verify_inner(pf) ==
  MainColumns
    \o Commits(<<"logup", "perm", "oracle", "reg_perm", "frame_perm">>, pf)
    \o Quotient(pf.q)
    \o Evaluations(<<"shifted", "logup", "bitwise", "perm", "reg_perm", "frame_perm">>, pf)
    \o Openings(<<"shifted">>, pf)

recover_chunk_challenges(pf) ==
  ChunkPrefix(TRUE) \o MainColumns
    \o Commits(<<"logup", "bitwise", "perm", "oracle", "reg_perm", "frame_perm">>, pf)
    \o Quotient(pf.q)
    \o Evaluations(<<"shifted", "logup", "bitwise", "perm", "reg_perm", "frame_perm">>, pf)

recover_full_chunk_challenges(pf) ==
  LET opened == <<"shifted", "logup", "bitwise", "perm", "reg_perm", "frame_perm">>
  IN  ChunkPrefix(TRUE) \o MainColumns
        \o Commits(<<"logup", "bitwise", "perm", "oracle", "reg_perm", "frame_perm">>, pf)
        \o Quotient(pf.q) \o Evaluations(opened, pf) \o Openings(opened, pf)
        \o <<draw("recursive", "xi")>>

(* Faulty variant: the copy forgets the openings of the bitwise part. *)
Bad_derive_constraint_mu(pf) ==
  ChunkPrefix(TRUE) \o MainColumns
    \o Commits(<<"logup", "bitwise", "perm", "oracle", "reg_perm", "frame_perm">>, pf)
    \o Quotient(pf.q)
    \o Evaluations(<<"shifted", "logup", "bitwise", "perm", "reg_perm", "frame_perm">>, pf)
    \o Openings(<<"shifted", "logup", "perm", "reg_perm", "frame_perm">>, pf)
    \o <<draw("recursive", "xi"), draw("recursive", "mu")>>

derive_constraint_mu(pf) ==
  LET opened == <<"shifted", "logup", "bitwise", "perm", "reg_perm", "frame_perm">>
  IN  ChunkPrefix(TRUE) \o MainColumns
        \o Commits(<<"logup", "bitwise", "perm", "oracle", "reg_perm", "frame_perm">>, pf)
        \o Quotient(pf.q) \o Evaluations(opened, pf) \o Openings(opened, pf)
        \o <<draw("recursive", "xi"), draw("recursive", "mu")>>

(* For the linkage's own proofs, which have no auxiliary part *)
recover_linkage_z(pf) == MainColumns \o Quotient(pf.q)

Readers == {"verify_with_scheme", "verify", "verify_chunk", "recover_chunk",
            "recover_full", "derive_mu", "linkage_z"}
Replay(r, pf) ==
  CASE r = "verify_with_scheme" -> verify_inner_scheme(pf)
    [] r = "verify"       -> verify_inner(pf)
    [] r = "verify_chunk" -> ChunkPrefix(TRUE) \o verify_inner(pf)
    [] r = "recover_chunk" -> recover_chunk_challenges(pf)
    [] r = "recover_full" -> recover_full_chunk_challenges(pf)
    [] r = "derive_mu"    -> derive_constraint_mu(pf)
    [] r = "linkage_z"    -> recover_linkage_z(pf)

Read(r) ==
  /\ todo = <<>> /\ reader = "none"
  /\ reader' = r
  /\ rlog' = Replay(r, Decoded)
  /\ UNCHANGED <<wants, prover, chunked, num_steps, todo, log, proof>>

ReadDone == reader # "none" /\ UNCHANGED transcriptVars

TranscriptNext ==
  \/ CommitColumns \/ CommitPart \/ CommitQuotient \/ Evaluate \/ OpenAll
  \/ \E r \in Readers : Read(r)
  \/ ReadDone
TranscriptSpec == TranscriptInit /\ [][TranscriptNext]_transcriptVars

(* The verdict of a verifier.  It refuses a proof of no steps or without   *)
(* quotient chunks.  Its quotient identity is that of the prover if alpha, *)
(* z and the challenges of the parts it knows are the prover's, it knows   *)
(* all parts, and no quotient chunk was lost; each opening must have been  *)
(* made with the challenge it is checked with.                             *)
Knows(r) == IF r = "verify_with_scheme" THEN Parts ELSE {}
Committed(pf) == {p \in Parts : Has(pf, p)}

Accepts(r) ==
  /\ num_steps > 0 /\ Decoded.q > 0
  /\ Committed(Decoded) \subseteq Knows(r)
  /\ proof.q = wants.q
  /\ \A c \in Draws(log) : Challenge(rlog, c) = Challenge(log, c)

----------------------------------------------------------------------------
(* Properties *)

(* The type invariant of the prover's and the readers' state. *)
TranscriptTypeOK ==
  /\ wants \in Proofs /\ proof \in Proofs
  /\ prover \in {"scheme", "legacy"} /\ chunked \in BOOLEAN
  /\ num_steps \in {0, 1}
  /\ \A i \in 1 .. Len(todo) : todo[i] \in Parts \union {"columns", "oracle",
                                             "quotient", "evaluate", "open"}
  /\ reader \in Readers \union {"none"}

(* A replay is right for a proof if it starts as the proof did and skips   *)
(* no part the proof has.                                                  *)
StartsAlike(r) == chunked = (r \notin {"verify_with_scheme", "verify", "linkage_z"})
Handles(r) == CASE r \in {"verify", "verify_chunk"} -> Parts \ {"bitwise"}
                [] r = "linkage_z" -> {}
                [] OTHER -> Parts

(* Every replay of a finished proof draws the prover's challenges, each    *)
(* bound to the same messages in the same order, for every combination of  *)
(* parts it handles and after the proof went through its byte format; and  *)
(* mu is drawn right after xi, although the two come from different code.  *)
(* The oracle entries count as a part for the linkage's short replay.      *)
ReplaysAgree ==
  /\ /\ reader # "none" /\ StartsAlike(reader)
     /\ Committed(proof) \subseteq Handles(reader)
     /\ (reader = "linkage_z" => proof.oracle = 0)
     => \A c \in {d \in Draws(rlog) : d[2] # "recursive"} :
          Challenge(rlog, c) = Challenge(log, c)
  /\ reader = "derive_mu" =>
       rlog = Append(recover_full_chunk_challenges(Decoded), draw("recursive", "mu"))

(* Which honest proofs a verifier accepts: verify_with_scheme all that are *)
(* no chunk proofs; verify and verify_chunk those without auxiliary parts; *)
(* none of them the proof of an empty trace, which the provers make        *)
(* without complaint, nor one whose quotient lost chunks, to the u8 in the *)
(* scheme prover or to the limit of two in prove_inner.                    *)
HonestProofsAccepted ==
  reader \in {"verify_with_scheme", "verify", "verify_chunk"} =>
    (Accepts(reader) <=>
       /\ num_steps > 0 /\ StartsAlike(reader)
       /\ reader = "verify_with_scheme" \/ Committed(proof) = {}
       /\ wants.q < QMod /\ (prover = "legacy" => wants.q <= 2))
=============================================================================
