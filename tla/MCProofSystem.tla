--------------------------- MODULE MCProofSystem ---------------------------
(***************************************************************************)
(* TLC instance of the proof system: tree folding, the transcript and its  *)
(* replays, a cross-AIR linkage and the memory argument.  They share no    *)
(* state, so a behaviour runs one of them, chosen at the start, and leaves *)
(* the others in one initial state each.                                   *)
(***************************************************************************)
EXTENDS TreeFold, ProofTranscript, CrossAirLinkage, MemoryArgument

VARIABLE part

proofVars == <<part, vars, transcriptVars, linkageVars, memVars>>

(* Every part has an initial state. *)
ASSUME PartsAssumption ==
  MaxRaw > 0 /\ AirsA # {} /\ AirsB # {} /\ Tracers # {}

OneOf(S) == CHOOSE x \in S : TRUE

(* The inputs of a part are open only where that part runs. *)
ProofInit ==
  /\ part \in {"fold", "transcript", "linkage", "memory"}
  /\ IF part = "fold" THEN Init
     ELSE /\ chunks = <<>> /\ count = 0 /\ stack = <<>> /\ current = None
          /\ level = 0 /\ pc = "next" /\ result = None
  /\ IF part = "transcript" THEN TranscriptInit
     ELSE /\ wants = [Bare0 EXCEPT !.q = 1] /\ prover = "legacy" /\ chunked = FALSE
          /\ num_steps = 1 /\ todo = <<"columns">> /\ log = <<>>
          /\ proof = Bare0 /\ reader = "none" /\ rlog = <<>>
  /\ IF part = "linkage" THEN LinkageInit
     ELSE /\ air = [s \in Sides |-> IF s = "A" THEN OneOf(AirsA) ELSE OneOf(AirsB)]
          /\ inflated = Unset /\ committed = Unset /\ witness = Unset
          /\ linkage = Unset /\ verdict = "none" /\ lpc = "inflate"
  /\ IF part = "memory" THEN MemInit
     ELSE /\ tracer = OneOf(Tracers) /\ cells = <<0, 0>> /\ reserved = FALSE
          /\ rows = <<>> /\ truth = <<>>

ProofNext ==
  /\ UNCHANGED part
  /\ \/ part = "fold" /\ Next /\ UNCHANGED <<transcriptVars, linkageVars, memVars>>
     \/ part = "transcript" /\ TranscriptNext /\ UNCHANGED <<vars, linkageVars, memVars>>
     \/ part = "linkage" /\ LinkageNext /\ UNCHANGED <<vars, transcriptVars, memVars>>
     \/ part = "memory" /\ MemNext /\ UNCHANGED <<vars, transcriptVars, linkageVars>>

ProofSpec == ProofInit /\ [][ProofNext]_proofVars

(* The type invariant of the fold and of the transcript. *)
ProofTypeOK == TypeOK /\ TranscriptTypeOK

----------------------------------------------------------------------------
(* Traces of n rows: their tuples, selector values, gate, and whether the  *)
(* AIR has lookups and fixes its padding                                   *)
Family(n, tuples, sels, gate, flags) ==
  {[tuple |-> t, sel |-> s, gate |-> gate, lookups |-> f[1], fixes |-> f[2]] :
     t \in [1 .. n -> tuples], s \in [1 .. n -> sels], f \in flags}

Plain == {<<FALSE, FALSE>>}

(* Duplicates and gaps, a selector that is not binary, no selector with    *)
(* every kind of padding, a padding selector with and without padding      *)
SomeA ==
  Family(3, {1, 2}, {0, 1}, "column", Plain)
    \union Family(1, {1, 2}, {0, 1, 2}, "column", BOOLEAN \X BOOLEAN)
    \union UNION {Family(n, {1, 2}, {1}, "none", BOOLEAN \X BOOLEAN) : n \in 1 .. 3}
    \union Family(1, {1, 2}, {0, 1}, "padding", Plain)
    \union Family(4, {1}, {0, 1}, "padding", Plain)

SomeB ==
  UNION {Family(n, {1, 2}, {0, 1}, "column", Plain) : n \in 2 .. 3}
    \union UNION {Family(n, {1, 2}, {1}, "none", BOOLEAN \X {FALSE}) : n \in 1 .. 3}
=============================================================================
