-------------------------- MODULE MCProvePipeline --------------------------
(* TLC instances of ProvePipeline. *)
EXTENDS ProvePipeline, TLC

Symmetry == Permutations(Workers)
=============================================================================
