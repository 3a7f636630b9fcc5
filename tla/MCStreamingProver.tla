------------------------- MODULE MCStreamingProver -------------------------
(* TLC instances of StreamingProver. *)
EXTENDS StreamingProver, TLC

Symmetry == Permutations(Pages)
=============================================================================
