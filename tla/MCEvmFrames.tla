---------------------------- MODULE MCEvmFrames ----------------------------
(* TLC instance of EvmFrames on its own. *)
EXTENDS EvmFrames
=============================================================================
