------------------------------ MODULE MCMemory ------------------------------
(* TLC instance of MemoryArgument on its own. *)
EXTENDS MemoryArgument
=============================================================================
