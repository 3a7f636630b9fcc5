---------------------------- MODULE MCTraceRows ----------------------------
(* TLC instances of TraceRows. *)
EXTENDS TraceRows

ForwardOffsets == {6}
BackwardOffsets == {-4}
=============================================================================
