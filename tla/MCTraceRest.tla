---------------------------- MODULE MCTraceRest ----------------------------
(***************************************************************************)
(* Request threads are alike.                                              *)
(***************************************************************************)
EXTENDS TraceRest, TLC

Symmetry == Permutations(Requests)
=============================================================================
