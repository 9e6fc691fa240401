----------------------------- MODULE MCP2Lifecycle -----------------------------
(***************************************************************************)
(* P2Lifecycle on small instances.                                         *)
(***************************************************************************)
EXTENDS P2Lifecycle

ThreadSymmetry == Permutations(Threads)
NoCallocs      == {}
================================================================================
