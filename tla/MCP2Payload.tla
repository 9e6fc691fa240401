------------------------------ MODULE MCP2Payload ------------------------------
(***************************************************************************)
(* P2Payload on small instances: with one block to a page, 0 and 3968 are  *)
(* words that every request has in its first page, and of its second page   *)
(* a request of 5000 bytes has the first.                                   *)
(***************************************************************************)
EXTENDS P2Payload

ThreadSymmetry == Permutations(Threads)
OneCalloc      == {<<2, 2000>>}
================================================================================
