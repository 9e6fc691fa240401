------------------------------- MODULE MCP2Links -------------------------------
(***************************************************************************)
(* P2Links, and with it P2Malloc, on small instances.                      *)
(***************************************************************************)
EXTENDS P2Links

ThreadSymmetry == Permutations(Threads)

OneCalloc   == {<<2, 1000>>}
EdgeCallocs == {<<0, 8>>, <<8, 0>>, <<2, 500>>, <<257, 255>>, <<256, 256>>}
================================================================================
