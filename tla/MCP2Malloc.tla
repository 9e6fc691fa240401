------------------------------ MODULE MCP2Malloc -------------------------------
(***************************************************************************)
(* P2Malloc on small instances.  Bucket 6 has two blocks a page, bucket 7  *)
(* one and bucket 5 four, so a few pages and blocks reach every case.      *)
(***************************************************************************)
EXTENDS P2Malloc

NoCallocs == {}
OneCalloc == {<<2, 1000>>}
================================================================================
