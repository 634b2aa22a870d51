---------------------------- MODULE MCFetchParts -----------------------------
(* Two blocks, the pivot first, two peers of which one is the master.          *)
EXTENDS FetchParts

CONSTANTS p1, p2

MCEmpty == {<<"receipt", 1>>}
==============================================================================
