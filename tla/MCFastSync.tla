----------------------------- MODULE MCFastSync ------------------------------
(* Four blocks, a pivot among the first three, chunks of at most two.          *)
EXTENDS FastSync
==============================================================================
