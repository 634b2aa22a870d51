------------------------------ MODULE MCStateDB ------------------------------
(* One account besides the precompile; a block may start from a trie in which  *)
(* it is missing, empty or has a balance.                                      *)
EXTENDS StateDB

CONSTANTS a1, a3

MCInitTries ==
    [{a1} -> {Absent, Blank, [Blank EXCEPT !.balance = 1]}]
==============================================================================
