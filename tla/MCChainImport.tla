---------------------------- MODULE MCChainImport -----------------------------
(* Two forks: a chain whose second block is from the near future and whose     *)
(* third hangs on it, and a fork as heavy.  z2 is a bad block with a child, n2 *)
(* one with a bad nonce, f2 one from too far in the future.                    *)
EXTENDS ChainImport, TLC

CONSTANTS g, a1, a2, a3, b1, z2, z3, n2, f2

MCBlocks == {g, a1, a2, a3, b1, z2, z3, n2, f2}
MCParent ==
    g :> None @@ a1 :> g @@ a2 :> a1 @@ a3 :> a2 @@ b1 :> g @@ z2 :> a1 @@ z3 :> z2 @@ n2 :> b1 @@ f2 :> b1
MCNumber ==
    g :> 0 @@ a1 :> 1 @@ a2 :> 2 @@ a3 :> 3 @@ b1 :> 1 @@ z2 :> 2 @@ z3 :> 3 @@ n2 :> 2 @@ f2 :> 2
MCDifficulty == [b \in MCBlocks |-> IF b = f2 THEN 3 ELSE 1]
MCTime == [b \in MCBlocks |-> IF b \in {g, a1, b1, n2} THEN 0 ELSE IF b = f2 THEN 2 ELSE 1]
MCMaxNumber == 3
MCChains == {<<a1, a2, a3>>, <<a2, a3>>, <<b1, n2>>, <<b1, f2>>, <<a1, z2, z3>>}
==============================================================================
