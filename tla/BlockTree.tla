------------------------------ MODULE BlockTree ------------------------------
(***************************************************************************)
(* The block headers that exist in the network, as go-ethereum sees them:  *)
(* a tree rooted at the genesis block.  A header is identified with its    *)
(* hash; of its fields only ParentHash, Number and Difficulty matter to    *)
(* the chain managers of core/ and light/.  Every header of the tree       *)
(* passes ValidateHeader once its parent is known: headers that never      *)
(* pass it are rejected without a state change and are left out.           *)
(***************************************************************************)
EXTENDS Integers

CONSTANTS
    Blocks,      \* all headers (blocks) that can be offered to the chain
    Genesis,     \* the genesis block
    None,        \* the zero hash / nil pointer / missing database entry
    Parent,      \* header.ParentHash
    Number,      \* header.Number
    Difficulty,  \* header.Difficulty
    MaxNumber    \* bound: no header of the tree has a larger number

ASSUME NoneAssumption == None \notin Blocks /\ None \notin Nat

ASSUME TreeAssumption ==
    /\ Genesis \in Blocks
    /\ MaxNumber \in Nat
    /\ Parent \in [Blocks -> Blocks \cup {None}]
    /\ Number \in [Blocks -> 0 .. MaxNumber]
    /\ Difficulty \in [Blocks -> Nat]
    /\ Parent[Genesis] = None
    /\ Number[Genesis] = 0
    /\ \A b \in Blocks \ {Genesis} : /\ Parent[b] \in Blocks
                                     /\ Number[b] = Number[Parent[b]] + 1

Numbers == 0 .. MaxNumber + 1  \* keys of the number index; nothing is stored at the last
==============================================================================
