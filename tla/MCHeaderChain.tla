---------------------------- MODULE MCHeaderChain ----------------------------
(* A small block tree: a light three-block chain, a heavier two-block fork   *)
(* from genesis, and ties between them.                                      *)
EXTENDS HeaderChain, SequencesExt

CONSTANTS g, a1, a2, a3, b1, b2, c2
CONSTANT MaxBatch  \* bound: longest header chain offered at once

MCBlocks == {g, a1, a2, a3, b1, b2, c2}
MCParent == g :> None @@ a1 :> g @@ a2 :> a1 @@ a3 :> a2 @@ b1 :> g @@ b2 :> b1 @@ c2 :> a1
MCNumber == g :> 0 @@ a1 :> 1 @@ a2 :> 2 @@ a3 :> 3 @@ b1 :> 1 @@ b2 :> 2 @@ c2 :> 2
MCDifficulty == g :> 1 @@ a1 :> 1 @@ a2 :> 1 @@ a3 :> 1 @@ b1 :> 2 @@ b2 :> 2 @@ c2 :> 1
MCMaxNumber == 3
MCChains == BoundedSeq(MCBlocks \ {g}, MaxBatch) \ {<< >>}

VARIABLE rewinds  \* the chain is rewound through the debug API, and not rolled back

MCInit == Init /\ rewinds \in BOOLEAN
MCNext == (IF rewinds THEN RewindNext ELSE Next) /\ UNCHANGED rewinds
MCSpec == MCInit /\ [][MCNext]_<<vars, rewinds>>

\* On a chain that is rewound the number index ends exactly at the head, also when SetHead
\* falls between two headers of a batch that InsertHeaderChain verified before.
RewoundExact == rewinds => CanonExact

\* On a chain that is rolled back and never rewound, no nil header is dereferenced by
\* WriteHeader's overwrite loop or by Rollback.
NoNilUnlessRewound == rewinds \/ NoPanic

\* Without SetHead, which does not take chainmu, a LockChain reader sees one version of the
\* number index (light/lightchain.go:509).
LockedUnlessRewound == [][~rewinds /\ reader /\ reader' => canon' = canon]_vars
==============================================================================
