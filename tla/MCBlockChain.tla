---------------------------- MODULE MCBlockChain -----------------------------
(* A light chain a1, a2, a3 and a heavier two-block fork from genesis: reorgs  *)
(* to a longer, to a shorter and to an equally heavy chain all occur.  A node  *)
(* that mines finds the first block m1 of the fork itself.  A node that only   *)
(* imports gets the fork b1, b2 from others, a block a4 that wins the first    *)
(* chain back, and one more tie c2.  The transaction t1 is on both forks.      *)
EXTENDS BlockChain, TLC

CONSTANTS g, a1, a2, a3, a4, b1, b2, c2, m1, m2, t1, t2, t3

MCBlocks == {g, a1, a2, a3, a4, b1, b2, c2, m1, m2}
MCParent ==
    g :> None @@ a1 :> g @@ a2 :> a1 @@ a3 :> a2 @@ a4 :> a3 @@ c2 :> a1
    @@ b1 :> g @@ b2 :> b1 @@ m1 :> g @@ m2 :> m1
MCNumber ==
    g :> 0 @@ a1 :> 1 @@ a2 :> 2 @@ a3 :> 3 @@ a4 :> 4 @@ c2 :> 2
    @@ b1 :> 1 @@ b2 :> 2 @@ m1 :> 1 @@ m2 :> 2
MCDifficulty ==
    g :> 1 @@ a1 :> 1 @@ a2 :> 1 @@ a3 :> 1 @@ a4 :> 2 @@ c2 :> 1
    @@ b1 :> 1 @@ b2 :> 3 @@ m1 :> 1 @@ m2 :> 3
MCMaxNumber == 4
MCTxs == {t1, t2, t3}
MCTxsOf ==
    g :> {} @@ a1 :> {t1} @@ a2 :> {t2} @@ a3 :> {} @@ a4 :> {t3} @@ c2 :> {t3}
    @@ b1 :> {t3} @@ b2 :> {t1} @@ m1 :> {t3} @@ m2 :> {t1}

VARIABLES
    imports,  \* the node only imports: it neither mines nor is rewound
    crashed   \* bound: one crash, "torn" if it cut the inserts of reorg, else "clean"

mcvars == <<vars, imports, crashed>>

MCInit == Init /\ imports \in BOOLEAN /\ crashed = "no"

\* Bound: the blocks a node that mines and is rewound works on.
Offers == \A w \in Writers : blk'[w] \in {g, a1, a2, a3, m1, m2}

MCCrash ==
    /\ crashed = "no" /\ Crash
    /\ crashed' = IF todo = << >> THEN "clean" ELSE "torn"

MCNext ==
    /\ \/ imports /\ ImportNext /\ UNCHANGED crashed
       \/ imports /\ MCCrash
       \/ ~imports /\ Next /\ Offers /\ UNCHANGED crashed
    /\ UNCHANGED imports

MCSpec == MCInit /\ [][MCNext]_mcvars /\ WF_vars(imports /\ ImportNext)

\* The head and the chain below it are sound in every interleaving of importer, miner and
\* SetHead, and after a crash at any point: the database always names a stored head, and
\* unless the crash cuts the loop of reorg (core/blockchain.go:1164) the number index is
\* still the head's ancestry, then and ever after.
HeadSound == TypeOK /\ HeadStored /\ (crashed # "torn" => CanonToHead)

\* No WriteBlock ends on a head lighter than the block it has stored, whatever the other
\* writers and SetHead did since its parent was read, and also on an index a crash left torn.
ForkChoice == [][crashed' = crashed => HeavierHead]_mcvars

\* On a node that only imports the head is a heaviest stored block, and between imports the
\* transaction index describes the canonical chain and nothing else: metadata names the
\* block that holds the transaction, a transaction dropped by reorgs has none, and receipts
\* are those of the canonical block ("write canonical receipts and transactions",
\* core/blockchain.go:1167).  A crash may lose the entries of the blocks it cuts.
ImportedIndex == imports /\ crashed = "no" => Heaviest /\ TxBlockExact /\ CanonReceipts

\* Every block the importer takes up is dealt with, also after a restart on an index that a
\* crash left torn: the loops of reorg end.
ImportReturns == imports => WriteReturns
==============================================================================
