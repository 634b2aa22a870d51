------------------------------ MODULE BlockChain -----------------------------
(***************************************************************************)
(* core.BlockChain on a fully synchronising node.  Two goroutines write    *)
(* blocks: InsertChain, serialised by chainmu (the importer), and the      *)
(* miner's worker, which calls WriteBlock without chainmu.  Both take mu,  *)
(* as SetHead does; what they do before and after mu interleaves.  Every   *)
(* Put under mu is a step, so that a crash may fall between any two.       *)
(* GetBlock finds a block when its header and its body are both stored;    *)
(* WriteBlock stores the two and SetHead deletes them together, so a block *)
(* is either in blocks or not.  Its state, committed before it, is never   *)
(* deleted.                                                                *)
(***************************************************************************)
EXTENDS BlockTree, Sequences, FiniteSets

CONSTANTS
    Txs,       \* transactions
    TxsOf,     \* block.Transactions()
    MinedHere  \* the blocks this node's own miner may find

ASSUME TxsAssumption ==
    /\ TxsOf \in [Blocks -> SUBSET Txs]
    /\ MinedHere \subseteq Blocks \ {Genesis}

Writers == {"importer", "miner"}

VARIABLES
    blocks,         \* chainDb: blocks stored by hash
    td,             \* chainDb: total difficulty stored for a hash, or None
    canon,          \* chainDb: canonical hash stored for a number, or None
    headBlock, headHeader, headFast,  \* chainDb: "LastBlock", "LastHeader", "LastFast"
    blockReceipts,  \* chainDb: blocks whose receipts are stored by block hash
    txBlock,        \* chainDb: the block a transaction's metadata names, or None
    txReceipt,      \* chainDb: the block a transaction's receipt was made in, or None
    currentBlock, currentHeader, currentFast,  \* the heads in memory
    wpc,            \* where each writer is: outside mu, or "locked"
    blk,            \* the block each writer is writing
    ptd,            \* the parent's total difficulty WriteBlock has read
    late,           \* mined blocks whose receipts a goroutine has still to store
    pc,             \* next step of the operation that holds mu
    old, new,       \* oldBlock and newBlock of reorg
    newChain,       \* newChain of reorg, newest block first
    deleted,        \* deletedTxs of reorg
    todo,           \* the blocks of newChain that reorg has still to insert
    ins,            \* the argument of insert
    force,          \* updateHeads of insert
    idx, lim        \* loop index and argument of SetHead

store == <<blocks, td, canon, headBlock, headHeader, headFast>>
index == <<blockReceipts, txBlock, txReceipt>>
heads == <<currentBlock, currentHeader, currentFast>>
writer == <<wpc, blk, ptd, late>>
walk == <<old, new, newChain, deleted, todo>>
locals == <<old, new, newChain, deleted, todo, ins, force, idx, lim>>
vars == <<blocks, td, canon, headBlock, headHeader, headFast, blockReceipts, txBlock, txReceipt,
          currentBlock, currentHeader, currentFast, wpc, blk, ptd, late, pc,
          old, new, newChain, deleted, todo, ins, force, idx, lim>>

Inserting == {"canon", "headBlock", "headHeader", "headFast"}

\* One type invariant: a pointer names a block or is None.
TypeOK ==
    /\ blocks \subseteq Blocks /\ blockReceipts \subseteq Blocks /\ late \subseteq Blocks
    /\ td \in [Blocks -> Nat \cup {None}]
    /\ canon \in [Numbers -> Blocks \cup {None}]
    /\ headBlock \in Blocks /\ headHeader \in Blocks /\ headFast \in Blocks
    /\ txBlock \in [Txs -> Blocks \cup {None}] /\ txReceipt \in [Txs -> Blocks \cup {None}]
    /\ currentBlock \in Blocks /\ currentFast \in Blocks
    /\ currentHeader \in Blocks \cup {None}
    /\ wpc \in [Writers -> {"idle", "valid", "ready", "wait", "locked", "index"}]
    /\ blk \in [Writers -> Blocks] /\ ptd \in [Writers -> Nat]
    /\ pc \in Inserting \cup {"free", "td", "block", "reorg", "txs", "diff", "delBlock",
                              "delCanon", "resetHeads", "load", "selflock", "panic"}
    /\ old \in Blocks \cup {None} /\ new \in Blocks \cup {None}
    /\ newChain \in Seq(Blocks) /\ todo \in Seq(Blocks)
    /\ deleted \subseteq Txs
    /\ ins \in Blocks /\ force \in BOOLEAN
    /\ idx \in Numbers /\ lim \in Numbers
------------------------------------------------------------------------------
\* A database holding the genesis block, and the chain NewBlockChain opens on it.
Init ==
    /\ blocks = {Genesis}
    /\ td = [b \in Blocks |-> IF b = Genesis THEN Difficulty[Genesis] ELSE None]
    /\ canon = [n \in Numbers |-> IF n = 0 THEN Genesis ELSE None]
    /\ headBlock = Genesis /\ headHeader = Genesis /\ headFast = Genesis
    /\ blockReceipts = {Genesis}
    /\ txBlock = [t \in Txs |-> None] /\ txReceipt = [t \in Txs |-> None]
    /\ currentBlock = Genesis /\ currentHeader = Genesis /\ currentFast = Genesis
    /\ wpc = [w \in Writers |-> "idle"]
    /\ blk = [w \in Writers |-> Genesis] /\ ptd = [w \in Writers |-> 0]
    /\ late = {}
    /\ pc = "free"
    /\ old = None /\ new = None /\ newChain = << >> /\ deleted = {} /\ todo = << >>
    /\ ins = Genesis /\ force = FALSE
    /\ idx = 0 /\ lim = 0

GetBlock(b) == IF b \in blocks THEN b ELSE None

\* mu is released; the local variables of its holder are gone.
Unlock ==
    /\ pc' = "free"
    /\ old' = None /\ new' = None /\ newChain' = << >> /\ deleted' = {} /\ todo' = << >>
    /\ ins' = Genesis /\ force' = FALSE
    /\ idx' = 0 /\ lim' = 0

\* The writer w leaves the block it was at.
Finish(w) ==
    /\ wpc' = [wpc EXCEPT ![w] = "idle"]
    /\ blk' = [blk EXCEPT ![w] = Genesis] /\ ptd' = [ptd EXCEPT ![w] = 0]

\* A block of this node's miner reaches the importer only after it was published.
Offered(w, b) == IF b \in MinedHere \ (blockReceipts \cup late) THEN w = "miner" ELSE w = "importer"
------------------------------------------------------------------------------
(***************************************************************************)
(* Before mu.  A block is taken up when it is unknown and its parent is    *)
(* stored: InsertChain calls ValidateBlock, the worker looks the parent    *)
(* up.  All other outcomes of ValidateBlock leave the store alone; they    *)
(* are modelled in ChainImport.                                            *)
(***************************************************************************)
ValidateBlock(w, b) ==
    /\ wpc[w] = "idle" /\ pc # "panic"
    /\ Offered(w, b)
    /\ b \notin blocks /\ \A v \in Writers : blk[v] # b
    /\ Parent[b] \in blocks
    /\ wpc' = [wpc EXCEPT ![w] = "valid"] /\ blk' = [blk EXCEPT ![w] = b]
    /\ UNCHANGED <<store, index, heads, ptd, late, pc, locals>>

\* InsertChain reads the parent a second time for its state root, runs the block and
\* stores its receipts.  A parent that SetHead has deleted since is a nil pointer.
ProcessBlock(w) ==
    /\ wpc[w] = "valid" /\ pc # "panic"
    /\ IF w = "importer" /\ Parent[blk[w]] \notin blocks
       THEN /\ pc' = "panic"
            /\ UNCHANGED <<blockReceipts, wpc>>
       ELSE /\ wpc' = [wpc EXCEPT ![w] = "ready"]
            /\ blockReceipts' = IF w = "importer" THEN blockReceipts \cup {blk[w]} ELSE blockReceipts
            /\ UNCHANGED pc
    /\ UNCHANGED <<store, txBlock, txReceipt, heads, blk, ptd, late, locals>>

\* WriteBlock reads the parent's total difficulty before it takes mu.
ReadParentTd(w) ==
    /\ wpc[w] = "ready" /\ pc # "panic"
    /\ IF td[Parent[blk[w]]] = None
       THEN Finish(w)
       ELSE /\ ptd' = [ptd EXCEPT ![w] = td[Parent[blk[w]]]]
            /\ wpc' = [wpc EXCEPT ![w] = "wait"]
            /\ UNCHANGED blk
    /\ UNCHANGED <<store, index, heads, late, pc, locals>>
------------------------------------------------------------------------------
\* Under mu: WriteBlock.
LockMu(w) ==
    /\ wpc[w] = "wait" /\ pc = "free"
    /\ wpc' = [wpc EXCEPT ![w] = "locked"]
    /\ pc' = "td"
    /\ UNCHANGED <<store, index, heads, blk, ptd, late, locals>>

WriteTd(w) ==
    /\ wpc[w] = "locked" /\ pc = "td"
    /\ td' = [td EXCEPT ![blk[w]] = ptd[w] + Difficulty[blk[w]]]
    /\ pc' = "block"
    /\ UNCHANGED <<blocks, canon, headBlock, headHeader, headFast, index, heads, writer, locals>>

\* Mutant: the longest chain wins, not the heaviest.
BadBecomesHead(b, coin) ==
    Number[b] > Number[currentBlock] \/ (Number[b] = Number[currentBlock] /\ coin)

\* Heavier than the head, or as heavy and the coin flip says so.
BecomesHead(b, coin) == td[b] > td[currentBlock] \/ (td[b] = td[currentBlock] /\ coin)

\* Mutant: only the blocks of side chains are stored.
LazyWriteBlock(w, coin) ==
    /\ wpc[w] = "locked" /\ pc = "block"
    /\ IF BecomesHead(blk[w], coin)
       THEN pc' = "canon" /\ ins' = blk[w] /\ UNCHANGED <<blocks, walk, force, idx, lim, wpc, blk, ptd>>
       ELSE blocks' = blocks \cup {blk[w]} /\ Unlock /\ Finish(w)
    /\ UNCHANGED <<td, canon, headBlock, headHeader, headFast, index, heads, late>>

\* The block is stored whatever its status; it becomes the head directly when its
\* parent is the head, by way of reorg otherwise.
WriteBlock(w, coin) ==
    /\ wpc[w] = "locked" /\ pc = "block"
    /\ blocks' = blocks \cup {blk[w]}
    /\ \/ /\ BecomesHead(blk[w], coin) /\ Parent[blk[w]] = currentBlock
          /\ pc' = "canon" /\ ins' = blk[w]
          /\ UNCHANGED <<walk, force, idx, lim, wpc, blk, ptd, late>>
       \/ /\ BecomesHead(blk[w], coin) /\ Parent[blk[w]] # currentBlock
          /\ pc' = "reorg" /\ old' = currentBlock /\ new' = blk[w]
          /\ UNCHANGED <<newChain, deleted, todo, ins, force, idx, lim, wpc, blk, ptd, late>>
       \/ /\ ~BecomesHead(blk[w], coin)
          /\ Unlock /\ Finish(w)
          /\ late' = IF w = "miner" THEN late \cup {blk[w]} ELSE late
    /\ UNCHANGED <<td, canon, headBlock, headHeader, headFast, index, heads>>
------------------------------------------------------------------------------
\* Mutant: the loop does not step to the parent.
BadReduceOld ==
    /\ pc = "reorg" /\ old # None /\ new # None
    /\ Number[old] > Number[new]
    /\ deleted' = deleted \cup TxsOf[old]
    /\ UNCHANGED <<store, index, heads, writer, pc, old, new, newChain, todo, ins, force, idx, lim>>

\* reorg: first the higher of the two chains is walked down, then both together.
ReduceOld ==
    /\ pc = "reorg" /\ old # None /\ new # None
    /\ Number[old] > Number[new]
    /\ deleted' = deleted \cup TxsOf[old]
    /\ old' = GetBlock(Parent[old])
    /\ UNCHANGED <<store, index, heads, writer, pc, new, newChain, todo, ins, force, idx, lim>>

ReduceNew ==
    /\ pc = "reorg" /\ old # None /\ new # None
    /\ Number[new] > Number[old]
    /\ newChain' = Append(newChain, new)
    /\ new' = GetBlock(Parent[new])
    /\ UNCHANGED <<store, index, heads, writer, pc, old, deleted, todo, ins, force, idx, lim>>

ReduceBoth ==
    /\ pc = "reorg" /\ old # None /\ new # None
    /\ Number[old] = Number[new] /\ old # new
    /\ deleted' = deleted \cup TxsOf[old]
    /\ newChain' = Append(newChain, new)
    /\ old' = GetBlock(Parent[old])
    /\ new' = GetBlock(Parent[new])
    /\ UNCHANGED <<store, index, heads, writer, pc, todo, ins, force, idx, lim>>

\* "Invalid old chain" or "Invalid new chain": WriteBlock returns the error.
ReorgFails(w) ==
    /\ wpc[w] = "locked" /\ pc = "reorg" /\ (old = None \/ new = None)
    /\ Unlock /\ Finish(w)
    /\ UNCHANGED <<store, index, heads, late>>

\* The common block is found.  newChain is empty when the head itself is written again.
CommonBlock ==
    /\ pc = "reorg" /\ old # None /\ old = new
    /\ IF newChain = << >>
       THEN pc' = "diff" /\ UNCHANGED <<todo, ins>>
       ELSE pc' = "canon" /\ ins' = Head(newChain) /\ todo' = newChain
    /\ UNCHANGED <<store, index, heads, writer, old, new, newChain, deleted, force, idx, lim>>
------------------------------------------------------------------------------
\* insert, for the blocks of newChain from the newest to the oldest (todo # << >>)
\* and in the end for the block of WriteBlock itself.
InsertCanon ==
    /\ pc = "canon"
    /\ force' = (canon[Number[ins]] # ins)
    /\ canon' = [canon EXCEPT ![Number[ins]] = ins]
    /\ pc' = "headBlock"
    /\ UNCHANGED <<blocks, td, headBlock, headHeader, headFast, index, heads, writer, walk, ins, idx, lim>>

\* The block is inserted: back to the loop of reorg, or to the caller of WriteBlock.
Inserted(w) ==
    IF todo # << >>
    THEN pc' = "txs" /\ UNCHANGED <<walk, ins, force, idx, lim, wpc, blk, ptd>>
    ELSE Unlock /\ wpc' = [wpc EXCEPT ![w] = "index"] /\ UNCHANGED <<blk, ptd>>

InsertHeadBlock(w) ==
    /\ wpc[w] = "locked" /\ pc = "headBlock"
    /\ headBlock' = ins /\ currentBlock' = ins
    /\ IF force
       THEN pc' = "headHeader" /\ UNCHANGED <<walk, ins, force, idx, lim, wpc, blk, ptd>>
       ELSE Inserted(w)
    /\ UNCHANGED <<blocks, td, canon, headHeader, headFast, index, currentHeader, currentFast, late>>

InsertHeadHeader ==
    /\ pc = "headHeader"
    /\ headHeader' = ins /\ currentHeader' = ins
    /\ pc' = "headFast"
    /\ UNCHANGED <<blocks, td, canon, headBlock, headFast, index, currentBlock, currentFast, writer, locals>>

InsertHeadFast(w) ==
    /\ wpc[w] = "locked" /\ pc = "headFast"
    /\ headFast' = ins /\ currentFast' = ins
    /\ Inserted(w)
    /\ UNCHANGED <<blocks, td, canon, headBlock, headHeader, index, currentBlock, currentHeader, late>>

\* WriteTransactions, and WriteReceipts of the receipts stored for the block, if any.
WriteIndex(b, receipts) ==
    /\ txBlock' = [t \in Txs |-> IF t \in TxsOf[b] THEN b ELSE txBlock[t]]
    /\ txReceipt' = [t \in Txs |-> IF receipts /\ t \in TxsOf[b] THEN b ELSE txReceipt[t]]

ReorgTxs ==
    /\ pc = "txs"
    /\ WriteIndex(ins, ins \in blockReceipts)
    /\ todo' = Tail(todo)
    /\ IF Len(todo) > 1 THEN pc' = "canon" /\ ins' = todo[2] ELSE pc' = "diff" /\ UNCHANGED ins
    /\ UNCHANGED <<store, blockReceipts, heads, writer, old, new, newChain, deleted, force, idx, lim>>

\* TxDifference(deletedTxs, addedTxs)
Dropped == deleted \ UNION {TxsOf[newChain[i]] : i \in 1 .. Len(newChain)}

\* Mutant: only the receipts are deleted.
BadReorgDiff(w) ==
    /\ wpc[w] = "locked" /\ pc = "diff"
    /\ txReceipt' = [t \in Txs |-> IF t \in Dropped THEN None ELSE txReceipt[t]]
    /\ pc' = "canon" /\ ins' = blk[w]
    /\ UNCHANGED <<store, blockReceipts, txBlock, heads, writer, walk, force, idx, lim>>

\* The transactions of the old chain that the new one lacks lose metadata and receipt;
\* then WriteBlock inserts its block.
ReorgDiff(w) ==
    /\ wpc[w] = "locked" /\ pc = "diff"
    /\ txBlock' = [t \in Txs |-> IF t \in Dropped THEN None ELSE txBlock[t]]
    /\ txReceipt' = [t \in Txs |-> IF t \in Dropped THEN None ELSE txReceipt[t]]
    /\ pc' = "canon" /\ ins' = blk[w]
    /\ UNCHANGED <<store, blockReceipts, heads, writer, walk, force, idx, lim>>
------------------------------------------------------------------------------
\* After mu.  The caller of WriteBlock indexes the transactions of a block that
\* became canonical; the worker leaves the block's receipts to a goroutine.
IndexBlock(w) ==
    /\ wpc[w] = "index" /\ pc # "panic"
    /\ WriteIndex(blk[w], TRUE)
    /\ Finish(w)
    /\ late' = IF w = "miner" THEN late \cup {blk[w]} ELSE late
    /\ UNCHANGED <<store, blockReceipts, heads, pc, locals>>

WriteBlockReceipts(b) ==
    /\ b \in late /\ pc # "panic"
    /\ blockReceipts' = blockReceipts \cup {b}
    /\ late' = late \ {b}
    /\ UNCHANGED <<store, txBlock, txReceipt, heads, wpc, blk, ptd, pc, locals>>
------------------------------------------------------------------------------
(***************************************************************************)
(* SetHead, called by the debug API.  The deletion of one block (body,     *)
(* header, total difficulty) is a step, and so is each canonical hash.     *)
(***************************************************************************)
SetHead(n) ==
    /\ pc = "free"
    /\ pc' = "delBlock" /\ lim' = n /\ idx' = Number[currentHeader]
    /\ UNCHANGED <<store, index, heads, writer, walk, ins, force>>

DeleteBlock ==
    /\ pc = "delBlock"
    /\ currentHeader # None /\ Number[currentHeader] > lim
    /\ blocks' = blocks \ {currentHeader}
    /\ td' = [td EXCEPT ![currentHeader] = None]
    /\ currentHeader' = GetBlock(Parent[currentHeader])
    /\ UNCHANGED <<canon, headBlock, headHeader, headFast, index, currentBlock, currentFast, writer, pc, locals>>

DeleteBlockDone ==
    /\ pc = "delBlock"
    /\ currentHeader = None \/ Number[currentHeader] <= lim
    /\ pc' = "delCanon"
    /\ UNCHANGED <<store, index, heads, writer, locals>>

DeleteCanonicalHash ==
    /\ pc = "delCanon" /\ idx > lim
    /\ canon' = [canon EXCEPT ![idx] = None]
    /\ idx' = idx - 1
    /\ UNCHANGED <<blocks, td, headBlock, headHeader, headFast, index, heads, writer, pc, walk, ins, force, lim>>

ResetHeader ==
    /\ pc = "delCanon" /\ idx <= lim
    /\ currentHeader' = IF currentHeader = None THEN Genesis ELSE currentHeader
    /\ headHeader' = currentHeader'
    /\ pc' = "resetHeads"
    /\ UNCHANGED <<blocks, td, canon, headBlock, headFast, index, currentBlock, currentFast, writer, locals>>

\* A head above the new header falls back to the header's block, or to genesis without one.
Lowered(b) ==
    IF Number[currentHeader] >= Number[b] THEN b
    ELSE IF GetBlock(currentHeader) = None THEN Genesis ELSE currentHeader

ResetHeads ==
    /\ pc = "resetHeads"
    /\ currentBlock' = Lowered(currentBlock) /\ headBlock' = currentBlock'
    /\ currentFast' = Lowered(currentFast) /\ headFast' = currentFast'
    /\ pc' = "load"
    /\ UNCHANGED <<blocks, td, canon, headHeader, index, currentHeader, writer, locals>>

\* The heads loadLastState finds in the database, given that the head block is there.
LoadHeads ==
    /\ currentBlock' = headBlock
    /\ currentHeader' = IF headHeader \in blocks THEN headHeader ELSE headBlock
    /\ currentFast' = IF headFast \in blocks THEN headFast ELSE headBlock
    /\ headHeader' = currentHeader'

\* SetHead ends with loadLastState.  Were the head block missing, its Reset would call
\* SetHead again and wait for mu, which this goroutine holds ("selflock").
LoadLastState ==
    /\ pc = "load"
    /\ IF headBlock \in blocks
       THEN LoadHeads /\ Unlock
       ELSE pc' = "selflock" /\ UNCHANGED <<heads, headHeader, locals>>
    /\ UNCHANGED <<blocks, td, canon, headBlock, headFast, index, writer>>
------------------------------------------------------------------------------
\* The process dies at any point and NewBlockChain opens the database as it is.
Crash ==
    /\ headBlock \in blocks
    /\ LoadHeads
    /\ wpc' = [w \in Writers |-> "idle"]
    /\ blk' = [w \in Writers |-> Genesis] /\ ptd' = [w \in Writers |-> 0]
    /\ late' = {}
    /\ Unlock
    /\ UNCHANGED <<blocks, td, canon, headBlock, headFast, index>>

ReorgStep == ReduceOld \/ ReduceNew \/ ReduceBoth \/ CommonBlock \/ ReorgTxs

SetHeadStep ==
    DeleteBlock \/ DeleteBlockDone \/ DeleteCanonicalHash \/ ResetHeader \/ ResetHeads \/ LoadLastState

WriterStep(w) ==
    \/ \E b \in Blocks : ValidateBlock(w, b)
    \/ ProcessBlock(w) \/ ReadParentTd(w)
    \/ LockMu(w) \/ WriteTd(w) \/ (\E coin \in BOOLEAN : WriteBlock(w, coin))
    \/ ReorgFails(w) \/ ReorgDiff(w)
    \/ InsertHeadBlock(w) \/ InsertHeadFast(w)
    \/ IndexBlock(w)

MuStep == ReorgStep \/ InsertCanon \/ InsertHeadHeader

\* A node that only imports.
ImportNext == WriterStep("importer") \/ MuStep

\* A node that imports and mines.
MineNext == ImportNext \/ WriterStep("miner") \/ \E b \in Blocks : WriteBlockReceipts(b)

Next == MineNext \/ (\E n \in 0 .. MaxNumber : SetHead(n)) \/ SetHeadStep

Spec == Init /\ [][Next]_vars
------------------------------------------------------------------------------
Free == pc = "free"

(***************************************************************************)
(* "GetBlockByNumber always represents the canonical chain"                *)
(* (blockchain.go:79): up to the head block the number index is the head's *)
(* own ancestry, every block of it stored, whatever importer, miner and    *)
(* SetHead have done in between.                                           *)
(***************************************************************************)
CanonToHead ==
    Free => /\ canon[Number[currentBlock]] = currentBlock
            /\ \A n \in 1 .. Number[currentBlock] : /\ canon[n] \in blocks
                                                    /\ canon[n - 1] = Parent[canon[n]]

\* The head block and its total difficulty are stored at every instant at which mu is
\* free or blocks are being written, and the database names a stored head: a
\* process that dies there never restarts into Reset, which would drop the chain.
\* loadLastState inside SetHead finds the head it has just written; the alternative
\* locks mu twice (Reset, blockchain.go:374).
HeadStored ==
    /\ pc \notin {"delBlock", "delCanon", "resetHeads", "load", "selflock", "panic"} =>
           /\ currentBlock \in blocks /\ td[currentBlock] # None
           /\ headBlock \in blocks
    /\ pc # "selflock"

\* WriteBlock leaves the chain on a head not lighter than the block it has just stored,
\* unless reorg gives up on a broken ancestry.
HeavierHead ==
    \A w \in Writers :
       (wpc[w] = "locked" /\ pc # "reorg" /\ wpc'[w] # "locked") => td[currentBlock'] >= td[blk[w]]

\* The head of a node that only writes blocks is a heaviest stored block: no
\* interleaving of importer and miner makes a decision on a stale head.
Heaviest == Free => \A b \in blocks : td[b] <= td[currentBlock]

\* The block on the canonical chain, up to the head, that holds t.
Holder(t) == {b \in Blocks : t \in TxsOf[b] /\ Number[b] <= Number[currentBlock] /\ canon[Number[b]] = b}

Quiet == Free /\ (\A w \in Writers : wpc[w] = "idle") /\ late = {}

\* Between imports a transaction's metadata names the canonical block that holds it,
\* and a transaction dropped by reorgs has none.
TxBlockExact == Quiet => \A t \in Txs : {txBlock[t]} \ {None} = Holder(t)

\* "write canonical receipts and transactions" (reorg, blockchain.go:1167): the
\* transactions of the canonical chain have the receipts of their canonical block.
CanonReceipts == Quiet => \A t \in Txs : \A b \in Holder(t) : txReceipt[t] = b

\* "It will also reset the head header and the head fast sync block to this very same
\* block if they are older" (insert, blockchain.go:437).
HeadsFollow == Free => Number[currentHeader] >= Number[currentBlock]

\* "insert blocks. Order does not matter." (reorg, blockchain.go:1163): after a restart
\* the number index is the ancestry of the head, wherever reorg was cut off.
CanonLinked == Free => \A n \in 1 .. Number[currentBlock] : canon[n] # None => canon[n - 1] = Parent[canon[n]]

\* Every block taken up is dealt with: the loops of reorg end.
WriteReturns == (wpc["importer"] # "idle") ~> (wpc["importer"] = "idle")
==============================================================================
