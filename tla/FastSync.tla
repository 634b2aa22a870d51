------------------------------- MODULE FastSync ------------------------------
(***************************************************************************)
(* Fast synchronisation, across cycles: what processHeaders and            *)
(* processContent do to the block chain and its database while they run    *)
(* side by side, the roll back of a failed cycle, the pivot lock, the      *)
(* switch to full synchronisation, and a restart at any moment.            *)
(*                                                                         *)
(* There is one chain, and a block is its number: what a peer on another   *)
(* chain, or an invalid header or block, does to a cycle is a failure at   *)
(* an arbitrary point.  Total difficulties are ordered as the numbers are. *)
(* The stored headers, and with them the canonical numbers, are always     *)
(* 0 .. stored: roll back moves the heads and deletes nothing.  How blocks *)
(* reach the result cache is FetchParts, how a state reaches the database  *)
(* is StateFetch, and the single writes of WriteBlock are BlockChain.      *)
(***************************************************************************)
EXTENDS Integers, FiniteSets, FiniteSetsExt

CONSTANTS
    Last,        \* bound: the highest block of any peer
    Heights,     \* bound: the head blocks of the peers
    MinFull,     \* fsMinFullBlocks
    Interval,    \* fsPivotInterval
    Gap,         \* the distance of the headers findAncestor asks for (16)
    ForceVerify, \* fsHeaderForceVerify
    SafetyNet,   \* fsHeaderSafetyNet
    Trials,      \* fsCriticalTrials
    MaxChunk,    \* maxHeadersProcess and maxResultsProcess
    Workers,     \* GOMAXPROCS
    MaxRestarts  \* bound: how often the node is started again

ASSUME FastSyncAssumption ==
    /\ {Last, Interval, Gap, ForceVerify, SafetyNet, Trials, MaxChunk, Workers} \subseteq Nat \ {0}
    /\ {MinFull, MaxRestarts} \subseteq Nat
    /\ Heights \subseteq 1 .. Last

Numbers == 0 .. Last
Empty(n) == [first |-> 0, last |-> n]
NoBatch == Empty(0)

VARIABLES
    stored,     \* chainDb: the headers 0 .. stored and their canonical numbers
    bodies, receipts, states,  \* chainDb: the blocks whose body, receipts and state are stored
    disk,       \* chainDb: "LastHeader", "LastFast" and "LastBlock"
    mem,        \* currentHeader, currentFastBlock and currentBlock
    fastSync,   \* pm.fastSync
    lock,       \* the number of d.fsPivotLock, or 0
    fails,      \* d.fsPivotFails
    mode,       \* "idle", or d.mode of the cycle that runs
    origin, pivot, height,  \* of the cycle: common ancestor, pivot, promised head
    hpc,        \* processHeaders: "run", "ok" or "err"
    hnext,      \* the next header to process; those below are scheduled
    roll,       \* first and last header of the roll back list
    cpc,        \* processContent: "wait", "receipts", "commit", "blocks", "ok" or "err"
    batch,      \* the results it is importing; in between, the last one it has imported
    todo, busy, \* InsertReceiptChain: the tasks left, and those a worker has in hand
    interrupt,  \* procInterrupt: the node is stopping
    restarts,
    fault,      \* history: something went wrong in this cycle that was not this node's doing
    crossed,    \* history: a roll back took the head block below a pivot
    torn        \* history: bodies whose receipts a crash has kept from being written

db == <<stored, bodies, receipts, states>>
node == <<fastSync, lock, fails>>
cycle == <<mode, origin, pivot, height>>
headers == <<hpc, hnext, roll>>
content == <<cpc, batch, todo, busy>>
history == <<crossed, torn>>
vars == <<stored, bodies, receipts, states, disk, mem, fastSync, lock, fails, mode, origin,
          pivot, height, hpc, hnext, roll, cpc, batch, todo, busy, interrupt, restarts, fault,
          crossed, torn>>

Heads(n) == [header |-> n, fast |-> n, block |-> n]

Idle ==
    /\ mode' = "idle" /\ origin' = 0 /\ pivot' = 0 /\ height' = 0
    /\ hpc' = "ok" /\ hnext' = 1 /\ roll' = NoBatch
    /\ cpc' = "ok" /\ batch' = NoBatch /\ todo' = {} /\ busy' = {}
    /\ fault' = FALSE

\* A new node that was started with --fast.
Init ==
    /\ stored = 0 /\ bodies = {0} /\ receipts = {0} /\ states = {0}
    /\ disk = Heads(0) /\ mem = Heads(0)
    /\ fastSync = TRUE /\ lock = 0 /\ fails = 0
    /\ mode = "idle" /\ origin = 0 /\ pivot = 0 /\ height = 0
    /\ hpc = "ok" /\ hnext = 1 /\ roll = NoBatch
    /\ cpc = "ok" /\ batch = NoBatch /\ todo = {} /\ busy = {}
    /\ interrupt = FALSE /\ restarts = 0
    /\ fault = FALSE /\ crossed = FALSE /\ torn = {}
HasBlockAndState(n) == n \in bodies \cap states
------------------------------------------------------------------------------
\* A cycle.

\* findAncestor: a common block that the mode can build on.  The headers asked for are Gap
\* apart, so that on a short chain it may be that much below the highest one.
findAncestor(m, h) ==
    LET known == IF m = "fast" THEN 0 .. Min({mem.fast, h})
                 ELSE {n \in 0 .. Min({mem.block, h}) : HasBlockAndState(n)} IN
    {n \in known : n + Gap > Max(known)}

\* The pivot is drawn at random below the last MinFull blocks, unless it is locked.
Pivots(m, h) ==
    IF m = "full" THEN {0}
    ELSE IF lock # 0 THEN {lock}
    ELSE {IF h > MinFull + offset THEN h - MinFull - offset ELSE 0 : offset \in 0 .. Interval - 1}

\* Mutant: the ancestor is never moved back.
BadOrigin(o, m, p) == o

\* The ancestor is moved back if the pivot is below it, to fetch the pivot's state.
Origin(o, m, p) ==
    IF m = "fast" /\ p < o THEN (IF p > 0 THEN p - 1 ELSE 0) ELSE o

\* synchronise and syncWithPeer, with a peer that promises h blocks.
Synchronise(h, p) ==
    LET m == IF fastSync /\ fails < Trials THEN "fast" ELSE "full" IN
    /\ mode = "idle" /\ ~interrupt
    /\ h > mem.block
    /\ p \in Pivots(m, h)
    /\ mode' = m /\ height' = h /\ pivot' = p
    /\ \E o \in findAncestor(m, h) :
          /\ origin' = Origin(o, m, p)
          /\ hnext' = Origin(o, m, p) + 1
          /\ batch' = Empty(Origin(o, m, p))
    /\ hpc' = "run" /\ cpc' = "wait"
    /\ UNCHANGED <<db, disk, mem, node, roll, todo, busy, interrupt, restarts, fault, history>>

\* An error of one goroutine cancels the others.
Failed == hpc = "err" \/ cpc = "err" \/ fault

\* spawnSync returns, then pm.synchronise.
CycleEnd ==
    /\ mode # "idle" /\ hpc \in {"ok", "err"} /\ cpc \in {"ok", "err"}
    /\ fails' = IF Failed /\ mode = "fast" /\ lock # 0 THEN Min({fails + 1, Trials}) ELSE fails
    /\ fastSync' = (fastSync /\ (Failed \/ mem.block = 0))
    /\ Idle
    /\ UNCHANGED <<db, disk, mem, lock, interrupt, restarts, history>>

\* A fetcher fails: a timeout, a peer that leaves, a cancel.
FetchFails ==
    /\ mode # "idle" /\ ~Failed
    /\ fault' = TRUE
    /\ UNCHANGED <<db, disk, mem, node, cycle, headers, content, interrupt, restarts, history>>
------------------------------------------------------------------------------
\* processHeaders.

\* insertHeaders stores the unknown ones of the next n headers.  Known headers are skipped,
\* and the head header then stays where it is.  The chunk is scheduled.
InsertHeaders(n) ==
    LET last == hnext + n - 1
        unknown == {k \in hnext .. last : k > stored} IN
    /\ hpc = "run" /\ n \in 1 .. MaxChunk /\ last <= height
    /\ IF mode = "fast" /\ unknown # {} THEN
          /\ roll' = [first |-> Max({IF roll.first = 0 THEN Min(unknown) ELSE roll.first,
                                     last - SafetyNet + 1}),
                      last |-> last]
          /\ IF interrupt THEN UNCHANGED <<stored, mem, disk>>
             ELSE /\ stored' = last
                  /\ mem' = [mem EXCEPT !.header = last]
                  /\ disk' = [disk EXCEPT !.header = last]
       ELSE UNCHANGED <<roll, stored, mem, disk>>
    /\ hnext' = last + 1
    /\ UNCHANGED <<bodies, receipts, states, node, cycle, hpc, content, interrupt, restarts, fault, history>>

\* Rollback of the headers lo .. hi: a head among them goes to the block below lo.
Below(h, lo, hi) == IF h \in lo .. hi THEN lo - 1 ELSE h

\* processHeaders returns an error; its deferred function rolls back the list.
ReturnError(list) ==
    LET down(h) == Below(h, list.first, list.last)
        moved == [header |-> down(mem.header), fast |-> down(mem.fast), block |-> down(mem.block)] IN
    /\ hpc' = "err" /\ roll' = NoBatch
    /\ IF list.last = 0 THEN UNCHANGED <<mem, disk, lock, crossed>>
       ELSE /\ mem' = moved
            /\ disk' = [k \in DOMAIN disk |-> IF moved[k] # mem[k] THEN moved[k] ELSE disk[k]]
            /\ lock' = IF list.last > pivot /\ fails = 0 /\ pivot \in list.first .. list.last
                       THEN pivot ELSE lock
            /\ crossed' = (crossed \/ (moved.block < mem.block /\ moved.block < pivot))
    /\ UNCHANGED <<db, fastSync, fails, cycle, hnext, content, interrupt, restarts, torn>>

\* A header of the next chunk is invalid: the ones before it, stored or not, are added to
\* the roll back list.
HeadersInvalid(n) ==
    LET bad == hnext + n IN
    /\ hpc = "run" /\ mode = "fast" /\ n \in 0 .. MaxChunk - 1
    /\ bad > stored /\ bad <= Last + 1
    /\ fault' = TRUE
    /\ ReturnError(IF n = 0 THEN roll
                   ELSE [first |-> IF roll.first = 0 THEN hnext ELSE roll.first, last |-> bad - 1])

\* The cycle is cancelled.
HeadersCancelled ==
    /\ hpc = "run" /\ Failed
    /\ fault' = TRUE
    /\ ReturnError(roll)

\* There are no more headers: all that were promised have come, or the peer has stopped.
HeadersDone ==
    /\ hpc = "run" /\ (hnext > height \/ fault)
    /\ UNCHANGED fault
    /\ IF \/ hnext = origin + 1 /\ height > mem.block
          \/ mode = "fast" /\ height > mem.header
       THEN ReturnError(roll)
       ELSE /\ hpc' = "ok" /\ roll' = NoBatch
            /\ UNCHANGED <<db, disk, mem, node, cycle, hnext, content, interrupt, restarts, history>>

\* fetchNodeData has the whole state of the pivot; progress resets the counter to 1.
StateStored ==
    /\ mode = "fast" /\ pivot \in origin + 1 .. hnext - 1 /\ pivot \notin states
    /\ states' = states \cup {pivot}
    /\ fails' = Min({fails, 1})
    /\ UNCHANGED <<stored, bodies, receipts, disk, mem, fastSync, lock, cycle, headers, content,
                   interrupt, restarts, fault, history>>
------------------------------------------------------------------------------
\* processContent.

\* WaitResults: the next n blocks are complete.  The pivot leaves alone, with its state, and
\* when enough headers follow it.
WaitResults(n) ==
    LET first == batch.last + 1
        last == batch.last + n IN
    /\ cpc = "wait" /\ n \in 1 .. MaxChunk /\ last < hnext
    /\ mode = "fast" /\ pivot \in first .. last =>
          n = 1 /\ pivot \in states /\ pivot + ForceVerify < hnext
    /\ batch' = [first |-> first, last |-> last]
    /\ IF mode = "fast" /\ first <= pivot
       THEN cpc' = "receipts" /\ todo' = first .. last
       ELSE cpc' = "blocks" /\ UNCHANGED todo
    /\ UNCHANGED <<db, disk, mem, node, cycle, headers, busy, interrupt, restarts, fault, history>>

\* A worker of InsertReceiptChain takes a task, and skips a block it finds in the database.
TakeTask ==
    LET i == Min(todo) IN
    /\ cpc = "receipts" /\ todo # {} /\ Cardinality(busy) < Workers
    /\ todo' = IF interrupt THEN {} ELSE todo \ {i}
    /\ busy' = IF interrupt \/ i \in bodies THEN busy ELSE busy \cup {i}
    /\ UNCHANGED <<db, disk, mem, node, cycle, headers, cpc, batch, interrupt, restarts, fault, history>>

\* Mutant: the worker leaves the block after its body.
BadWriteBody(i) ==
    /\ i \in busy \ bodies
    /\ bodies' = bodies \cup {i}
    /\ busy' = busy \ {i}
    /\ UNCHANGED <<stored, receipts, states, disk, mem, node, cycle, headers, cpc, batch, todo, interrupt,
                   restarts, fault, history>>

WriteBody(i) ==
    /\ i \in busy \ bodies
    /\ bodies' = bodies \cup {i}
    /\ UNCHANGED <<stored, receipts, states, disk, mem, node, cycle, headers, content, interrupt, restarts,
                   fault, history>>

\* The receipts, the blooms, the transactions' metadata and their receipts.
WriteReceipts(i) ==
    /\ i \in busy \cap bodies
    /\ receipts' = receipts \cup {i}
    /\ busy' = busy \ {i}
    /\ UNCHANGED <<stored, bodies, states, disk, mem, node, cycle, headers, cpc, batch, todo, interrupt,
                   restarts, fault, history>>

\* Mutant: the import of receipts moves the head block as well.
BadWriteHeadFast(heads) == [heads EXCEPT !.fast = batch.last, !.block = batch.last]

WriteHeadFast(heads) == [heads EXCEPT !.fast = batch.last]

\* Mutant: the fast head follows although the workers have left the batch.
BadUpdateHeadFast ==
    /\ cpc = "receipts" /\ todo = {} /\ busy = {}
    /\ IF batch.last > mem.fast
       THEN mem' = WriteHeadFast(mem) /\ disk' = WriteHeadFast(disk)
       ELSE UNCHANGED <<mem, disk>>
    /\ cpc' = IF batch.last = pivot THEN "commit" ELSE "wait"
    /\ batch' = Empty(batch.last)
    /\ UNCHANGED <<db, node, cycle, headers, todo, busy, interrupt, restarts, fault, history>>

\* The workers are done: the fast head follows, unless the import was interrupted.
UpdateHeadFast ==
    /\ cpc = "receipts" /\ todo = {} /\ busy = {}
    /\ IF ~interrupt /\ batch.last > mem.fast
       THEN mem' = WriteHeadFast(mem) /\ disk' = WriteHeadFast(disk)
       ELSE UNCHANGED <<mem, disk>>
    /\ cpc' = IF batch.last = pivot THEN "commit" ELSE "wait"
    /\ batch' = Empty(batch.last)
    /\ UNCHANGED <<db, node, cycle, headers, todo, busy, interrupt, restarts, fault, history>>

\* The pivot becomes the head block, in memory only.
FastSyncCommitHead ==
    /\ cpc = "commit"
    /\ IF HasBlockAndState(pivot)
       THEN cpc' = "wait" /\ mem' = [mem EXCEPT !.block = pivot]
       ELSE cpc' = "err" /\ UNCHANGED mem
    /\ UNCHANGED <<db, disk, node, cycle, headers, batch, todo, busy, interrupt, restarts, fault, history>>

\* InsertChain of the next block: ValidateBlock, then WriteBlock.  A known block is ignored;
\* a lighter one is stored and the head stays; reorg needs the blocks down to the head.
InsertBlock ==
    LET n == batch.first
        Shift ==
            IF n = batch.last THEN batch' = Empty(n) /\ cpc' = "wait"
            ELSE batch' = [batch EXCEPT !.first = n + 1] /\ UNCHANGED cpc
        new == n > stored
        better == n > mem.block IN
    /\ cpc = "blocks"
    /\ IF interrupt \/ HasBlockAndState(n) THEN
          Shift /\ UNCHANGED <<db, mem, disk>>
       ELSE IF ~HasBlockAndState(n - 1) \/ (better /\ ~(mem.block .. n - 1 \subseteq bodies)) THEN
          cpc' = "err" /\ UNCHANGED <<db, mem, disk, batch>>
       ELSE /\ stored' = Max({stored, n})
            /\ bodies' = bodies \cup {n} /\ receipts' = receipts \cup {n} /\ states' = states \cup {n}
            /\ LET Put(heads) ==
                       IF ~better THEN heads ELSE IF new THEN Heads(n) ELSE [heads EXCEPT !.block = n] IN
               mem' = Put(mem) /\ disk' = Put(disk)
            /\ Shift
    /\ UNCHANGED <<node, cycle, headers, todo, busy, interrupt, restarts, fault, history>>

\* A block is invalid, or the downloader is terminated between two batches.
ContentFails ==
    /\ cpc = "blocks" \/ (cpc = "wait" /\ interrupt)
    /\ cpc' = "err" /\ fault' = TRUE
    /\ UNCHANGED <<db, disk, mem, node, cycle, headers, batch, todo, busy, interrupt, restarts, history>>

\* The queue is closed and has nothing complete to give.
ContentDone ==
    /\ cpc = "wait" /\ (Failed \/ (hpc = "ok" /\ batch.last = hnext - 1))
    /\ cpc' = "ok"
    /\ UNCHANGED <<db, disk, mem, node, cycle, headers, batch, todo, busy, interrupt, restarts, fault, history>>
------------------------------------------------------------------------------
\* BlockChain.Stop.
Stop ==
    /\ ~interrupt /\ restarts < MaxRestarts
    /\ interrupt' = TRUE
    /\ UNCHANGED <<db, disk, mem, node, cycle, headers, content, restarts, fault, history>>

\* The node is started again, after Stop or after a crash: loadLastState, then
\* NewProtocolManager.  It does not start if the state of the head block is missing.
Restart ==
    /\ restarts < MaxRestarts
    /\ restarts' = restarts + 1
    /\ HasBlockAndState(disk.block)
    /\ mem' = [disk EXCEPT !.fast = IF disk.fast \in bodies THEN disk.fast ELSE disk.block]
    /\ fastSync' = (disk.block = 0) /\ lock' = 0 /\ fails' = 0
    /\ interrupt' = FALSE
    /\ torn' = torn \cup (busy \cap bodies)
    /\ Idle
    /\ UNCHANGED <<db, disk, crossed>>

Next ==
    \/ \E h \in Heights, p \in Numbers : Synchronise(h, p)
    \/ CycleEnd \/ FetchFails
    \/ \E n \in 1 .. MaxChunk : InsertHeaders(n) \/ WaitResults(n)
    \/ \E n \in 0 .. MaxChunk - 1 : HeadersInvalid(n)
    \/ HeadersCancelled \/ HeadersDone \/ StateStored
    \/ TakeTask \/ UpdateHeadFast \/ FastSyncCommitHead
    \/ \E i \in Numbers : WriteBody(i) \/ WriteReceipts(i)
    \/ InsertBlock \/ ContentFails \/ ContentDone
    \/ Stop \/ Restart

Spec == Init /\ [][Next]_vars
------------------------------------------------------------------------------
\* Every block up to a head is in the database, whatever the workers, a roll back or a crash
\* leave behind: Rollback and reorg never meet a nil block.
ChainComplete == 0 .. Max({mem.fast, mem.block, disk.fast, disk.block}) \subseteq bodies

\* The node can build on its head block, and starts again from the one on disk: its state
\* is stored, unless a roll back took the head below a pivot, where no block has its state.
HeadHasState == {mem.block, disk.block} \subseteq states \/ crossed

\* A block whose body is stored has its receipts too once its import is over, unless the
\* node crashed between the two writes: the body alone makes InsertReceiptChain skip the
\* block for ever.
ReceiptsKept == bodies \subseteq receipts \cup busy \cup torn

\* A peer that delivers all it promised is not dropped as stalling or invalid, but for two
\* reasons.  Headers that an earlier roll back left in the database are skipped, so that the
\* head header stays behind them; and a pivot drawn at the fast head itself is not fetched,
\* since the ancestor is moved back only when the pivot is below it.
HonestServed ==
    mode # "idle" /\ ~fault /\ ~interrupt =>
       /\ hpc = "err" => mem.header < height /\ height <= stored
       /\ cpc = "err" => pivot = origin /\ pivot \notin states
==============================================================================
