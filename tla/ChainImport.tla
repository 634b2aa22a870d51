------------------------------ MODULE ChainImport -----------------------------
(***************************************************************************)
(* BlockChain.InsertChain and what surrounds it: the outcomes of block     *)
(* validation, the queue of blocks from the future and the timer that      *)
(* retries them, the events an insertion announces, and Stop.  chainmu     *)
(* admits one InsertChain at a time (batch # << >>).  WriteBlock, which    *)
(* runs under mu, is one step here; the module BlockChain has its detail.  *)
(***************************************************************************)
EXTENDS BlockTree, Sequences, SequencesExt

CONSTANTS
    Time,        \* header.Time
    BadNonce,    \* blocks whose proof of work does not verify
    BadBody,     \* blocks that fail a check of ValidateBlock, Process or ValidateState
    Chains,      \* bound: the block sequences handed to InsertChain
    MaxTime,     \* bound: the last instant of the clock
    MaxCalls,    \* bound: InsertChain is called from outside so many times
    MaxAhead,    \* maxTimeFutureBlocks
    MaxFuture    \* maxFutureBlocks, the capacity of the LRU cache

ASSUME ImportAssumption ==
    /\ Time \in [Blocks -> Nat]
    /\ BadNonce \subseteq Blocks /\ BadBody \subseteq Blocks
    /\ Chains \subseteq Seq(Blocks \ {Genesis}) /\ << >> \notin Chains
    /\ MaxTime \in Nat /\ MaxCalls \in Nat /\ MaxAhead \in Nat /\ MaxFuture \in Nat \ {0}

VARIABLES
    now,          \* the clock
    stored,       \* blocks in the database, their state included
    td,           \* total difficulties
    head,         \* currentBlock
    future,       \* futureBlocks, least recently used first
    due,          \* blocks procFutureBlocks has still to hand to InsertChain
    batch,        \* blocks the running InsertChain has still to look at
    events,       \* canonical blocks of the running InsertChain, announced at its end
    posting,      \* goroutines of postChainEvents: what each has still to announce
    announced,    \* blocks for which a ChainHeadEvent was posted
    lost,         \* history: blocks whose events a failing InsertChain has dropped
    evicted,      \* history: futureBlocks has dropped a block for lack of room
    interrupted,  \* procInterrupt
    stopped,      \* Stop has returned
    calls

vars == <<now, stored, td, head, future, due, batch, events, posting, announced, lost, evicted,
          interrupted, stopped, calls>>
chainVars == <<stored, td, head>>
queueVars == <<future, evicted>>
eventVars == <<posting, announced, lost>>
stopVars == <<interrupted, stopped>>

\* A goroutine of postChainEvents announces blocks in order; armed: the first one has
\* been found to be the head.
Goroutine == [todo : Seq(Blocks), armed : BOOLEAN]

TypeOK ==
    /\ now \in 0 .. MaxTime /\ calls \in 0 .. MaxCalls
    /\ stored \subseteq Blocks /\ head \in Blocks /\ announced \subseteq Blocks
    /\ td \in [Blocks -> Nat \cup {None}]
    /\ future \in Seq(Blocks) /\ Len(future) <= MaxFuture
    /\ due \in Seq(Blocks) /\ batch \in Seq(Blocks) /\ events \in Seq(Blocks)
    /\ posting \subseteq Goroutine /\ lost \subseteq Blocks /\ evicted \in BOOLEAN
    /\ interrupted \in BOOLEAN /\ stopped \in BOOLEAN

Init ==
    /\ now = 0 /\ calls = 0
    /\ stored = {Genesis} /\ head = Genesis /\ announced = {Genesis}
    /\ td = [b \in Blocks |-> IF b = Genesis THEN Difficulty[Genesis] ELSE None]
    /\ future = << >> /\ due = << >> /\ batch = << >> /\ events = << >>
    /\ posting = {} /\ lost = {} /\ evicted = FALSE
    /\ interrupted = FALSE /\ stopped = FALSE

Elems(s) == {s[i] : i \in 1 .. Len(s)}

\* The LRU cache: an entry that is added or read becomes the most recent one, the
\* least recent one is dropped beyond the capacity.
Touch(cache, b) == Append(SelectSeq(cache, LAMBDA x : x # b), b)

Added(cache, b) == IF Len(Touch(cache, b)) > MaxFuture THEN Tail(Touch(cache, b)) ELSE Touch(cache, b)

Removed(cache, b) == SelectSeq(cache, LAMBDA x : x # b)

Enqueue(b) ==
    /\ future' = Added(future, b)
    /\ evicted' = (evicted \/ Len(Touch(future, b)) > MaxFuture)
------------------------------------------------------------------------------
Contiguous(chain) ==
    \A i \in 2 .. Len(chain) : /\ Number[chain[i]] = Number[chain[i - 1]] + 1
                               /\ Parent[chain[i]] = chain[i - 1]

InsertChain(chain) ==
    /\ batch = << >> /\ calls < MaxCalls
    /\ Contiguous(chain)
    /\ batch' = chain /\ calls' = calls + 1
    /\ UNCHANGED <<now, chainVars, queueVars, due, events, eventVars, stopVars>>

\* Mutant: only the first block of an insertion is announced.
BadPost(evs) ==
    /\ batch' = << >> /\ events' = << >>
    /\ posting' = posting \cup (IF evs = << >> THEN {} ELSE {[todo |-> <<Head(evs)>>, armed |-> FALSE]})
    /\ UNCHANGED lost

\* InsertChain returns without an error: a goroutine announces what became canonical.
Post(evs) ==
    /\ batch' = << >> /\ events' = << >>
    /\ posting' = posting \cup (IF evs = << >> THEN {} ELSE {[todo |-> evs, armed |-> FALSE]})
    /\ UNCHANGED lost

\* The block at hand is done with.
Proceed(evs) ==
    IF Len(batch) = 1
    THEN Post(evs)
    ELSE batch' = Tail(batch) /\ events' = evs /\ UNCHANGED <<posting, lost>>

\* InsertChain returns an error, and nothing of what it collected is announced.
Fail ==
    /\ batch' = << >> /\ events' = << >>
    /\ lost' = lost \cup Elems(events)
    /\ UNCHANGED posting

\* Mutant: procInterrupt is not looked at.
BadInterrupted == FALSE

Interrupted == interrupted

Interrupt ==
    /\ batch # << >> /\ Interrupted
    /\ Post(events)
    /\ UNCHANGED <<now, chainVars, queueVars, due, announced, stopVars, calls>>

Processing == batch # << >> /\ ~Interrupted

\* verifyNoncesFromBlocks: the result of a later block may come in before the one
\* awaited, so that a bad nonce aborts the import at any block before it.
NonceFails ==
    /\ Processing
    /\ \E b \in Elems(batch) : b \in BadNonce
    /\ Fail
    /\ UNCHANGED <<now, chainVars, queueVars, due, announced, stopVars, calls>>

NonceChecked(b) == Processing /\ b = Head(batch) /\ b \notin BadNonce

Known(b) ==
    /\ NonceChecked(b) /\ b \in stored
    /\ Proceed(events)
    /\ UNCHANGED <<now, chainVars, queueVars, due, announced, stopVars, calls>>

\* IsParentErr with the parent in the queue.
ParentQueued(b) == Parent[b] \in Elems(future)

\* Without its parent a block waits for it in the queue, or fails the import.
ParentMissing(b) ==
    /\ NonceChecked(b) /\ b \notin stored /\ Parent[b] \notin stored
    /\ IF ParentQueued(b)
       THEN Enqueue(b) /\ Proceed(events)
       ELSE Fail /\ UNCHANGED queueVars
    /\ UNCHANGED <<now, chainVars, due, announced, stopVars, calls>>

\* BlockFutureErr is met before any other check of the header or the body.
FromFuture(b) ==
    /\ NonceChecked(b) /\ b \notin stored /\ Parent[b] \in stored
    /\ Time[b] > now
    /\ IF Time[b] > now + MaxAhead
       THEN Fail /\ UNCHANGED queueVars
       ELSE Enqueue(b) /\ Proceed(events)
    /\ UNCHANGED <<now, chainVars, due, announced, stopVars, calls>>

\* Mutant: a bad block is dropped from the queue.
BadInvalid(b) ==
    /\ NonceChecked(b) /\ b \notin stored /\ Parent[b] \in stored
    /\ Time[b] <= now /\ b \in BadBody
    /\ Fail
    /\ future' = Removed(future, b)
    /\ UNCHANGED <<now, chainVars, evicted, due, announced, stopVars, calls>>

\* A bad block fails the import; a queued one stays in the queue.
Invalid(b) ==
    /\ NonceChecked(b) /\ b \notin stored /\ Parent[b] \in stored
    /\ Time[b] <= now /\ b \in BadBody
    /\ Fail
    /\ UNCHANGED <<now, chainVars, queueVars, due, announced, stopVars, calls>>

Dequeue(b) == Removed(future, b)

\* Stage 1 and 2 pass: WriteBlock.
WriteBlock(b, coin) ==
    /\ NonceChecked(b) /\ b \notin stored /\ Parent[b] \in stored
    /\ Time[b] <= now /\ b \notin BadBody
    /\ stored' = stored \cup {b}
    /\ td' = [td EXCEPT ![b] = td[Parent[b]] + Difficulty[b]]
    /\ future' = Dequeue(b)
    /\ IF td'[b] > td[head] \/ (td'[b] = td[head] /\ coin)
       THEN head' = b /\ Proceed(Append(events, b))
       ELSE Proceed(events) /\ UNCHANGED head
    /\ UNCHANGED <<now, evicted, due, announced, stopVars, calls>>
------------------------------------------------------------------------------
\* Mutant: the queued blocks are handed over in the order of the cache, as one chain.
BadProcFutureBlocks ==
    /\ due = << >> /\ future # << >> /\ ~interrupted /\ batch = << >>
    /\ Contiguous(future)
    /\ batch' = future
    /\ UNCHANGED <<now, chainVars, queueVars, due, events, eventVars, stopVars, calls>>

\* The timer of update: the queue is copied and sorted by number.  Reading every entry
\* in the order of the cache leaves that order as it was.
ProcFutureBlocks ==
    /\ due = << >> /\ future # << >> /\ ~interrupted
    /\ due' = SetToSortSeq(Elems(future), LAMBDA x, y : Number[x] < Number[y])
    /\ UNCHANGED <<now, chainVars, queueVars, batch, events, eventVars, stopVars, calls>>

\* InsertChain(blocks[i : i+1])
InsertDue ==
    /\ due # << >> /\ batch = << >>
    /\ batch' = <<Head(due)>> /\ due' = Tail(due)
    /\ UNCHANGED <<now, chainVars, queueVars, events, eventVars, stopVars, calls>>

\* postChainEvents compares the block with the head, then posts.
CheckHead(g) ==
    /\ g \in posting /\ ~g.armed
    /\ posting' = (posting \ {g}) \cup
                  (IF head = Head(g.todo) THEN {[g EXCEPT !.armed = TRUE]}
                   ELSE IF Len(g.todo) = 1 THEN {}
                   ELSE {[g EXCEPT !.todo = Tail(@)]})
    /\ UNCHANGED <<now, chainVars, queueVars, due, batch, events, announced, lost, stopVars, calls>>

PostHead(g) ==
    /\ g \in posting /\ g.armed
    /\ announced' = announced \cup {Head(g.todo)}
    /\ posting' = (posting \ {g}) \cup
                  (IF Len(g.todo) = 1 THEN {} ELSE {[todo |-> Tail(g.todo), armed |-> FALSE]})
    /\ UNCHANGED <<now, chainVars, queueVars, due, batch, events, lost, stopVars, calls>>

Stop ==
    /\ ~interrupted /\ interrupted' = TRUE
    /\ UNCHANGED <<now, chainVars, queueVars, due, batch, events, eventVars, stopped, calls>>

\* wg.Wait returns once no InsertChain is running.
StopReturns ==
    /\ interrupted /\ ~stopped /\ batch = << >>
    /\ stopped' = TRUE
    /\ UNCHANGED <<now, chainVars, queueVars, due, batch, events, eventVars, interrupted, calls>>

Tick ==
    /\ now < MaxTime /\ now' = now + 1
    /\ UNCHANGED <<chainVars, queueVars, due, batch, events, eventVars, stopVars, calls>>
------------------------------------------------------------------------------
BlockStep ==
    \/ Interrupt \/ NonceFails
    \/ \E b \in Blocks : Known(b) \/ ParentMissing(b) \/ FromFuture(b) \/ Invalid(b)
    \/ \E b \in Blocks, coin \in BOOLEAN : WriteBlock(b, coin)

PostStep == \E g \in posting : CheckHead(g) \/ PostHead(g)

Next ==
    \/ \E chain \in Chains : InsertChain(chain)
    \/ BlockStep
    \/ ProcFutureBlocks \/ InsertDue
    \/ PostStep
    \/ Tick
    \/ Stop \/ StopReturns

(***************************************************************************)
(* The clock, the timer and the goroutines never stop.  Calls from outside *)
(* are finitely many, so that the timer gets chainmu in the end.           *)
(***************************************************************************)
Fairness ==
    /\ WF_vars(BlockStep) /\ WF_vars(ProcFutureBlocks) /\ WF_vars(InsertDue)
    /\ WF_vars(PostStep) /\ WF_vars(Tick)

Spec == Init /\ [][Next]_vars /\ Fairness
------------------------------------------------------------------------------
\* A block waits in the queue only as long as it is not in the database: WriteBlock
\* dequeues it on every path by which it can get there.  Its parent is in the database
\* or in the queue, so that the timer's retries get somewhere, as long as the queue has
\* not overflowed; a block that fails is kept for that reason.
QueueGrounded ==
    \A b \in Elems(future) : b \notin stored /\ (evicted \/ Parent[b] \in stored \cup Elems(future))

\* The queue of future blocks is within its capacity, without duplicates, and grounded.
QueueSound == TypeOK /\ QueueGrounded

\* Nothing is written once Stop has returned (the node then closes the database), not
\* even by calls that were waiting or by the timer's remaining blocks.
NoWriteAfterStop == [][stopped => UNCHANGED stored]_vars

\* The blocks that can be imported at all, in trees where bad blocks have no grandchildren.
Importable == {b \in Blocks \ ({Genesis} \cup BadBody \cup BadNonce) : Parent[b] \notin BadBody \cup BadNonce}

\* A queued block whose ancestry is sound is imported in the end by the retries of the
\* timer, unless the queue overflows or the chain is stopped first.
FutureImported ==
    \A b \in Importable : (b \in Elems(future)) ~> (b \in stored \/ evicted \/ interrupted)

\* A block that becomes the head is announced by postChainEvents, unless it is superseded
\* first or a later block of its own batch fails: the error returns of InsertChain are the
\* only way to lose a head.
HeadAnnounced == \A b \in Importable : (head = b) ~> (head # b \/ b \in announced \/ b \in lost)
==============================================================================
