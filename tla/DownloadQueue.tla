---------------------------- MODULE DownloadQueue ----------------------------
(***************************************************************************)
(* The block part of eth/downloader's queue: tasks for bodies and receipts *)
(* between Schedule and WaitResults.  Every operation runs under q.lock;   *)
(* the loop of reserveHeaders and WaitResults' wait on q.active hold it    *)
(* over several steps (lock # "free").  The headers of a cycle form one    *)
(* chain, so a header is its number.  A full synchronisation is a pivot of *)
(* 0: no block needs receipts or waits for state.                          *)
(***************************************************************************)
EXTENDS Integers, Sequences, FiniteSets, Functions

CONSTANTS
    Peers,
    Last,        \* bound: the last block number
    Pivot,       \* q.fastSyncPivot
    CacheLimit,  \* blockCacheLimit
    Verify,      \* fsHeaderForceVerify
    MaxFetch,    \* bound: the largest number of headers a peer is asked for
    Empty,       \* the parts <<k, n>> whose hash is that of an empty list
    Exact        \* float32 is exact up to this number (2^24)

Kinds == {"body", "receipt"}
Numbers == 1 .. Last
Needs == [n \in Numbers |-> IF n <= Pivot THEN Kinds ELSE {"body"}]
NoPeer == -1
NoResult == [Header |-> 0, Pending |-> 0, parts |-> {}]

ASSUME QueueAssumption ==
    /\ Last \in Nat /\ Pivot \in Nat /\ Verify \in Nat /\ MaxFetch \in Nat \ {0}
    /\ CacheLimit \in Nat \ {0}
    /\ Empty \subseteq Kinds \X Numbers
    /\ Last <= Exact

VARIABLES
    taskPool,     \* tasks not completed yet, for each kind
    taskQueue,    \* tasks waiting for a peer
    pendPool,     \* the headers each peer is asked for, in request order
    donePool,     \* completed tasks of blocks still in the cache
    lacking,      \* what each peer is known not to have
    resultCache,  \* the results by index, or NoResult
    resultOffset, \* the block number of index 0
    headerHead,   \* the last scheduled header
    stateSynced,  \* the state of the pivot block is complete
    closed,
    lock,         \* who holds q.lock
    res,          \* the local variables of reserveHeaders
    content,      \* where processContent is in WaitResults
    results,      \* what WaitResults returned last
    failed        \* errInvalidChain was returned

pools == <<taskPool, taskQueue, pendPool, donePool>>
cache == <<resultCache, resultOffset>>
vars == <<taskPool, taskQueue, pendPool, donePool, lacking, resultCache, resultOffset, headerHead,
          stateSynced, closed, lock, res, content, results, failed>>

Idle == [kind |-> "body", peer |-> NoPeer, count |-> 0, send |-> << >>, skip |-> {}, room |-> 0,
         progress |-> FALSE]

\* The queue after Reset and Prepare(offset, FastSync, Pivot, ...).
Fresh(offset) ==
    [taskPool |-> [k \in Kinds |-> {}],
     pendPool |-> [k \in Kinds |-> [p \in Peers |-> << >>]],
     resultCache |-> [i \in 0 .. CacheLimit - 1 |-> NoResult],
     lacking |-> [p \in Peers |-> {}],
     resultOffset |-> offset]

Init ==
    /\ taskPool = Fresh(1).taskPool /\ taskQueue = Fresh(1).taskPool
    /\ pendPool = Fresh(1).pendPool /\ donePool = Fresh(1).taskPool
    /\ lacking = Fresh(1).lacking
    /\ resultCache = Fresh(1).resultCache /\ resultOffset = 1
    /\ headerHead = 0
    /\ stateSynced = FALSE /\ closed = FALSE
    /\ lock = "free" /\ res = Idle
    /\ content = "check" /\ results = << >>
    /\ failed = FALSE

Index(n) == n - resultOffset
InCache(n) == Index(n) \in 0 .. CacheLimit - 1
Allocated(n) == InCache(n) /\ resultCache[Index(n)] # NoResult

\* q.active.Signal(): wakes processContent if it waits, and is lost otherwise.
Wake == IF content = "waiting" THEN "check" ELSE content
------------------------------------------------------------------------------
Schedule(n) ==
    /\ lock = "free"
    /\ headerHead + n <= Last
    /\ LET new == headerHead + 1 .. headerHead + n
           tasks(k) == {h \in new : k \in Needs[h]} IN
       /\ taskPool' = [k \in Kinds |-> taskPool[k] \cup tasks(k)]
       /\ taskQueue' = [k \in Kinds |-> taskQueue[k] \cup tasks(k)]
       /\ stateSynced' = (stateSynced /\ Pivot \notin new)
    /\ headerHead' = headerHead + n
    /\ UNCHANGED <<pendPool, donePool, lacking, cache, closed, lock, res, content, results, failed>>

InFlight(k) == {p \in Peers : pendPool[k][p] # << >>}
Requested(k) == UNION {Range(pendPool[k][p]) : p \in Peers}

\* The free space of the cache, as ShouldThrottle and reserveHeaders compute it.
Space(k) == CacheLimit - Cardinality(donePool[k]) - Cardinality(Requested(k))

ReserveStart(k, p, count) ==
    /\ lock = "free"
    /\ taskQueue[k] # {} /\ pendPool[k][p] = << >>
    /\ lock' = "reserve"
    /\ res' = [Idle EXCEPT !.kind = k, !.peer = p, !.count = count, !.room = Space(k)]
    /\ UNCHANGED <<pools, lacking, cache, headerHead, stateSynced, closed, content, results, failed>>

\* -float32(number), rounded to even above the exact range.
Priority(n) ==
    IF n <= Exact \/ n % 2 = 0 THEN -n ELSE IF n % 4 = 1 THEN -(n - 1) ELSE -(n + 1)

\* The result container of h, initialised if we're the first to request it.
Container(h) ==
    IF Allocated(h) THEN resultCache[Index(h)]
    ELSE [Header |-> h, Pending |-> IF h <= Pivot THEN 2 ELSE 1, parts |-> {}]

\* "index allocation went beyond available resultCache space"
Overrun ==
    /\ failed' = TRUE
    /\ lock' = "free" /\ res' = Idle
    /\ UNCHANGED <<taskPool, donePool, resultCache>>

\* There is nothing to fetch: the part is done.
Noop(h) ==
    /\ donePool' = [donePool EXCEPT ![res.kind] = @ \cup {h}]
    /\ taskPool' = [taskPool EXCEPT ![res.kind] = @ \ {h}]
    /\ resultCache' = [resultCache EXCEPT ![Index(h)] = [Container(h) EXCEPT !.Pending = @ - 1]]
    /\ res' = [res EXCEPT !.room = @ - 1, !.progress = TRUE]
    /\ UNCHANGED <<lock, failed>>

Collect(h) ==
    /\ resultCache' = [resultCache EXCEPT ![Index(h)] = Container(h)]
    /\ res' = IF h \in lacking[res.peer]
              THEN [res EXCEPT !.room = @ - 1, !.skip = @ \cup {h}]
              ELSE [res EXCEPT !.room = @ - 1, !.send = Append(@, h)]
    /\ UNCHANGED <<taskPool, donePool, lock, failed>>

\* One round of reserveHeaders' loop, for a queued header h of the highest priority.
Pop(h) ==
    /\ lock = "reserve" /\ res.room > 0 /\ Len(res.send) < res.count
    /\ h \in taskQueue[res.kind]
    /\ \A g \in taskQueue[res.kind] : Priority(g) <= Priority(h)
    /\ taskQueue' = [taskQueue EXCEPT ![res.kind] = @ \ {h}]
    /\ IF ~InCache(h) THEN Overrun ELSE IF <<res.kind, h>> \in Empty THEN Noop(h) ELSE Collect(h)
    /\ UNCHANGED <<pendPool, lacking, resultOffset, headerHead, stateSynced, closed, content, results>>

ReserveEnd ==
    /\ lock = "reserve"
    /\ res.room <= 0 \/ Len(res.send) >= res.count \/ taskQueue[res.kind] = {}
    /\ taskQueue' = [taskQueue EXCEPT ![res.kind] = @ \cup res.skip]
    /\ pendPool' = [pendPool EXCEPT ![res.kind][res.peer] = res.send]
    /\ content' = IF res.progress THEN Wake ELSE content
    /\ lock' = "free" /\ res' = Idle
    /\ UNCHANGED <<taskPool, donePool, lacking, cache, headerHead, stateSynced, closed, results,
                   failed>>
------------------------------------------------------------------------------
\* The answer of p holds the first a headers' data, and then some more that does
\* not belong to the next header if more.
Deliver(k, p, a, more) ==
    LET req == pendPool[k][p]
        good == {req[i] : i \in 1 .. a} IN
    /\ lock = "free"
    /\ req # << >> /\ a <= Len(req) /\ (more => a < Len(req))
    /\ \A h \in good : Allocated(h)
    /\ pendPool' = [pendPool EXCEPT ![k][p] = << >>]
    /\ lacking' = IF a = 0 /\ ~more THEN [lacking EXCEPT ![p] = @ \cup Range(req)] ELSE lacking
    /\ donePool' = [donePool EXCEPT ![k] = @ \cup good]
    /\ taskPool' = [taskPool EXCEPT ![k] = @ \ good]
    /\ taskQueue' = [taskQueue EXCEPT ![k] = @ \cup (Range(req) \ good)]
    /\ resultCache' = [i \in DOMAIN resultCache |->
           IF i + resultOffset \in good
           THEN [resultCache[i] EXCEPT !.Pending = @ - 1, !.parts = @ \cup {k}]
           ELSE resultCache[i]]
    /\ content' = IF a > 0 THEN Wake ELSE content
    /\ failed' = (more /\ ~Allocated(req[a + 1]))
    /\ UNCHANGED <<resultOffset, headerHead, stateSynced, closed, lock, res, results>>

\* Mutant: a returned request frees the peer but does not requeue its headers.
BadReturn(T) ==
    /\ UNCHANGED taskQueue
    /\ pendPool' = [k \in Kinds |-> [p \in Peers |-> IF <<k, p>> \in T THEN << >> ELSE pendPool[k][p]]]

\* The requests T come back to the queue.
Return(T) ==
    /\ taskQueue' = [k \in Kinds |->
           taskQueue[k] \cup UNION {Range(pendPool[k][p]) : p \in {p \in Peers : <<k, p>> \in T}}]
    /\ pendPool' = [k \in Kinds |-> [p \in Peers |-> IF <<k, p>> \in T THEN << >> ELSE pendPool[k][p]]]

Expire(k, S) ==
    /\ lock = "free" /\ S # {} /\ S \subseteq InFlight(k)
    /\ Return({k} \X S)
    /\ UNCHANGED <<taskPool, donePool, lacking, cache, headerHead, stateSynced, closed, lock, res,
                   content, results, failed>>

\* The peer is unregistered; one that registers again starts without a history.
Revoke(p) ==
    /\ lock = "free"
    /\ Return(Kinds \X {p})
    /\ lacking' = [lacking EXCEPT ![p] = {}]
    /\ UNCHANGED <<taskPool, donePool, cache, headerHead, stateSynced, closed, lock, res,
                   content, results, failed>>
------------------------------------------------------------------------------
\* Mutant: the state of the pivot block is not waited for.
BadReady(i) ==
    LET r == resultCache[i] IN
    /\ r # NoResult /\ r.Pending <= 0
    /\ r.Header = Pivot => i = 0 /\ \A j \in i + 1 .. i + Verify : j < CacheLimit /\ resultCache[j] # NoResult
    /\ r.Header = Pivot + 1 => i = 0

\* Deliverable at index i, given that everything before it is.  The pivot block leaves
\* alone, when its state is there and the next Verify results are allocated; the
\* block after it starts a batch of its own.
Ready(i) ==
    LET r == resultCache[i] IN
    /\ r # NoResult /\ r.Pending <= 0
    /\ r.Header = Pivot =>
           /\ i = 0 /\ stateSynced
           /\ \A j \in i + 1 .. i + Verify : j < CacheLimit /\ resultCache[j] # NoResult
    /\ r.Header = Pivot + 1 => i = 0

\* countProcessableItems() = n
Processable(n) ==
    /\ \A i \in 0 .. n - 1 : Ready(i)
    /\ n < CacheLimit => ~Ready(n)

WaitResults(n) ==
    /\ lock = "free" /\ content = "check"
    /\ Processable(n) /\ n > 0
    /\ results' = [i \in 1 .. n |-> resultCache[i - 1]]
    /\ LET gone == {results'[i].Header : i \in 1 .. n} IN
       donePool' = [k \in Kinds |-> donePool[k] \ gone]
    /\ resultCache' = [i \in DOMAIN resultCache |->
           IF i + n < CacheLimit THEN resultCache[i + n] ELSE NoResult]
    /\ resultOffset' = resultOffset + n
    /\ content' = "import"
    /\ UNCHANGED <<taskPool, taskQueue, pendPool, lacking, headerHead, stateSynced, closed, lock,
                   res, failed>>

\* Nothing to return: the caller ends if the queue is closed and goes to wait if not.
\* A signal sent without q.lock before it is on the list of waiters ("gap") is lost.
WaitResultsEmpty ==
    /\ lock = "free" /\ content = "check"
    /\ Processable(0)
    /\ IF closed THEN content' = "ended" /\ UNCHANGED lock ELSE content' = "gap" /\ lock' = "wait"
    /\ UNCHANGED <<pools, lacking, cache, headerHead, stateSynced, closed, res, results, failed>>

Wait ==
    /\ content = "gap"
    /\ content' = "waiting" /\ lock' = "free"
    /\ UNCHANGED <<pools, lacking, cache, headerHead, stateSynced, closed, res, results, failed>>

\* processContent has imported the results, or failed to.
Imported(ok) ==
    /\ content = "import"
    /\ content' = IF ok THEN "check" ELSE "ended"
    /\ results' = << >>
    /\ UNCHANGED <<pools, lacking, cache, headerHead, stateSynced, closed, lock, res, failed>>

\* The last node of the pivot state is stored (TrieSync); q.lock is not involved.
StateDone ==
    /\ headerHead >= Pivot /\ ~stateSynced
    /\ stateSynced' = TRUE
    /\ UNCHANGED <<pools, lacking, cache, headerHead, closed, lock, res, content, results, failed>>

\* The deferred Signal of deliverNodeData.
StateSignal ==
    /\ content = "waiting" /\ content' = "check"
    /\ UNCHANGED <<pools, lacking, cache, headerHead, stateSynced, closed, lock, res, results, failed>>

\* Mutant: nobody is woken.
BadClose ==
    /\ lock = "free" /\ ~closed
    /\ closed' = TRUE
    /\ UNCHANGED <<pools, lacking, cache, headerHead, stateSynced, lock, res, content, results, failed>>

Close ==
    /\ lock = "free" /\ ~closed
    /\ closed' = TRUE
    /\ content' = Wake
    /\ UNCHANGED <<pools, lacking, cache, headerHead, stateSynced, lock, res, results, failed>>

\* Mutant: the block after the origin is skipped.
BadReset(offset) ==
    /\ lock = "free" /\ closed /\ content = "ended"
    /\ Pivot > 0 => offset <= Pivot
    /\ taskPool' = Fresh(offset).taskPool /\ taskQueue' = Fresh(offset).taskPool
    /\ pendPool' = Fresh(offset).pendPool /\ donePool' = Fresh(offset).taskPool
    /\ lacking' = Fresh(offset).lacking
    /\ resultCache' = Fresh(offset).resultCache /\ resultOffset' = offset + 1
    /\ headerHead' = offset
    /\ stateSynced' = FALSE /\ closed' = FALSE /\ failed' = FALSE
    /\ content' = "check" /\ results' = << >>
    /\ UNCHANGED <<lock, res>>

\* The next cycle, once every goroutine of this one has ended.  Blocks the node has
\* imported meanwhile are not asked for again, but a pivot block and its state are.
Reset(offset) ==
    /\ lock = "free" /\ closed /\ content = "ended"
    /\ Pivot > 0 => offset <= Pivot
    /\ taskPool' = Fresh(offset).taskPool /\ taskQueue' = Fresh(offset).taskPool
    /\ pendPool' = Fresh(offset).pendPool /\ donePool' = Fresh(offset).taskPool
    /\ lacking' = Fresh(offset).lacking
    /\ resultCache' = Fresh(offset).resultCache /\ resultOffset' = offset
    /\ headerHead' = offset - 1
    /\ stateSynced' = FALSE /\ closed' = FALSE /\ failed' = FALSE
    /\ content' = "check" /\ results' = << >>
    /\ UNCHANGED <<lock, res>>

ReserveStep == ReserveEnd \/ \E h \in Numbers : Pop(h)

ContentStep ==
    \/ \E n \in 1 .. CacheLimit : WaitResults(n)
    \/ WaitResultsEmpty \/ Wait
    \/ \E ok \in BOOLEAN : Imported(ok)

Next ==
    \/ \E n \in 1 .. MaxFetch : Schedule(n)
    \/ \E k \in Kinds, p \in Peers, count \in 1 .. MaxFetch : ReserveStart(k, p, count)
    \/ ReserveStep
    \/ \E k \in Kinds, p \in Peers, a \in 0 .. MaxFetch, more \in BOOLEAN : Deliver(k, p, a, more)
    \/ \E k \in Kinds, S \in SUBSET Peers : Expire(k, S)
    \/ \E p \in Peers : Revoke(p)
    \/ ContentStep
    \/ StateDone \/ StateSignal
    \/ Close
    \/ \E offset \in 1 .. resultOffset : Reset(offset)

Spec == Init /\ [][Next]_vars
------------------------------------------------------------------------------
\* A task is in exactly one place: the queue, a peer's request, the hands of
\* reserveHeaders, or the done pool; the task pool holds those that are not done.
Places(k) ==
    <<taskQueue[k], donePool[k], IF res.kind = k THEN Range(res.send) ELSE {},
      IF res.kind = k THEN res.skip ELSE {}>>

(***************************************************************************)
(* No task is lost and none is duplicated: what is scheduled and has not   *)
(* left the cache is in exactly one place, through timeouts, dropped       *)
(* peers, partial and stale deliveries.  The cache counts what is missing: *)
(* Pending is the number of parts of the block that are not done.  And the *)
(* space computed from the pools bounds the index of every header that is  *)
(* popped: "index allocation went beyond available resultCache space"      *)
(* (queue.go:659) is never reported.                                       *)
(***************************************************************************)
TasksKept ==
    /\ \A k \in Kinds :
          LET place == Places(k) IN
          /\ {n \in resultOffset .. headerHead : k \in Needs[n]} =
                 UNION Range(place) \cup Requested(k)
          /\ \A i, j \in 1 .. 4 : i # j => place[i] \cap place[j] = {}
          /\ \A p, q \in Peers : p # q => Range(pendPool[k][p]) \cap Range(pendPool[k][q]) = {}
          /\ UNION Range(place) \cap Requested(k) = {}
          /\ taskPool[k] = (UNION Range(place) \cup Requested(k)) \ donePool[k]
    /\ \A i \in DOMAIN resultCache :
          resultCache[i] # NoResult =>
             /\ resultCache[i].Header = i + resultOffset
             /\ resultCache[i].Pending =
                    Cardinality({k \in Needs[i + resultOffset] : i + resultOffset \notin donePool[k]})
    /\ ~failed

\* Blocks leave the queue in order and complete: each result has the data of every part
\* that is not empty, and the pivot block leaves only with its state.
ResultsComplete ==
    \A i \in DOMAIN results :
        /\ results[i].Header = resultOffset - Len(results) + i - 1
        /\ \A k \in Needs[results[i].Header] :
               k \in results[i].parts \/ <<k, results[i].Header>> \in Empty
        /\ results[i].Header = Pivot => stateSynced

\* The queue implements what FetchTasks promises: the place of a task is its status.
status ==
    [t \in {t \in Kinds \X Numbers : t[1] \in Needs[t[2]]} |->
        LET k == t[1]
            n == t[2] IN
        IF n < resultOffset \/ n \in donePool[k] THEN "done"
        ELSE IF n > headerHead THEN "unknown"
        ELSE IF n \in Requested(k) \/ (res.kind = k /\ n \in Range(res.send)) THEN "fetching"
        ELSE "waiting"]

Promise == INSTANCE FetchTasks WITH Window <- CacheLimit, next <- resultOffset

\* The queue does to a task only what FetchTasks allows: it is learnt in order, worked
\* on only within the cache's window, never forgotten, and leaves with its whole block.
Implements == Promise!TaskSpec
==============================================================================
