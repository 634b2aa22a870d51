----------------------------- MODULE FetchParts ------------------------------
(***************************************************************************)
(* One synchronisation cycle: spawnSync with processHeaders, the state     *)
(* fetcher, a fetchParts loop for each kind, and processContent, over the  *)
(* shared DownloadQueue.  Answers are short, late or lost; peers time out  *)
(* and leave; an error of one goroutine cancels the others.  A loop takes  *)
(* one event of its select at a time; a round of requests is several       *)
(* steps, in which the other goroutines interleave.  The wake-ups of       *)
(* wakeCh do what the ticker does; its last one is headers = "ok".         *)
(***************************************************************************)
EXTENDS DownloadQueue

CONSTANTS
    Master,     \* d.cancelPeer: without it the cycle is cancelled
    MinFetch,   \* the least number of headers a peer is asked for
    Forgiven,   \* a peer that times out on more than so many headers is kept (2)
    Batches,    \* the numbers of headers that arrive at once
    MaxQueued,  \* maxQueuedHeaders
    MaxFaults   \* bound: timeouts, lost and empty answers, lost peers and errors

ASSUME FetchAssumption ==
    /\ Master \in Peers /\ MinFetch \in 1 .. MaxFetch
    /\ Batches \subseteq Nat \ {0}
    /\ Forgiven \in Nat /\ MaxQueued \in Nat \ {0} /\ MaxFaults \in Nat
    /\ Pivot > 0 =>
          /\ Pivot + Verify <= Last      \* fsMinFullBlocks > fsHeaderForceVerify
          /\ Last - Pivot < CacheLimit   \* the cache holds the pivot and all that follows

VARIABLES
    peers,     \* the registered peers
    busy,      \* the peers whose blockIdle or receiptIdle flag is set
    sent,      \* requests on their way, or their answers
    fetcher,   \* where each fetcher is
    round,     \* the local variables of fetchParts while it assigns requests
    headers,   \* where processHeaders is
    importErr, \* processContent failed to import
    cancelled, \* cancelCh is closed
    faults     \* faults left

control == <<headers, importErr, cancelled>>
allVars == <<vars, peers, busy, sent, fetcher, round, control, faults>>

NoRound == [idles |-> {}, progressed |-> FALSE, throttled |-> FALSE, running |-> FALSE, all |-> FALSE]

FetchInit ==
    /\ Init
    /\ peers = Peers
    /\ busy = [k \in Kinds |-> {}]
    /\ sent = {}
    /\ fetcher = [k \in Kinds \cup {"state"} |-> "select"]
    /\ round = [k \in Kinds |-> NoRound]
    /\ headers = "schedule"
    /\ importErr = FALSE /\ cancelled = FALSE
    /\ faults = MaxFaults

Fault == faults > 0 /\ faults' = faults - 1
------------------------------------------------------------------------------
\* The request or its answer is lost.
Lose(q) ==
    /\ Fault
    /\ sent' = sent \ {q}
    /\ UNCHANGED <<vars, peers, busy, fetcher, round, control>>

\* UnregisterPeer, but for Revoke.
Unregister(S) ==
    /\ peers' = peers \ S
    /\ cancelled' = (cancelled \/ Master \in S)

Leave(p) ==
    /\ Fault
    /\ p \in peers
    /\ Unregister({p})
    /\ Revoke(p)
    /\ UNCHANGED <<busy, sent, fetcher, round, headers, importErr>>
------------------------------------------------------------------------------
\* processHeaders

Insert(n) ==
    /\ headers = "schedule" /\ ~cancelled
    /\ \A k \in Kinds : Cardinality(taskQueue[k]) < MaxQueued
    /\ Schedule(n)
    /\ UNCHANGED <<peers, busy, sent, fetcher, round, control, faults>>

\* Every fetcher is told that there are no more headers.  The channel of one that has
\* ended may be full, and then only the cancellation lets processHeaders go on.
InsertedAll ==
    /\ headers = "schedule" /\ headerHead = Last
    /\ cancelled \/ \A k \in DOMAIN fetcher : fetcher[k] # "err"
    /\ headers' = "ok"
    /\ UNCHANGED <<vars, peers, busy, sent, fetcher, round, importErr, cancelled, faults>>

\* Cancelled, or the headers are bad or too few.
HeadersFail ==
    /\ headers = "schedule"
    /\ \/ cancelled /\ UNCHANGED faults
       \/ Fault
    /\ headers' = "err"
    /\ UNCHANGED <<vars, peers, busy, sent, fetcher, round, importErr, cancelled>>
------------------------------------------------------------------------------
\* fetchParts

\* errCancel, or errNoPeers.
FetchFails(k) ==
    /\ fetcher[k] = "select"
    /\ cancelled \/ peers = {}
    /\ fetcher' = [fetcher EXCEPT ![k] = "err"]
    /\ UNCHANGED <<vars, peers, busy, sent, round, control, faults>>

\* How many items of the answer m belong to the request req, from the first on.
Matching(m, req) ==
    LET fits(i) == i \in DOMAIN m \cap DOMAIN req /\ m[i] = req[i] IN
    CHOOSE a \in 0 .. Len(m) : ~fits(a + 1) /\ \A i \in 1 .. a : fits(i)

\* The answer to q has the first items of what was asked for (none is a fault).  If none
\* of it belongs to the request the peer has now, that request is gone and the peer
\* stays busy.
Receive(k, q, items) ==
    LET p == q.peer
        req == pendPool[k][p]
        a == Matching(SubSeq(q.req, 1, items), req)
        more == a < items /\ a < Len(req)
        stale == a = 0 /\ more IN
    /\ fetcher[k] = "select" /\ q.kind = k /\ lock = "free"
    /\ items <= Len(q.req)
    /\ sent' = sent \ {q}
    /\ IF p \in peers /\ req # << >> THEN Deliver(k, p, a, more) ELSE UNCHANGED vars
    /\ busy' = IF p \in peers /\ ~stale THEN [busy EXCEPT ![k] = @ \ {p}] ELSE busy
    /\ fetcher' = IF failed' THEN [fetcher EXCEPT ![k] = "err"] ELSE fetcher
    /\ IF items = 0 THEN Fault ELSE UNCHANGED faults
    /\ UNCHANGED <<peers, round, control>>

\* Requests out time out and come back; their peers are set idle or dropped.
Timeouts(k, out) ==
    LET drop == {p \in out \cap peers : Len(pendPool[k][p]) <= Forgiven} IN
    /\ Return(({k} \X out) \cup (Kinds \X drop))
    /\ busy' = [busy EXCEPT ![k] = @ \ (out \ drop)]
    /\ Unregister(drop)
    /\ lacking' = [p \in Peers |-> IF p \in drop THEN {} ELSE lacking[p]]
    /\ UNCHANGED <<taskPool, donePool, cache, headerHead, stateSynced, closed, lock, res, content,
                   results, failed>>

\* The peers whose answer will never come.
Silent(k) ==
    {p \in InFlight(k) : ~\E q \in sent : q.kind = k /\ q.peer = p /\ q.req = pendPool[k][p]}

\* Mutant: a loop ends when nothing is queued, although requests are in flight.
BadUpdate(k, slow) ==
    /\ fetcher[k] = "select" /\ lock = "free" /\ peers # {}
    /\ slow \subseteq InFlight(k)
    /\ IF slow = {} THEN UNCHANGED faults ELSE Fault
    /\ Timeouts(k, Silent(k) \cup slow)
    /\ LET idles == peers' \ busy'[k] IN
       IF taskQueue'[k] = {}
       THEN /\ fetcher' = IF headers # "ok" THEN fetcher ELSE [fetcher EXCEPT ![k] = "ok"]
            /\ UNCHANGED round
       ELSE /\ fetcher' = [fetcher EXCEPT ![k] = "assign"]
            /\ round' = [round EXCEPT ![k] = [NoRound EXCEPT !.idles = idles, !.all = (idles = peers')]]
    /\ UNCHANGED <<sent, headers, importErr>>

\* The head of the update case, up to the list of idle peers.  An answer that is only
\* late is a fault.
Update(k, slow) ==
    /\ fetcher[k] = "select" /\ lock = "free" /\ peers # {}
    /\ slow \subseteq InFlight(k)
    /\ IF slow = {} THEN UNCHANGED faults ELSE Fault
    /\ Timeouts(k, Silent(k) \cup slow)
    /\ LET running == \E p \in Peers : pendPool'[k][p] # << >>
           idles == peers' \ busy'[k] IN
       IF taskQueue'[k] = {}
       THEN /\ fetcher' = IF running \/ headers # "ok" THEN fetcher ELSE [fetcher EXCEPT ![k] = "ok"]
            /\ UNCHANGED round
       ELSE /\ fetcher' = [fetcher EXCEPT ![k] = "assign"]
            /\ round' = [round EXCEPT ![k] = [NoRound EXCEPT !.idles = idles, !.running = running,
                                                            !.all = (idles = peers')]]
    /\ UNCHANGED <<sent, headers, importErr>>

\* The next idle peer, unless the cache is full.
Assign(k, p, count) ==
    /\ fetcher[k] = "assign" /\ lock = "free"
    /\ p \in round[k].idles /\ ~round[k].throttled
    /\ IF Space(k) <= 0
       THEN round' = [round EXCEPT ![k].throttled = TRUE] /\ UNCHANGED vars
       ELSE /\ round' = [round EXCEPT ![k].idles = @ \ {p}]
            /\ IF taskQueue[k] = {} \/ pendPool[k][p] # << >> THEN UNCHANGED vars
               ELSE ReserveStart(k, p, count)
    /\ UNCHANGED <<peers, busy, sent, fetcher, control, faults>>

Reserve(h) ==
    /\ Pop(h)
    /\ UNCHANGED <<peers, busy, sent, fetcher, round, control, faults>>

\* Mutant: the peer's flag is not set.
BadFetch ==
    LET k == res.kind IN
    /\ ReserveEnd
    /\ round' = [round EXCEPT ![k].progressed = @ \/ res.progress,
                              ![k].running = @ \/ res.send # << >>]
    /\ sent' = IF res.send = << >> THEN sent
               ELSE sent \cup {[kind |-> k, peer |-> res.peer, req |-> res.send, age |-> faults]}
    /\ UNCHANGED <<peers, busy, fetcher, control, faults>>

\* The request, if any, is sent, which marks the peer as busy; two at a time panic.
Fetch ==
    LET k == res.kind
        p == res.peer IN
    /\ ReserveEnd
    /\ round' = [round EXCEPT ![k].progressed = @ \/ res.progress,
                              ![k].running = @ \/ res.send # << >>]
    /\ IF res.send = << >> THEN UNCHANGED <<sent, busy, fetcher>>
       ELSE IF p \in busy[k]
       THEN fetcher' = [fetcher EXCEPT ![k] = "panic"] /\ UNCHANGED <<sent, busy>>
       ELSE /\ sent' = sent \cup {[kind |-> k, peer |-> p, req |-> res.send, age |-> faults]}
            /\ busy' = [busy EXCEPT ![k] = @ \cup {p}]
            /\ UNCHANGED fetcher
    /\ UNCHANGED <<peers, control, faults>>

\* errPeersUnavailable if nobody could be asked.
RoundEnd(k) ==
    /\ fetcher[k] = "assign" /\ lock = "free"
    /\ round[k].idles = {} \/ round[k].throttled
    /\ LET r == round[k]
           unavailable == ~r.progressed /\ ~r.throttled /\ ~r.running /\ r.all /\ taskQueue[k] # {} IN
       fetcher' = [fetcher EXCEPT ![k] = IF unavailable \/ failed THEN "err" ELSE "select"]
    /\ round' = [round EXCEPT ![k] = NoRound]
    /\ UNCHANGED <<vars, peers, busy, sent, control, faults>>
------------------------------------------------------------------------------
\* The state of the pivot block, retrieved by TrieSync: the last node is stored, the
\* signal to WaitResults follows, and the loop ends when it knows of all headers.

StateStored ==
    /\ fetcher["state"] = "select" /\ peers # {} /\ Pivot > 0
    /\ StateDone
    /\ fetcher' = [fetcher EXCEPT !["state"] = "stored"]
    /\ UNCHANGED <<peers, busy, sent, round, control, faults>>

StateWake ==
    /\ fetcher["state"] = "stored"
    /\ content' = Wake
    /\ fetcher' = [fetcher EXCEPT !["state"] = "select"]
    /\ UNCHANGED <<pools, lacking, cache, headerHead, stateSynced, closed, lock, res, results, failed>>
    /\ UNCHANGED <<peers, busy, sent, round, control, faults>>

StateEnd ==
    /\ fetcher["state"] = "select" /\ headers = "ok"
    /\ stateSynced \/ Pivot = 0
    /\ fetcher' = [fetcher EXCEPT !["state"] = "ok"]
    /\ UNCHANGED <<vars, peers, busy, sent, round, control, faults>>
------------------------------------------------------------------------------
\* processContent and spawnSync

Process ==
    /\ \/ \E n \in 1 .. CacheLimit : WaitResults(n)
       \/ WaitResultsEmpty
       \/ Wait
    /\ UNCHANGED <<peers, busy, sent, fetcher, round, control, faults>>

Import(ok) ==
    /\ Imported(ok)
    /\ IF ok THEN UNCHANGED <<faults, importErr>> ELSE Fault /\ importErr' = TRUE
    /\ UNCHANGED <<peers, busy, sent, fetcher, round, headers, cancelled>>

Errors == importErr \/ headers = "err" \/ \E k \in DOMAIN fetcher : fetcher[k] = "err"
FetchersOk == headers = "ok" /\ \A k \in DOMAIN fetcher : fetcher[k] = "ok"

\* All fetchers are done, or the first error is in.
CloseQueue ==
    /\ Errors \/ FetchersOk
    /\ Close
    /\ UNCHANGED <<peers, busy, sent, fetcher, round, control, faults>>

Cancel ==
    /\ closed /\ ~cancelled
    /\ Errors \/ content = "ended"
    /\ cancelled' = TRUE
    /\ UNCHANGED <<vars, peers, busy, sent, fetcher, round, headers, importErr, faults>>

Loop(k) ==
    \/ \E q \in sent, items \in 0 .. MaxFetch : Receive(k, q, items)
    \/ \E slow \in SUBSET Peers : Update(k, slow)
    \/ \E p \in Peers, count \in MinFetch .. MaxFetch : Assign(k, p, count)
    \/ RoundEnd(k)

FetchNext ==
    \/ \E q \in sent : Lose(q)
    \/ \E p \in Peers : Leave(p)
    \/ \E n \in Batches : Insert(n)
    \/ InsertedAll \/ HeadersFail
    \/ \E k \in DOMAIN fetcher : FetchFails(k)
    \/ \E k \in Kinds : Loop(k)
    \/ \E h \in Numbers : Reserve(h)
    \/ Fetch
    \/ StateStored \/ StateWake \/ StateEnd
    \/ Process
    \/ \E ok \in BOOLEAN : Import(ok)
    \/ CloseQueue \/ Cancel

\* Every goroutine runs.  A select that is entered again and again takes each of its
\* cases at some time; a request that is not lost is answered.
Fairness ==
    /\ \A k \in Kinds :
          /\ SF_allVars(FetchFails(k) \/ \E q \in sent, items \in 0 .. MaxFetch : Receive(k, q, items))
          /\ WF_allVars(Update(k, {}))
          /\ WF_allVars(RoundEnd(k) \/ \E p \in Peers, count \in MinFetch .. MaxFetch : Assign(k, p, count))
    /\ WF_allVars(Fetch \/ \E h \in Numbers : Reserve(h))
    /\ WF_allVars(FetchFails("state") \/ StateStored \/ StateWake \/ StateEnd)
    /\ WF_allVars(InsertedAll \/ \E n \in Batches : Insert(n))
    /\ WF_allVars(HeadersFail /\ cancelled)
    /\ WF_allVars(Process \/ Import(TRUE))
    /\ WF_allVars(CloseQueue \/ Cancel)

FetchSpec == FetchInit /\ [][FetchNext]_allVars
FairFetchSpec == FetchSpec /\ Fairness
------------------------------------------------------------------------------
Ended == content = "ended" /\ headers # "schedule" /\ \A k \in DOMAIN fetcher : fetcher[k] \in {"ok", "err"}

\* spawnSync returns: whatever is lost, late, short or wrong, no goroutine of the cycle
\* waits for another one for ever (wg.Wait, wakeCh, q.active and the select loops).  It
\* takes three faults to break it: a stale delivery, the loss of the answer that would have
\* set the peer idle (StaleIdled), and no other peer.
SyncEnds == <>Ended

\* A request is given to a registered peer only if its flag says that it is idle, and the
\* flag stays set while the queue counts on the peer: fetchParts never panics with "fetch
\* assignment failed", and a busy peer is not asked again before it answers or times out.
AssignedOnce ==
    \A k \in Kinds : fetcher[k] # "panic" /\ InFlight(k) \cap peers \subseteq busy[k]

\* A cycle that ends without an error has handed every scheduled block to the chain: the
\* fetchers do not end early, and processContent does not miss a last batch when the
\* queue is closed or a wake-up is lost.
SuccessComplete == Ended /\ ~Errors => resultOffset = Last + 1

\* "If the delivery's stale, the peer should have already been idled" (downloader.go:1041):
\* a peer marked as busy has a request whose answer or timeout will set it idle.
StaleIdled == \A k \in Kinds : busy[k] \cap peers \subseteq InFlight(k)
==============================================================================
