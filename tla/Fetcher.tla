-------------------------------- MODULE Fetcher -------------------------------
(***************************************************************************)
(* eth/fetcher: announced blocks are requested after a delay, header then  *)
(* body, queued by number and imported by goroutines.  The struct's maps   *)
(* belong to the goroutine of loop and are the record f; a hash without an *)
(* entry has an empty sequence or None.  One pass of the loop is two       *)
(* steps: LoopTop, and the event that select picks.  Headers and bodies    *)
(* may arrive in any order, repeatedly, late or never.  Instants are not   *)
(* modelled: an armed timer may fire, and a request may expire, any time.  *)
(***************************************************************************)
EXTENDS BlockTree, SequencesExt

CONSTANTS
    Peers,
    Body,            \* the transactions and uncles of a block
    EmptyBody,
    Verdict,         \* validateBlock: "ok", "future" or "bad"
    Sound,           \* blocks that insertChain accepts
    Announcements,   \* bound: what peers announce, [origin, hash, number]
    Injections,      \* bound: blocks peers propagate, [origin, hash]
    HeaderBatches,   \* bound: sequences of headers that arrive together
    BodyBatches,     \* bound: sets of bodies that arrive together
    Faulty,          \* peers that may announce wrong numbers or offer bad blocks
    MaxNotify,       \* bound: number of announcements
    HashLimit, BlockLimit, MaxUncleDist, MaxQueueDist

ASSUME FetcherAssumption ==
    /\ Verdict \in [Blocks -> {"ok", "future", "bad"}]
    /\ Sound \subseteq {b \in Blocks : Verdict[b] = "ok"}
    /\ Announcements \subseteq [origin : Peers, hash : Blocks, number : Nat]
    /\ Injections \subseteq [origin : Peers, hash : Blocks]
    /\ Faulty \subseteq Peers
    /\ \A a \in Announcements : a.origin \notin Faulty => a.number = Number[a.hash] /\ Verdict[a.hash] # "bad"
    /\ \A i \in Injections : i.origin \notin Faulty => Verdict[i.hash] # "bad"

VARIABLES
    f,          \* the maps of the Fetcher, and its timers
    phase,      \* where loop is: "top", "select" or "returned"
    quit,       \* the channel is closed
    threads,    \* goroutines of insert by block, counted by their next step
    chain,      \* blocks that getBlock finds
    height,     \* chainHeight
    dropped,    \* peers given to dropPeer
    notified

vars == <<f, phase, quit, threads, chain, height, dropped, notified>>
outside == <<chain, height>>

Announce == [origin : Peers, number : Nat]
Stages == {"announced", "fetching", "fetched", "completing"}

TypeOK ==
    /\ f.announces \in [Peers -> Int]
    /\ \A s \in Stages : f[s] \in [Blocks -> Seq(Announce)]
    /\ \A h \in Blocks : Len(f.fetching[h]) <= 1 /\ Len(f.completing[h]) <= 1
    /\ f.queue \subseteq Blocks
    /\ f.queued \in [Blocks -> Peers \cup {None}]
    /\ f.queues \in [Peers -> 0 .. BlockLimit]
    /\ f.fetchTimer \in BOOLEAN /\ f.completeTimer \in BOOLEAN
    /\ phase \in {"top", "select", "returned"}
    /\ quit \in BOOLEAN
    /\ threads \in [Blocks -> [check : Nat, import : Nat, done : Nat]]
    /\ chain \subseteq Blocks /\ height \in Nat
    /\ dropped \subseteq Peers
    /\ notified \in 0 .. MaxNotify

Init ==
    /\ f = [announces |-> [p \in Peers |-> 0],
            announced |-> [h \in Blocks |-> << >>], fetching |-> [h \in Blocks |-> << >>],
            fetched |-> [h \in Blocks |-> << >>], completing |-> [h \in Blocks |-> << >>],
            queue |-> {}, queued |-> [h \in Blocks |-> None], queues |-> [p \in Peers |-> 0],
            fetchTimer |-> TRUE, completeTimer |-> TRUE]
    /\ phase = "top" /\ quit = FALSE
    /\ threads = [b \in Blocks |-> [check |-> 0, import |-> 0, done |-> 0]]
    /\ chain = {Genesis} /\ height = 0
    /\ dropped = {} /\ notified = 0
------------------------------------------------------------------------------
In(stage) == {h \in Blocks : stage[h] # << >>}

\* The entries of the hashes S that peer p originated, in all stages.
Entries(s, p, S) ==
    UNION {{e} \X {i \in DOMAIN s[e[1]][e[2]] : s[e[1]][e[2]][i].origin = p} : e \in Stages \X S}

Cleared(stage, S) == [h \in Blocks |-> IF h \in S THEN << >> ELSE stage[h]]

\* forgetHash of each of S.
ForgetHashes(s, S) ==
    [s EXCEPT !.announces = [p \in Peers |-> @[p] - Cardinality(Entries(s, p, S))],
              !.announced = Cleared(@, S), !.fetching = Cleared(@, S),
              !.fetched = Cleared(@, S), !.completing = Cleared(@, S)]

\* Mutant: the peer's count is kept.
BadForgetBlocks(s, S) == [s EXCEPT !.queued = [h \in Blocks |-> IF h \in S THEN None ELSE @[h]]]

\* forgetBlock of each of S.
ForgetBlocks(s, S) ==
    [s EXCEPT !.queued = [h \in Blocks |-> IF h \in S THEN None ELSE @[h]],
              !.queues = [p \in Peers |-> @[p] - Cardinality({h \in S : s.queued[h] = p})]]

Distant(n) == n - height < -MaxUncleDist \/ n - height > MaxQueueDist

Enqueue(s, peer, h) ==
    IF s.queues[peer] + 1 > BlockLimit \/ Distant(Number[h]) THEN ForgetHashes(s, {h})
    ELSE IF s.queued[h] # None THEN s
    ELSE [s EXCEPT !.queue = @ \cup {h}, !.queued[h] = peer, !.queues[peer] = @ + 1]
------------------------------------------------------------------------------
\* Expired requests are forgotten, and every queued block that may fit is started.
LoopTop ==
    /\ phase = "top" /\ phase' = "select"
    /\ \E expired \in SUBSET In(f.fetching) :
          LET ready == {h \in f.queue : Number[h] <= height + 1}
              stale == {h \in ready : Number[h] + MaxUncleDist < height \/ h \in chain}
          IN  /\ f' = ForgetBlocks([ForgetHashes(f, expired) EXCEPT !.queue = @ \ ready], stale)
              /\ threads' = [b \in Blocks |-> IF b \in ready \ stale
                                              THEN [threads[b] EXCEPT !.check = @ + 1] ELSE threads[b]]
    /\ UNCHANGED <<quit, outside, dropped, notified>>

\* An event was received; after it the loop starts over.
Event(g) ==
    /\ phase = "select" /\ phase' = "top"
    /\ f' = g
    /\ UNCHANGED <<quit, outside>>

Useful(a) ==
    /\ f.announces[a.origin] + 1 <= HashLimit
    /\ a.number > 0 => ~Distant(a.number)
    /\ f.fetching[a.hash] = << >> /\ f.completing[a.hash] = << >>

Notify(a) ==
    /\ notified < MaxNotify /\ notified' = notified + 1
    /\ Event(IF ~Useful(a) THEN f
             ELSE [f EXCEPT !.announces[a.origin] = @ + 1,
                            !.announced[a.hash] = Append(@, [origin |-> a.origin, number |-> a.number]),
                            !.fetchTimer = @ \/ In(f.announced) \subseteq {a.hash}])
    /\ UNCHANGED <<threads, dropped>>

Inject(i) ==
    /\ Event(Enqueue(f, i.origin, i.hash))
    /\ UNCHANGED <<threads, dropped, notified>>

Done(b) ==
    /\ threads[b].done > 0
    /\ Event(ForgetBlocks(ForgetHashes(f, {b}), {b}))
    /\ threads' = [threads EXCEPT ![b].done = @ - 1]
    /\ UNCHANGED <<dropped, notified>>

\* Mutant: the announcement of another hash is kept.
BadPicks(stage, S) == [S -> UNION {Range(stage[h]) : h \in Blocks}]

\* The announcements of which one is picked at random for each of S.
Picks(stage, S) ==
    {pick \in [S -> UNION {Range(stage[h]) : h \in S}] : \A h \in S : pick[h] \in Range(stage[h])}

\* Mutant: the timer is not set again for what was not yet due.
BadRescheduleFetch(s) == FALSE

RescheduleFetch(s) == In(s.announced) # {}

\* The announcements due are requested; another fetch is scheduled for the others.
FetchTimer(due) ==
    LET s == ForgetHashes(f, due)
    IN  /\ f.fetchTimer
        /\ \E pick \in Picks(f.announced, due) :
              Event([s EXCEPT !.fetching = [h \in Blocks |-> IF h \in due \ chain THEN <<pick[h]>> ELSE @[h]],
                              !.fetchTimer = RescheduleFetch(s)])
        /\ UNCHANGED <<threads, dropped, notified>>

\* The bodies of all fetched headers are requested.
CompleteTimer ==
    LET all == In(f.fetched)
        s == ForgetHashes(f, all)
    IN  /\ f.completeTimer
        /\ \E pick \in Picks(f.fetched, all) :
              Event([s EXCEPT !.completing = [h \in Blocks |-> IF h \in all \ chain THEN <<pick[h]>> ELSE @[h]],
                              !.completeTimer = FALSE])
        /\ UNCHANGED <<threads, dropped, notified>>
------------------------------------------------------------------------------
Requested(s, h) ==
    s.fetching[h] # << >> /\ s.fetched[h] = << >> /\ s.completing[h] = << >> /\ s.queued[h] = None

\* One round over the headers; w is the fetcher and the lists under construction.
FilterHeader(w, h) ==
    IF ~Requested(w.s, h) THEN w
    ELSE LET a == w.s.fetching[h][1]
         IN  IF a.number # Number[h]
             THEN [w EXCEPT !.s = ForgetHashes(@, {h}), !.blamed = @ \cup {a.origin}]
             ELSE IF h \in chain THEN [w EXCEPT !.s = ForgetHashes(@, {h})]
             ELSE IF Body[h] = EmptyBody
             THEN [w EXCEPT !.s.completing[h] = <<a>>, !.complete = Append(@, h)]
             ELSE [w EXCEPT !.incomplete = Append(@, [hash |-> h, announce |-> a])]

Gather(s, e) ==
    IF s.completing[e.hash] # << >> THEN s
    ELSE [s EXCEPT !.fetched[e.hash] = Append(@, e.announce),
                   !.completeTimer = @ \/ In(s.fetched) \subseteq {e.hash}]

EnqueueCompleted(s, h) == IF s.completing[h] = << >> THEN s ELSE Enqueue(s, s.completing[h][1].origin, h)

HeaderFilter(headers) ==
    LET w == FoldLeft(FilterHeader, [s |-> f, blamed |-> {}, incomplete |-> << >>, complete |-> << >>], headers)
    IN  /\ Event(FoldLeft(EnqueueCompleted, FoldLeft(Gather, w.s, w.incomplete), w.complete))
        /\ dropped' = dropped \cup w.blamed
        /\ UNCHANGED <<threads, notified>>

\* A body completes every block it fits; map iteration decides the order.
BodyFilter(bodies) ==
    LET matched == {h \in In(f.completing) : f.queued[h] = None /\ Body[h] \in bodies}
        s == ForgetHashes(f, matched \cap chain)
    IN  /\ \E blocks \in SetToSeqs(matched \ chain) : Event(FoldLeft(EnqueueCompleted, s, blocks))
        /\ UNCHANGED <<threads, dropped, notified>>
------------------------------------------------------------------------------
\* The goroutine of insert looks at the parent and validates the header.
CheckBlock(b) ==
    /\ threads[b].check > 0
    /\ LET known == Parent[b] \in chain
           next == IF known /\ Verdict[b] # "bad" THEN "import" ELSE "done"
       IN  /\ threads' = [threads EXCEPT ![b].check = @ - 1, ![b][next] = @ + 1]
           /\ dropped' = dropped \cup (IF known /\ Verdict[b] = "bad" THEN {f.queued[b]} \ {None} ELSE {})
    /\ UNCHANGED <<f, phase, quit, outside, notified>>

\* The chain stores a block; the fork choice decides whether it is the new head.
Store(b) ==
    /\ chain' = chain \cup {b}
    /\ height' \in {height, Number[b]}

\* Mutant: a block that was stored meanwhile is waited for.
BadImportBlock(b) ==
    /\ threads[b].import > 0 /\ b \in Sound \ chain
    /\ threads' = [threads EXCEPT ![b].import = @ - 1, ![b].done = @ + 1]
    /\ Store(b)
    /\ UNCHANGED <<f, phase, quit, dropped, notified>>

ImportBlock(b) ==
    /\ threads[b].import > 0
    /\ threads' = [threads EXCEPT ![b].import = @ - 1, ![b].done = @ + 1]
    /\ IF b \in Sound \ chain THEN Store(b) ELSE UNCHANGED outside
    /\ UNCHANGED <<f, phase, quit, dropped, notified>>

\* The downloader or the miner adds a block.
OtherImport(b) ==
    /\ b \in Sound \ chain /\ Parent[b] \in chain
    /\ Store(b)
    /\ UNCHANGED <<f, phase, quit, threads, dropped, notified>>

Stop ==
    /\ ~quit /\ quit' = TRUE
    /\ UNCHANGED <<f, phase, threads, outside, dropped, notified>>

LoopReturns ==
    /\ quit /\ phase = "select" /\ phase' = "returned"
    /\ UNCHANGED <<f, quit, threads, outside, dropped, notified>>

Loop ==
    \/ LoopTop
    \/ \E a \in Announcements : Notify(a)
    \/ \E i \in Injections : Inject(i)
    \/ \E b \in Blocks : Done(b)
    \/ \E due \in SUBSET In(f.announced) : FetchTimer(due)
    \/ CompleteTimer
    \/ \E headers \in HeaderBatches : HeaderFilter(headers)
    \/ \E bodies \in BodyBatches : BodyFilter(bodies)
    \/ LoopReturns

Next ==
    \/ Loop
    \/ \E b \in Blocks : CheckBlock(b) \/ ImportBlock(b) \/ OtherImport(b)
    \/ Stop

Spec == Init /\ [][Next]_vars

\* The loop goes on; its timers fire, and select takes every event in the end;
\* goroutines make progress.  Nothing is assumed of the peers.
Fairness ==
    /\ WF_vars(LoopTop) /\ WF_vars(LoopReturns)
    /\ \A h \in Blocks : SF_vars(\E due \in SUBSET In(f.announced) : h \in due /\ FetchTimer(due))
    /\ SF_vars(CompleteTimer)
    /\ \A b \in Blocks : WF_vars(CheckBlock(b)) /\ WF_vars(ImportBlock(b)) /\ SF_vars(Done(b))

\* The fetcher is not stopped.
RunSpec == Init /\ [][Next /\ ~Stop]_vars /\ Fairness
------------------------------------------------------------------------------
Running(b) == threads[b].check + threads[b].import + threads[b].done

\* queued, which keeps a block from being scheduled twice, holds exactly the blocks that
\* wait in the queue or are being imported, and none is imported by two goroutines.  The
\* "per peer block counts" (fetcher.go:129), which bound what a peer may have queued,
\* agree with it.
QueuedExact ==
    /\ \A b \in Blocks : /\ f.queued[b] # None <=> (b \in f.queue \/ Running(b) > 0)
                         /\ b \in f.queue => Running(b) = 0
                         /\ Running(b) <= 1
    /\ \A p \in Peers : f.queues[p] = Cardinality({b \in Blocks : f.queued[b] = p})

\* An announced hash is not being fetched or completed, and a fetched header keeps
\* its entry in fetching, so that new announcements of it are ignored throughout.
OneStage ==
    /\ In(f.announced) \cap (In(f.fetching) \cup In(f.completing)) = {}
    /\ In(f.fetched) \subseteq In(f.fetching)
    /\ In(f.fetched) \cap In(f.completing) = {}

\* The timers are only set when a map gets its first entry and when they fire:
\* they are never left unset with an entry waiting.
TimersArmed ==
    /\ In(f.announced) # {} => f.fetchTimer
    /\ In(f.fetched) # {} => f.completeTimer

\* The bookkeeping of the loop, whatever arrives late, twice or never.
StagesExact == TypeOK /\ QueuedExact /\ OneStage /\ TimersArmed

\* dropPeer (fetcher.go:466, 680) is called only for peers that announced a wrong number
\* or offered a bad block, whoever delivered the header or the body.
HonestKept == dropped \subseteq Faulty

\* An announcement is fetched or forgotten once its time has come.
AnnouncementsServed == \A h \in Blocks : f.announced[h] # << >> ~> f.announced[h] = << >>

\* Every import that was started is reported back, and the block can be queued again.
ImportsEnd == \A b \in Blocks : Running(b) > 0 ~> Running(b) = 0
==============================================================================
