----------------------------- MODULE StateFetch ------------------------------
(***************************************************************************)
(* The download of the state in a fast sync: the state part of             *)
(* eth/downloader's queue over TrieSync, through cycles that are cancelled *)
(* and begun again, a crash of the node, and the switch from the head's    *)
(* state to the pivot's.  A delivery is processed by a goroutine of its    *)
(* own, item by item, which may outlive the cycle and its scheduler.       *)
(* The order of the priority queues is left open, and so is which part of  *)
(* a request an answer has.                                                *)
(***************************************************************************)
EXTENDS TrieSync, Sequences, SequencesExt

CONSTANTS
    Peers,
    HeadRoot, PivotRoot,  \* the state roots of the head and of the pivot block
    Count,        \* the capacity of a peer
    MaxInFlight,  \* maxInFlightStates
    MaxScheds,    \* bound on the schedulers that are created
    MaxFaults     \* bound on cancellations, crashes, timeouts and short answers

VARIABLES
    db,       \* the state database
    sched,    \* stateScheduler
    gen,      \* how many schedulers there have been
    tasks,    \* stateTaskQueue
    asked,    \* the peers with a request in statePendPool
    pend,     \* the hashes of these requests
    lacking,  \* what a peer is known not to have
    procs,    \* the goroutines of deliverNodeData and the results they have left
    phase,    \* of the cycle: "idle", "boundaries", "head", "pivot" or "done"
    lost,     \* history: results dropped with an item that was not requested
    faults

queueVars == <<tasks, asked, pend, lacking>>
vars == <<db, sched, gen, queueVars, procs, phase, lost, faults>>


Init ==
    /\ db = {} /\ sched = NoSync /\ gen = 0
    /\ tasks = {} /\ asked = {} /\ pend = [p \in Peers |-> {}] /\ lacking = [p \in Peers |-> {}]
    /\ procs = {} /\ phase = "idle" /\ lost = {}
    /\ faults = MaxFaults

Fetching == phase \in {"head", "pivot"}
Fault == faults > 0 /\ faults' = faults - 1
------------------------------------------------------------------------------
\* synchronise: the queue and the peers are reset.
Synchronise ==
    /\ phase = "idle" /\ gen < MaxScheds
    /\ tasks' = {} /\ asked' = {} /\ pend' = [p \in Peers |-> {}] /\ lacking' = [p \in Peers |-> {}]
    /\ sched' = NoSync /\ lost' = {}
    /\ phase' = "boundaries"
    /\ UNCHANGED <<db, gen, procs, faults>>

\* The boundaries are known: the state of the head is retrieved until the pivot comes up.
Prepare ==
    /\ phase = "boundaries"
    /\ sched' = NewTrieSync(HeadRoot, db) /\ gen' = gen + 1
    /\ phase' = "head"
    /\ UNCHANGED <<db, queueVars, procs, lost, faults>>

\* Mutant: a scheduler that has nothing left to do is kept.
BadSwitch ==
    /\ phase = "head"
    /\ tasks' = {} /\ pend' = [p \in Peers |-> {}]
    /\ sched' = IF Pending(sched) = {} THEN [sched EXCEPT !.root = PivotRoot] ELSE NewTrieSync(PivotRoot, db)
    /\ gen' = gen + 1 /\ lost' = {}
    /\ phase' = "pivot"
    /\ UNCHANGED <<db, asked, lacking, procs, faults>>

\* Schedule, when it meets the pivot: requests on their way are emptied but kept.
Switch ==
    /\ phase = "head"
    /\ tasks' = {} /\ pend' = [p \in Peers |-> {}]
    /\ sched' = NewTrieSync(PivotRoot, db) /\ gen' = gen + 1 /\ lost' = {}
    /\ phase' = "pivot"
    /\ UNCHANGED <<db, asked, lacking, procs, faults>>
------------------------------------------------------------------------------
\* How many more hashes may be in flight; zero is then taken for no limit.
Allowance == MaxInFlight - MapThenSumSet(LAMBDA p : Cardinality(pend[p]), Peers)

\* ReserveNodeData: the queue is filled up from the scheduler, and of the hashes that are
\* popped those that the peer lacks go back.
Reserve(p) ==
    LET fill == IF Cardinality(tasks) < Allowance
                THEN Missing(sched, Allowance - Cardinality(tasks)) ELSE {{}} IN
    /\ Fetching /\ p \notin asked /\ Pending(sched) # {}
    /\ \E new \in fill : \E popped \in SUBSET (tasks \cup new) :
        LET send == popped \ lacking[p] IN
        /\ Allowance # 0 => Cardinality(popped) <= Max({Allowance, 0})
        /\ Cardinality(send) <= Count
        /\ \/ popped = tasks \cup new
           \/ Cardinality(send) = Count
           \/ Allowance # 0 /\ Cardinality(popped) = Max({Allowance, 0})
        /\ sched' = [sched EXCEPT !.queue = @ \ new]
        /\ tasks' = (tasks \cup new) \ send
        /\ IF send = {} THEN UNCHANGED <<asked, pend>>
           ELSE asked' = asked \cup {p} /\ pend' = [pend EXCEPT ![p] = send]
    /\ UNCHANGED <<db, gen, lacking, procs, phase, lost, faults>>

\* Mutant: hashes without an answer are forgotten.
BadDeliver(p, items, data) ==
    /\ Fetching /\ p \in asked
    /\ asked' = asked \ {p} /\ pend' = [pend EXCEPT ![p] = {}]
    /\ procs' = IF items = << >> THEN procs ELSE procs \cup {[gen |-> gen, items |-> items]}
    /\ lacking' = IF data THEN lacking ELSE [lacking EXCEPT ![p] = @ \cup pend[p]]
    /\ IF Len(items) < Cardinality(pend[p]) THEN Fault ELSE UNCHANGED faults
    /\ UNCHANGED <<db, sched, gen, tasks, phase, lost>>

\* DeliverNodeData: items are what was asked for, the rest of the request returns to the
\* queue.  Without any data the peer is marked as lacking all of it.
Deliver(p, items, data) ==
    /\ Fetching /\ p \in asked
    /\ asked' = asked \ {p} /\ pend' = [pend EXCEPT ![p] = {}]
    /\ tasks' = tasks \cup (pend[p] \ ToSet(items))
    /\ procs' = IF items = << >> THEN procs ELSE procs \cup {[gen |-> gen, items |-> items]}
    /\ lacking' = IF data THEN lacking ELSE [lacking EXCEPT ![p] = @ \cup pend[p]]
    /\ IF Len(items) < Cardinality(pend[p]) THEN Fault ELSE UNCHANGED faults
    /\ UNCHANGED <<db, sched, gen, phase, lost>>

\* ExpireNodeData, CancelNodeData and Revoke.
Return(p) ==
    /\ Fault
    /\ p \in asked
    /\ tasks' = tasks \cup pend[p]
    /\ asked' = asked \ {p} /\ pend' = [pend EXCEPT ![p] = {}]
    /\ UNCHANGED <<db, sched, gen, lacking, procs, phase, lost>>

\* deliverNodeData, one item under the lock.  Without a scheduler the goroutine cancels
\* the cycle there is; an item that is not requested ends it with all its results.
ProcessItem(proc) ==
    LET h == Head(proc.items)
        rest == IF Len(proc.items) = 1 THEN {} ELSE {[proc EXCEPT !.items = Tail(@)]}
        st == Process([db |-> db, sync |-> sched], h) IN
    /\ IF sched = NoSync
       THEN /\ procs' = procs \ {proc}
            /\ phase' = IF phase = "done" THEN phase ELSE "idle"
            /\ UNCHANGED <<db, sched, lost>>
       ELSE IF h \notin Pending(sched)
       THEN /\ procs' = procs \ {proc}
            /\ lost' = lost \cup ToSet(proc.items)
            /\ UNCHANGED <<db, sched, phase>>
       ELSE /\ procs' = (procs \ {proc}) \cup rest
            /\ db' = st.db /\ sched' = st.sync
            /\ UNCHANGED <<phase, lost>>
    /\ UNCHANGED <<gen, queueVars, faults>>
------------------------------------------------------------------------------
\* fetchParts ends: all is there, or no peer can be asked for what is missing.
Done ==
    /\ phase = "pivot" /\ Pending(sched) = {} /\ asked = {} /\ procs = {}
    /\ phase' = "done"
    /\ UNCHANGED <<db, sched, gen, queueVars, procs, lost, faults>>

Unavailable ==
    /\ Fetching /\ Pending(sched) # {} /\ asked = {} /\ procs = {}
    /\ sched.queue = {} /\ \A p \in Peers : tasks \subseteq lacking[p]
    /\ phase' = "idle"
    /\ UNCHANGED <<db, sched, gen, queueVars, procs, lost, faults>>

\* The cycle is cancelled for another reason.
Cancel ==
    /\ Fault
    /\ Fetching
    /\ phase' = "idle"
    /\ UNCHANGED <<db, sched, gen, queueVars, procs, lost>>

\* The node stops; the database is all that is left.
Crash ==
    /\ Fault
    /\ sched' = NoSync /\ procs' = {} /\ phase' = "idle" /\ lost' = {}
    /\ tasks' = {} /\ asked' = {} /\ pend' = [p \in Peers |-> {}] /\ lacking' = [p \in Peers |-> {}]
    /\ UNCHANGED <<db, gen>>

Next ==
    \/ Synchronise \/ Prepare \/ Switch
    \/ \E p \in Peers : Reserve(p) \/ Return(p)
    \/ \E p \in Peers : \E items \in SetToAllKPermutations(pend[p]) : \E data \in {TRUE, items # << >>} :
        Deliver(p, items, data)
    \/ \E proc \in procs : ProcessItem(proc)
    \/ Done \/ Unavailable \/ Cancel \/ Crash

Spec == Init /\ [][Next]_vars
------------------------------------------------------------------------------
\* A node is in the database only with everything it references, whatever was cancelled,
\* switched or crashed: NewTrieSync and Process skip what they find there, with all below it.
Closed == \A h \in db : Refs[h] \subseteq db

\* Everything below h.
RECURSIVE Reach(_)
Reach(h) == {h} \cup UNION {Reach(c) : c \in Refs[h]}

\* When nothing is pending, which lets the pivot block through to the import, the whole
\* state of the root is in the database.
SyncedComplete == sched # NoSync /\ Pending(sched) = {} => Reach(sched.root) \subseteq db

Held(h) ==
    \/ h \in sched.queue \cup tasks
    \/ \E p \in asked : h \in pend[p]
    \/ \E proc \in procs : Contains(proc.items, h)

\* Every node that the scheduler waits for is queued, asked for, or being processed, through
\* short answers, timeouts and cycles: but for results that a goroutine dropped because
\* another scheduler's goroutine had come first with the same node.  A request that has its
\* data waits for exactly the pending requests that will count it down, each as often as it
\* is linked, so that none waits for ever; and no more than maxInFlightStates hashes are
\* queued or in flight, although an allowance of zero is taken for no limit.
Tracked ==
    /\ \A h \in Pending(sched) : sched.requests[h].data \/ Held(h) \/ h \in lost
    /\ \A p \in Pending(sched) :
          /\ sched.requests[p].deps =
                 MapThenSumSet(LAMBDA h : sched.requests[h].parents[p], Pending(sched))
          /\ sched.requests[p].data <=> sched.requests[p].deps > 0
    /\ Cardinality(tasks) + MapThenSumSet(LAMBDA p : Cardinality(pend[p]), Peers) <= MaxInFlight

\* "Return all failed or missing fetches to the queue" (queue.go:1093): what the scheduler
\* waits for can always be had.
NothingLost == \A h \in Pending(sched) : sched.requests[h].data \/ Held(h)
==============================================================================
