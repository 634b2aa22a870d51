-------------------------------- MODULE TypeMux -------------------------------
(***************************************************************************)
(* event.TypeMux: Post hands an event to the subscriptions of its type     *)
(* over unbuffered channels, while Unsubscribe and Stop close them.  Every *)
(* Post and every Unsubscribe or Stop is a call of its own.  A mutex is    *)
(* not a variable: who holds it is read off the calls.  A critical section *)
(* that cannot block is one step.  A subscriber may be slow or never read. *)
(***************************************************************************)
EXTENDS Naturals, FiniteSets

CONSTANTS
    Subs,      \* subscriptions
    Events,    \* events, each posted by one call of Post
    Closers,   \* calls of Unsubscribe or Stop
    Kinds,     \* the Go types of events
    Wants,     \* the types a subscription is for
    Kind,      \* the type of an event
    None

ASSUME MuxAssumption ==
    /\ Wants \in [Subs -> SUBSET Kinds] /\ Kind \in [Events -> Kinds]
    /\ None \notin Subs /\ IsFiniteSet(Subs)

VARIABLES
    created,    \* subscriptions that newsub has made
    slot,       \* order of registration, 0 before it
    subm, stopped,
    closing,    \* subscriptions whose closing channel is closed
    closed,     \* and whose closed flag is set
    postC,      \* the channel, or nil
    shut,       \* the event channel is closed
    post,       \* the calls of Post
    close,      \* the calls of Unsubscribe and Stop
    received,   \* what the reader of a subscription has got
    returned    \* subscriptions that an Unsubscribe has returned for

vars == <<created, slot, subm, stopped, closing, closed, postC, shut, post, close,
          received, returned>>
muxsub == <<closing, closed, postC, shut>>

PostCall == [at : {"new", "made", "loop", "select", "done"},
             born : SUBSET Subs, owed : SUBSET Subs, todo : SUBSET Subs,
             sub : Subs \cup {None}, ch : {"open", "nil"}]
CloseCall == [op : {"none", "unsubscribe", "stop"},
              at : {"new", "del", "next", "enter", "lock", "pending", "done"},
              sub : Subs \cup {None}, todo : SUBSET Subs]

TypeOK ==
    /\ created \subseteq Subs /\ subm \subseteq Subs /\ stopped \in BOOLEAN
    /\ slot \in [Subs -> Nat]
    /\ closing \subseteq Subs /\ closed \subseteq Subs /\ shut \subseteq Subs
    /\ postC \in [Subs -> {"open", "nil"}]
    /\ post \in [Events -> PostCall] /\ close \in [Closers -> CloseCall]
    /\ received \in [Subs -> SUBSET Events]
    /\ returned \subseteq Subs

Init ==
    /\ created = {} /\ subm = {} /\ stopped = FALSE
    /\ slot = [s \in Subs |-> 0]
    /\ closing = {} /\ closed = {} /\ shut = {}
    /\ postC = [s \in Subs |-> "open"]
    /\ post = [e \in Events |-> [at |-> "new", born |-> {}, owed |-> {}, todo |-> {},
                                 sub |-> None, ch |-> "nil"]]
    /\ close = [c \in Closers |-> [op |-> "none", at |-> "new", sub |-> None, todo |-> {}]]
    /\ received = [s \in Subs |-> {}]
    /\ returned = {}
------------------------------------------------------------------------------
(* Stop holds mux.mutex while it waits; everyone else releases it at once.   *)
Stopping(c) == close[c].op = "stop" /\ close[c].at # "done"
MutexFree == \A c \in Closers : ~Stopping(c)

(* The call of closewait that holds closeMu.                                 *)
Closing(c, s) == close[c].sub = s /\ close[c].at \in {"lock", "pending"}
CloseMuFree(s) == \A c \in Closers : ~Closing(c, s)

(* postMu: deliver reads it, closewait writes it; a waiting writer keeps new *)
(* readers out.                                                              *)
Delivering(e, s) == post[e].at = "select" /\ post[e].sub = s
NoReader(s) == \A e \in Events : ~Delivering(e, s)
NoWriter(s) == \A c \in Closers : ~(close[c].sub = s /\ close[c].at = "pending")
------------------------------------------------------------------------------
newsub(s) ==
    /\ s \notin created
    /\ created' = created \cup {s}
    /\ UNCHANGED <<slot, subm, stopped, muxsub, post, close, received, returned>>

(* The rest of Subscribe, under mux.mutex.                                   *)
Subscribe(s) ==
    /\ s \in created /\ slot[s] = 0
    /\ MutexFree
    /\ slot' = [slot EXCEPT ![s] = 1 + Cardinality({t \in Subs : slot[t] # 0})]
    /\ IF stopped
       THEN /\ closed' = closed \cup {s}
            /\ shut' = shut \cup {s}
            /\ subm' = subm
       ELSE /\ subm' = subm \cup {s}
            /\ UNCHANGED <<closed, shut>>
    /\ UNCHANGED <<created, stopped, closing, postC, post, close, received, returned>>
------------------------------------------------------------------------------
(* Post: the event and its time ...                                          *)
NewEvent(e) ==
    /\ post[e].at = "new"
    /\ post' = [post EXCEPT ![e].at = "made", ![e].born = created,
                            ![e].owed = {s \in subm : Kind[e] \in Wants[s]}]
    /\ UNCHANGED <<created, slot, subm, stopped, muxsub, close, received, returned>>

(* ... the subscriptions, read under mux.mutex ...                           *)
Post(e) ==
    /\ post[e].at = "made"
    /\ MutexFree
    /\ post' = IF stopped THEN [post EXCEPT ![e].at = "done", ![e].owed = {}]
                          ELSE [post EXCEPT ![e].at = "loop",
                                    ![e].todo = {s \in subm : Kind[e] \in Wants[s]}]
    /\ UNCHANGED <<created, slot, subm, stopped, muxsub, close, received, returned>>

(* ... then deliver for one after the other.                                 *)
Turn(e, s) ==
    /\ post[e].at = "loop"
    /\ s \in post[e].todo
    /\ \A t \in post[e].todo : slot[s] <= slot[t]

Delivered(e) == [post EXCEPT ![e].at = "loop", ![e].todo = @ \ {post[e].sub}, ![e].sub = None]

(* A subscription made after the event does not get it, unless the clock     *)
(* gives both the same time.                                                 *)
SkipStale(e, s) ==
    /\ Turn(e, s)
    /\ s \notin post[e].born
    /\ post' = [post EXCEPT ![e].todo = @ \ {s}]
    /\ UNCHANGED <<created, slot, subm, stopped, muxsub, close, received, returned>>

deliver(e, s) ==
    /\ Turn(e, s)
    /\ NoWriter(s)
    /\ post' = [post EXCEPT ![e].at = "select", ![e].sub = s, ![e].ch = postC[s]]
    /\ UNCHANGED <<created, slot, subm, stopped, muxsub, close, received, returned>>

Send(e) ==
    /\ post[e].at = "select" /\ post[e].ch = "open"
    /\ received' = [received EXCEPT ![post[e].sub] = @ \cup {e}]
    /\ post' = Delivered(e)
    /\ UNCHANGED <<created, slot, subm, stopped, muxsub, close, returned>>

(* Mutant: a slow reader is passed over.                                     *)
BadAbandon(e) ==
    /\ post[e].at = "select"
    /\ post' = Delivered(e)
    /\ UNCHANGED <<created, slot, subm, stopped, muxsub, close, received, returned>>

(* Mutant: only a delivery that finds no channel looks at closing.           *)
LazyAbandon(e) ==
    /\ post[e].at = "select" /\ post[e].ch = "nil" /\ post[e].sub \in closing
    /\ post' = Delivered(e)
    /\ UNCHANGED <<created, slot, subm, stopped, muxsub, close, received, returned>>

Abandon(e) ==
    /\ post[e].at = "select" /\ post[e].sub \in closing
    /\ post' = Delivered(e)
    /\ UNCHANGED <<created, slot, subm, stopped, muxsub, close, received, returned>>

PostReturn(e) ==
    /\ post[e].at = "loop" /\ post[e].todo = {}
    /\ post' = [post EXCEPT ![e].at = "done"]
    /\ UNCHANGED <<created, slot, subm, stopped, muxsub, close, received, returned>>
------------------------------------------------------------------------------
Unsubscribe(c, s) ==
    /\ close[c].at = "new"
    /\ slot[s] # 0
    /\ close' = [close EXCEPT ![c].op = "unsubscribe", ![c].at = "del", ![c].sub = s]
    /\ UNCHANGED <<created, slot, subm, stopped, muxsub, post, received, returned>>

del(c) ==
    /\ close[c].at = "del"
    /\ MutexFree
    /\ subm' = subm \ {close[c].sub}
    /\ close' = [close EXCEPT ![c].at = "enter"]
    /\ UNCHANGED <<created, slot, stopped, muxsub, post, received, returned>>

Stop(c) ==
    /\ close[c].at = "new"
    /\ MutexFree
    /\ close' = [close EXCEPT ![c].op = "stop", ![c].at = "next", ![c].todo = subm]
    /\ UNCHANGED <<created, slot, subm, stopped, muxsub, post, received, returned>>

StopNext(c, s) ==
    /\ close[c].at = "next" /\ s \in close[c].todo
    /\ close' = [close EXCEPT ![c].at = "enter", ![c].sub = s, ![c].todo = @ \ {s}]
    /\ UNCHANGED <<created, slot, subm, stopped, muxsub, post, received, returned>>

StopReturn(c) ==
    /\ close[c].at = "next" /\ close[c].todo = {}
    /\ subm' = {} /\ stopped' = TRUE
    /\ close' = [close EXCEPT ![c].at = "done"]
    /\ UNCHANGED <<created, slot, muxsub, post, received, returned>>

(* Mutant: the subscription is forgotten before Unsubscribe returns.         *)
(* closewait returns to the loop of Stop, or Unsubscribe returns.            *)
CloseReturn(c) ==
    /\ close' = [close EXCEPT ![c].at = IF close[c].op = "stop" THEN "next" ELSE "done",
                              ![c].sub = None]
    /\ returned' = IF close[c].op = "stop" THEN returned ELSE returned \cup {close[c].sub}

CloseBegin(c) ==
    /\ closing' = closing \cup {close[c].sub}
    /\ closed' = closed \cup {close[c].sub}
    /\ close' = [close EXCEPT ![c].at = "lock"]
    /\ UNCHANGED returned

(* Mutant: closewait returns as soon as it sees that another call closes.    *)
BadCloseEnter(c) ==
    /\ close[c].at = "enter"
    /\ IF close[c].sub \in closed THEN CloseReturn(c) /\ UNCHANGED <<closing, closed>>
                                  ELSE CloseBegin(c)
    /\ UNCHANGED <<created, slot, subm, stopped, postC, shut, post, received>>

(* closewait: closeMu ...                                                    *)
CloseEnter(c) ==
    /\ close[c].at = "enter"
    /\ CloseMuFree(close[c].sub)
    /\ IF close[c].sub \in closed THEN CloseReturn(c) /\ UNCHANGED <<closing, closed>>
                                  ELSE CloseBegin(c)
    /\ UNCHANGED <<created, slot, subm, stopped, postC, shut, post, received>>

(* ... the call of postMu.Lock ...                                           *)
CloseLock(c) ==
    /\ close[c].at = "lock"
    /\ close' = [close EXCEPT ![c].at = "pending"]
    /\ UNCHANGED <<created, slot, subm, stopped, muxsub, post, received, returned>>

(* Mutant: the channel is closed under the eyes of its senders.              *)
BadCloseChan(c) ==
    /\ close[c].at = "pending"
    /\ shut' = shut \cup {close[c].sub}
    /\ postC' = [postC EXCEPT ![close[c].sub] = "nil"]
    /\ CloseReturn(c)
    /\ UNCHANGED <<created, slot, subm, stopped, closing, closed, post, received>>

(* ... and what it protects.                                                 *)
CloseChan(c) ==
    /\ close[c].at = "pending"
    /\ NoReader(close[c].sub)
    /\ shut' = shut \cup {close[c].sub}
    /\ postC' = [postC EXCEPT ![close[c].sub] = "nil"]
    /\ CloseReturn(c)
    /\ UNCHANGED <<created, slot, subm, stopped, closing, closed, post, received>>
------------------------------------------------------------------------------
CloserStep(c) ==
    \/ del(c) \/ (\E s \in Subs : StopNext(c, s)) \/ StopReturn(c)
    \/ CloseEnter(c) \/ CloseLock(c) \/ CloseChan(c)

Next ==
    \/ \E s \in Subs : newsub(s) \/ Subscribe(s)
    \/ \E e \in Events : \/ NewEvent(e) \/ Post(e) \/ Send(e) \/ Abandon(e) \/ PostReturn(e)
                         \/ \E s \in Subs : SkipStale(e, s) \/ deliver(e, s)
    \/ \E c \in Closers : Stop(c) \/ CloserStep(c) \/ \E s \in Subs : Unsubscribe(c, s)

Spec == Init /\ [][Next]_vars

(* Go runs every goroutine that can run; nobody promises to read.            *)
Fairness ==
    /\ \A c \in Closers : WF_vars(CloserStep(c))
    /\ \A e \in Events : WF_vars(Abandon(e))

FairSpec == Spec /\ Fairness
------------------------------------------------------------------------------
(* deliver never sends on a closed channel (a panic): a select that offers   *)
(* an event on the channel keeps it open, whoever unsubscribes meanwhile.    *)
SendSafe ==
    \A e \in Events : post[e].at = "select" /\ post[e].ch = "open" => post[e].sub \notin shut

(* closewait closes the event channel once: of all the calls of Unsubscribe  *)
(* and Stop for a subscription one gets as far as close(postC), and it finds *)
(* the channel open and postC not nil.                                       *)
CloseOnce ==
    \A c \in Closers : close[c].at \in {"lock", "pending"} =>
        /\ close[c].sub \notin shut /\ postC[close[c].sub] = "open"
        /\ \A d \in Closers : Closing(d, close[c].sub) => d = c

(* No interleaving of Post, Unsubscribe and Stop panics on the event channel *)
(* of a subscription.                                                        *)
ChannelSafe == SendSafe /\ CloseOnce

(* "The event channel is closed": when any Unsubscribe has returned, also    *)
(* one that found another call already closing, no event arrives any more.   *)
UnsubscribeCloses ==
    \A s \in returned : /\ s \in shut /\ s \notin subm
                        /\ \A e \in Events : Delivering(e, s) => post[e].ch = "nil"

(* When the loop of Post is over, every subscription of the type that was    *)
(* registered all along and is not being closed has the event.               *)
PostDelivers ==
    \A e \in Events : post[e].at \in {"loop", "done"} /\ post[e].todo = {} =>
        \A s \in post[e].owed : s \in subm \ closing => e \in received[s]

(* Every Unsubscribe and every Stop returns, although no subscriber reads.   *)
ClosersReturn ==
    \A c \in Closers : close[c].at # "new" ~> close[c].at = "done"
===============================================================================
