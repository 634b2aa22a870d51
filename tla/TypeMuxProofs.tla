---------------------------- MODULE TypeMuxProofs -----------------------------
(***************************************************************************)
(* The safety of event.TypeMux for any number of subscriptions, events and *)
(* concurrent calls of Post, Unsubscribe and Stop.                         *)
(***************************************************************************)
EXTENDS TypeMux, FiniteSetTheorems, TLAPS

(* Where a call of Unsubscribe or Stop may be, and what it then works on.    *)
CallInv ==
    \A c \in Closers :
        /\ close[c].at = "new" => close[c].op = "none"
        /\ close[c].at = "del" => close[c].op = "unsubscribe"
        /\ close[c].at = "next" => close[c].op = "stop"
        /\ close[c].at \in {"enter", "lock", "pending"} => close[c].op # "none"
        /\ close[c].at \in {"del", "enter", "lock", "pending"} =>
               close[c].sub \in Subs /\ slot[close[c].sub] # 0
        /\ \A s \in close[c].todo : slot[s] # 0
        /\ close[c].op = "unsubscribe" /\ close[c].at \in {"enter", "lock", "pending"} =>
               close[c].sub \notin subm

(* A subscription is closed by nobody before it is registered; one made on   *)
(* a stopped mux is shut with its postC left in place, and nobody sends.     *)
SubInv ==
    \A s \in Subs :
        /\ s \in closing \/ s \in shut => s \in closed
        /\ slot[s] = 0 => s \notin subm /\ s \notin closed
        /\ s \notin closed => postC[s] = "open"
        /\ slot[s] # 0 => s \in created
        /\ s \in shut /\ postC[s] = "open" =>
               s \notin subm /\ \A e \in Events : s \notin post[e].todo

(* closeMu and closed: whoever is inside closewait is alone and finds the    *)
(* channel open; a closed subscription is shut or has someone inside.        *)
LockInv ==
    /\ \A c, d \in Closers, s \in Subs : Closing(c, s) /\ Closing(d, s) => c = d
    /\ \A c \in Closers, s \in Subs : Closing(c, s) =>
           s \in closing /\ s \notin shut /\ postC[s] = "open"
    /\ \A s \in closed : s \in shut \/ \E c \in Closers : Closing(c, s)

(* What a Post still owes to the subscriptions registered when it began.     *)
PostInv ==
    \A e \in Events :
        /\ post[e].at = "select" => post[e].sub \in post[e].todo
        /\ \A s \in post[e].todo : slot[s] # 0
        /\ \A s \in post[e].owed : slot[s] # 0 /\ s \in post[e].born /\ Kind[e] \in Wants[s]
        /\ post[e].at = "new" => post[e].owed = {}
        /\ post[e].at \in {"loop", "select", "done"} =>
               \A s \in post[e].owed : s \in subm \ closing => s \in post[e].todo \/ e \in received[s]

ReturnInv == \A s \in returned : s \in shut /\ slot[s] # 0 /\ s \notin subm

Inv == TypeOK /\ CallInv /\ SubInv /\ LockInv /\ PostInv /\ SendSafe /\ ReturnInv
------------------------------------------------------------------------------
LEMMA InitInv == Init => Inv
<1> SUFFICES ASSUME Init PROVE Inv
  OBVIOUS
<1>1. TypeOK
  BY DEF Init, TypeOK, PostCall, CloseCall
<1>2. CallInv /\ SubInv /\ PostInv
  BY DEF Init, CallInv, SubInv, PostInv
<1>3. LockInv /\ SendSafe /\ ReturnInv
  BY DEF Init, LockInv, SendSafe, ReturnInv, Closing
<1> QED
  BY <1>1, <1>2, <1>3 DEF Inv

LEMMA SlotPositive ==
    ASSUME TypeOK
    PROVE  1 + Cardinality({t \in Subs : slot[t] # 0}) \in Nat \ {0}
<1>1. IsFiniteSet({t \in Subs : slot[t] # 0})
  BY MuxAssumption, FS_Subset
<1> QED
  BY <1>1, FS_CardinalityType

(* Every step keeps the variables in their types.                            *)
LEMMA TypeStep == Inv /\ [Next]_vars => TypeOK'
<1> SUFFICES ASSUME Inv, [Next]_vars PROVE TypeOK'
  OBVIOUS
<1> USE MuxAssumption
<1>1. ASSUME NEW s \in Subs, newsub(s) PROVE TypeOK'
  BY <1>1 DEF newsub, Inv, TypeOK, muxsub
<1>2. ASSUME NEW s \in Subs, Subscribe(s) PROVE TypeOK'
  BY <1>2, SlotPositive DEF Subscribe, Inv, TypeOK, muxsub
<1>3. ASSUME NEW e \in Events, NewEvent(e) \/ Post(e) \/ Abandon(e) \/ PostReturn(e) \/ Send(e)
      PROVE  TypeOK'
  <2>1. post[e] \in PostCall /\ (post[e].at = "select" => post[e].sub \in Subs)
    BY DEF Inv, TypeOK, PostInv, PostCall
  <2>2. post'[e] \in PostCall /\ \A d \in Events \ {e} : post'[d] = post[d]
    BY <1>3, <2>1 DEF NewEvent, Post, Abandon, PostReturn, Send, Delivered, Inv, TypeOK, PostCall
  <2>3. post' \in [Events -> PostCall]
    BY <1>3, <2>1, <2>2 DEF NewEvent, Post, Abandon, PostReturn, Send, Delivered, Inv, TypeOK
  <2> QED
    BY <1>3, <2>1, <2>3 DEF NewEvent, Post, Abandon, PostReturn, Send, Inv, TypeOK, muxsub
<1>4. ASSUME NEW e \in Events, NEW s \in Subs, SkipStale(e, s) \/ deliver(e, s) PROVE TypeOK'
  <2>1. post[e] \in PostCall
    BY DEF Inv, TypeOK
  <2>2. post'[e] \in PostCall /\ \A d \in Events \ {e} : post'[d] = post[d]
    BY <1>4, <2>1 DEF SkipStale, deliver, Turn, Inv, TypeOK, PostCall
  <2>3. post' \in [Events -> PostCall]
    BY <1>4, <2>2 DEF SkipStale, deliver, Inv, TypeOK
  <2> QED
    BY <1>4, <2>3 DEF SkipStale, deliver, Inv, TypeOK, muxsub
<1>5. ASSUME NEW c \in Closers, CloserStep(c) \/ Stop(c) \/ \E s \in Subs : Unsubscribe(c, s)
      PROVE  TypeOK'
  <2> DEFINE Here == close[c].at \in {"del", "enter", "lock", "pending"}
  <2>1. close[c] \in CloseCall /\ (Here => close[c].sub \in Subs)
    BY DEF Inv, TypeOK, CallInv
  <2>2. close'[c] \in CloseCall /\ close' = [close EXCEPT ![c] = close'[c]]
    <3>1. CASE del(c) \/ StopReturn(c) \/ CloseLock(c) \/ Stop(c)
      BY <2>1, <3>1 DEF del, StopReturn, CloseLock, Stop, Inv, TypeOK, CloseCall
    <3>2. CASE CloseEnter(c)
      BY <2>1, <3>2 DEF CloseEnter, CloseBegin, CloseReturn, Inv, TypeOK, CloseCall
    <3>3. CASE CloseChan(c)
      BY <2>1, <3>3 DEF CloseChan, CloseReturn, Inv, TypeOK, CloseCall
    <3>4. CASE \E s \in Subs : StopNext(c, s) \/ Unsubscribe(c, s)
      BY <2>1, <3>4 DEF StopNext, Unsubscribe, Inv, TypeOK, CloseCall
    <3> QED
      BY <1>5, <3>1, <3>2, <3>3, <3>4 DEF CloserStep
  <2>3. close' \in [Closers -> CloseCall]
    BY <2>2 DEF Inv, TypeOK
  <2>4. /\ subm' \subseteq Subs /\ stopped' \in BOOLEAN /\ closing' \subseteq Subs
        /\ closed' \subseteq Subs /\ returned' \subseteq Subs /\ shut' \subseteq Subs
    BY <1>5, <2>1 DEF CloserStep, Unsubscribe, del, Stop, StopNext, StopReturn, CloseEnter, CloseBegin,
       CloseReturn, CloseLock, CloseChan, Inv, TypeOK, muxsub
  <2>5. /\ postC' \in [Subs -> {"open", "nil"}]
        /\ UNCHANGED <<created, slot, post, received>>
    BY <1>5, <2>1 DEF CloserStep, Unsubscribe, del, Stop, StopNext, StopReturn, CloseEnter,
       CloseLock, CloseChan, Inv, TypeOK, muxsub
  <2> QED
    BY <2>3, <2>4, <2>5 DEF Inv, TypeOK
<1>6. CASE UNCHANGED vars
  BY <1>6 DEF vars, Inv, TypeOK
<1> QED
  BY <1>1, <1>2, <1>3, <1>4, <1>5, <1>6 DEF Next, CloserStep

(* The calls of Unsubscribe and Stop work on registered subscriptions.       *)
LEMMA CallStep == Inv /\ [Next]_vars => CallInv'
<1> SUFFICES ASSUME Inv, [Next]_vars, NEW d \in Closers PROVE CallInv!(d)'
  BY DEF CallInv
<1>0. TypeOK /\ CallInv
  BY DEF Inv
<1>1. ASSUME NEW s \in Subs, newsub(s) PROVE CallInv!(d)'
  BY <1>0, <1>1 DEF newsub, CallInv
<1>2. ASSUME NEW s \in Subs, Subscribe(s) PROVE CallInv!(d)'
  BY <1>0, <1>2, SlotPositive DEF Subscribe, CallInv, TypeOK
<1>3. ASSUME NEW e \in Events, \/ NewEvent(e) \/ Post(e) \/ Abandon(e) \/ PostReturn(e) \/ Send(e)
                               \/ \E s \in Subs : SkipStale(e, s) \/ deliver(e, s)
      PROVE  CallInv!(d)'
  BY <1>0, <1>3 DEF NewEvent, Post, Abandon, PostReturn, Send, SkipStale, deliver, CallInv
<1>4. ASSUME NEW c \in Closers, del(c) PROVE CallInv!(d)'
  BY <1>0, <1>4 DEF del, CallInv, TypeOK, CloseCall, MutexFree, Stopping
<1>5. ASSUME NEW c \in Closers, CloseLock(c) PROVE CallInv!(d)'
  BY <1>0, <1>5 DEF CloseLock, CallInv, TypeOK, CloseCall
<1>6. ASSUME NEW c \in Closers, CloseEnter(c) PROVE CallInv!(d)'
  BY <1>0, <1>6 DEF CloseEnter, CloseBegin, CloseReturn, CallInv, TypeOK, CloseCall
<1>7. ASSUME NEW c \in Closers, CloseChan(c) PROVE CallInv!(d)'
  BY <1>0, <1>7 DEF CloseChan, CloseReturn, CallInv, TypeOK, CloseCall
<1>8. ASSUME NEW c \in Closers, NEW s \in Subs, StopNext(c, s) PROVE CallInv!(d)'
  BY <1>0, <1>8 DEF StopNext, CallInv, TypeOK, CloseCall
<1>9. ASSUME NEW c \in Closers, StopReturn(c) PROVE CallInv!(d)'
  BY <1>0, <1>9 DEF StopReturn, CallInv, TypeOK, CloseCall
<1>10. ASSUME NEW c \in Closers, Stop(c) PROVE CallInv!(d)'
  BY <1>0, <1>10 DEF Stop, CallInv, TypeOK, CloseCall, Inv, SubInv
<1>11. ASSUME NEW c \in Closers, NEW s \in Subs, Unsubscribe(c, s) PROVE CallInv!(d)'
  BY <1>0, <1>11 DEF Unsubscribe, CallInv, TypeOK, CloseCall
<1>12. CASE UNCHANGED vars
  BY <1>0, <1>12 DEF vars, CallInv
<1> QED
  BY <1>1, <1>2, <1>3, <1>4, <1>5, <1>6, <1>7, <1>8, <1>9, <1>10, <1>11, <1>12
     DEF Next, CloserStep

(* What is closed, shut and registered.                                      *)
LEMMA SubStep == Inv /\ [Next]_vars => SubInv'
<1> SUFFICES ASSUME Inv, [Next]_vars, NEW t \in Subs PROVE SubInv!(t)'
  BY DEF SubInv
<1>0. TypeOK /\ SubInv /\ CallInv /\ PostInv /\ LockInv
  BY DEF Inv
<1>1. ASSUME NEW s \in Subs, newsub(s) PROVE SubInv!(t)'
  BY <1>0, <1>1 DEF newsub, SubInv, muxsub
<1>2. ASSUME NEW s \in Subs, Subscribe(s) PROVE SubInv!(t)'
  BY <1>0, <1>2, SlotPositive DEF Subscribe, SubInv, TypeOK, PostInv
<1>3. ASSUME NEW e \in Events, NewEvent(e) \/ PostReturn(e) PROVE SubInv!(t)'
  <2>1. \A d \in Events : post'[d].todo = post[d].todo
    BY <1>0, <1>3 DEF NewEvent, PostReturn, TypeOK, PostCall
  <2> QED
    BY <1>0, <1>3, <2>1 DEF NewEvent, PostReturn, SubInv, muxsub
<1>4. ASSUME NEW e \in Events, Post(e) PROVE SubInv!(t)'
  BY <1>0, <1>4 DEF Post, SubInv, TypeOK, PostCall, muxsub
<1>5. ASSUME NEW e \in Events, Abandon(e) \/ Send(e) PROVE SubInv!(t)'
  BY <1>0, <1>5 DEF Abandon, Send, Delivered, SubInv, TypeOK, PostCall, muxsub
<1>6. ASSUME NEW e \in Events, NEW s \in Subs, SkipStale(e, s) \/ deliver(e, s) PROVE SubInv!(t)'
  <2>1. \A d \in Events : post'[d].todo \subseteq post[d].todo
    BY <1>0, <1>6 DEF SkipStale, deliver, TypeOK, PostCall
  <2> QED
    BY <1>0, <1>6, <2>1 DEF SkipStale, deliver, SubInv, muxsub
<1>7. ASSUME NEW c \in Closers, CloseEnter(c) PROVE SubInv!(t)'
  BY <1>0, <1>7 DEF CloseEnter, CloseBegin, CloseReturn, SubInv, CallInv, TypeOK
<1>8. ASSUME NEW c \in Closers, CloseChan(c) PROVE SubInv!(t)'
  BY <1>0, <1>8 DEF CloseChan, CloseReturn, SubInv, CallInv, LockInv, Closing, TypeOK
<1>9. ASSUME NEW c \in Closers, del(c) \/ StopReturn(c) PROVE SubInv!(t)'
  BY <1>0, <1>9 DEF del, StopReturn, SubInv, muxsub
<1>10. ASSUME NEW c \in Closers, \/ CloseLock(c) \/ Stop(c)
                                 \/ \E s \in Subs : StopNext(c, s) \/ Unsubscribe(c, s)
       PROVE SubInv!(t)'
  BY <1>0, <1>10 DEF CloseLock, Stop, StopNext, Unsubscribe, SubInv, muxsub
<1>11. CASE UNCHANGED vars
  BY <1>0, <1>11 DEF vars, SubInv, muxsub
<1> QED
  BY <1>1, <1>2, <1>3, <1>4, <1>5, <1>6, <1>7, <1>8, <1>9, <1>10, <1>11
     DEF Next, CloserStep

(* closewait is entered by one call at a time.                               *)
LEMMA LockStep == Inv /\ [Next]_vars => LockInv'
<1> SUFFICES ASSUME Inv, [Next]_vars PROVE LockInv'
  OBVIOUS
<1>0. TypeOK /\ SubInv /\ CallInv /\ LockInv
  BY DEF Inv
<1>1. ASSUME NEW s \in Subs, newsub(s) PROVE LockInv'
  BY <1>0, <1>1 DEF newsub, LockInv, Closing, muxsub
<1>2. ASSUME NEW s \in Subs, Subscribe(s) PROVE LockInv'
  BY <1>0, <1>2 DEF Subscribe, LockInv, Closing, CallInv, TypeOK
<1>3. ASSUME NEW e \in Events, \/ NewEvent(e) \/ Post(e) \/ Abandon(e) \/ PostReturn(e) \/ Send(e)
                               \/ \E s \in Subs : SkipStale(e, s) \/ deliver(e, s)
      PROVE  LockInv'
  <2>1. UNCHANGED <<closing, closed, postC, shut, close>>
    BY <1>3 DEF NewEvent, Post, Abandon, PostReturn, Send, SkipStale, deliver, muxsub
  <2> QED
    BY <1>0, <2>1 DEF LockInv, Closing
<1>4. ASSUME NEW c \in Closers, del(c) \/ StopReturn(c) \/ Stop(c) PROVE LockInv'
  <2>1. \A d \in Closers, s \in Subs : Closing(d, s)' <=> Closing(d, s)
    BY <1>0, <1>4 DEF del, StopReturn, Stop, Closing, TypeOK, CloseCall
  <2> QED
    BY <1>0, <1>4, <2>1 DEF del, StopReturn, Stop, LockInv, muxsub, TypeOK
<1>5. ASSUME NEW c \in Closers, NEW t \in Subs, StopNext(c, t) \/ Unsubscribe(c, t) PROVE LockInv'
  <2>1. \A d \in Closers, s \in Subs : Closing(d, s)' <=> Closing(d, s)
    BY <1>0, <1>5 DEF StopNext, Unsubscribe, Closing, TypeOK, CloseCall
  <2> QED
    BY <1>0, <1>5, <2>1 DEF StopNext, Unsubscribe, LockInv, muxsub, TypeOK
<1>6. ASSUME NEW c \in Closers, CloseLock(c) PROVE LockInv'
  <2>1. \A d \in Closers, s \in Subs : Closing(d, s)' <=> Closing(d, s)
    BY <1>0, <1>6 DEF CloseLock, Closing, TypeOK, CloseCall
  <2> QED
    BY <1>0, <1>6, <2>1 DEF CloseLock, LockInv, muxsub, TypeOK
<1>7. ASSUME NEW c \in Closers, CloseEnter(c), close[c].sub \in closed PROVE LockInv'
  <2>1. \A d \in Closers, s \in Subs : Closing(d, s)' <=> Closing(d, s)
    BY <1>0, <1>7 DEF CloseEnter, CloseReturn, Closing, TypeOK, CloseCall
  <2> QED
    BY <1>0, <1>7, <2>1 DEF CloseEnter, LockInv, TypeOK
<1>8. ASSUME NEW c \in Closers, CloseEnter(c), close[c].sub \notin closed PROVE LockInv'
  <2>1. \A d \in Closers, s \in Subs :
            Closing(d, s)' <=> Closing(d, s) \/ (d = c /\ s = close[c].sub)
    BY <1>0, <1>8 DEF CloseEnter, CloseBegin, Closing, TypeOK, CloseCall
  <2>2. close[c].sub \in Subs /\ close[c].sub \notin shut /\ postC[close[c].sub] = "open"
    BY <1>0, <1>8 DEF CloseEnter, CallInv, SubInv
  <2> QED
    BY <1>0, <1>8, <2>1, <2>2 DEF CloseEnter, CloseBegin, CloseMuFree, LockInv, TypeOK
<1>9. ASSUME NEW c \in Closers, CloseChan(c) PROVE LockInv'
  <2>1. \A d \in Closers, s \in Subs : Closing(d, s)' <=> Closing(d, s) /\ d # c
    BY <1>0, <1>9 DEF CloseChan, CloseReturn, Closing, TypeOK, CloseCall
  <2>2. close[c].sub \in Subs /\ Closing(c, close[c].sub)
    BY <1>0, <1>9 DEF CloseChan, CallInv, Closing
  <2> QED
    BY <1>0, <1>9, <2>1, <2>2 DEF CloseChan, LockInv, TypeOK, Closing
<1>10. CASE UNCHANGED vars
  BY <1>0, <1>10 DEF vars, LockInv, Closing, muxsub
<1> QED
  BY <1>1, <1>2, <1>3, <1>4, <1>5, <1>6, <1>7, <1>8, <1>9, <1>10 DEF Next, CloserStep

(* A Post drops no subscription it owes the event to.                        *)
LEMMA PostStep == Inv /\ [Next]_vars => PostInv'
<1> SUFFICES ASSUME Inv, [Next]_vars, NEW d \in Events PROVE PostInv!(d)'
  BY DEF PostInv
<1>0. TypeOK /\ SubInv /\ PostInv /\ CallInv
  BY DEF Inv
<1>1. ASSUME NEW s \in Subs, newsub(s) PROVE PostInv!(d)'
  BY <1>0, <1>1 DEF newsub, PostInv, muxsub
<1>2. ASSUME NEW s \in Subs, Subscribe(s) PROVE PostInv!(d)'
  BY <1>0, <1>2, SlotPositive DEF Subscribe, PostInv, TypeOK
<1>3. ASSUME NEW e \in Events, NewEvent(e) PROVE PostInv!(d)'
  BY <1>0, <1>3 DEF NewEvent, PostInv, SubInv, TypeOK, PostCall, muxsub
<1>4. ASSUME NEW e \in Events, Post(e) PROVE PostInv!(d)'
  BY <1>0, <1>4 DEF Post, PostInv, SubInv, TypeOK, PostCall, muxsub
<1>5. ASSUME NEW e \in Events, Send(e) PROVE PostInv!(d)'
  BY <1>0, <1>5 DEF Send, Delivered, PostInv, TypeOK, PostCall, muxsub
<1>6. ASSUME NEW e \in Events, Abandon(e) PROVE PostInv!(d)'
  BY <1>0, <1>6 DEF Abandon, Delivered, PostInv, TypeOK, PostCall, muxsub
<1>7. ASSUME NEW e \in Events, PostReturn(e) PROVE PostInv!(d)'
  BY <1>0, <1>7 DEF PostReturn, PostInv, TypeOK, PostCall, muxsub
<1>8. ASSUME NEW e \in Events, NEW s \in Subs, SkipStale(e, s) PROVE PostInv!(d)'
  BY <1>0, <1>8 DEF SkipStale, Turn, PostInv, TypeOK, PostCall, muxsub
<1>9. ASSUME NEW e \in Events, NEW s \in Subs, deliver(e, s) PROVE PostInv!(d)'
  BY <1>0, <1>9 DEF deliver, Turn, PostInv, TypeOK, PostCall, muxsub
<1>10. ASSUME NEW c \in Closers, CloserStep(c) \/ Stop(c) \/ \E s \in Subs : Unsubscribe(c, s)
       PROVE  PostInv!(d)'
  <2>1. /\ UNCHANGED <<slot, post, received>>
        /\ subm' \subseteq subm /\ closing \subseteq closing'
    BY <1>10 DEF CloserStep, Unsubscribe, del, Stop, StopNext, StopReturn, CloseEnter, CloseBegin,
       CloseLock, CloseChan, muxsub
  <2> QED
    BY <1>0, <2>1 DEF PostInv
<1>11. CASE UNCHANGED vars
  BY <1>0, <1>11 DEF vars, PostInv
<1> QED
  BY <1>1, <1>2, <1>3, <1>4, <1>5, <1>6, <1>7, <1>8, <1>9, <1>10, <1>11 DEF Next

(* No channel is closed under a sender, none comes back to life.             *)
LEMMA CloseStep == Inv /\ [Next]_vars => SendSafe' /\ ReturnInv'
<1> SUFFICES ASSUME Inv, [Next]_vars PROVE SendSafe' /\ ReturnInv'
  OBVIOUS
<1>0. TypeOK /\ SubInv /\ PostInv /\ CallInv /\ LockInv /\ SendSafe /\ ReturnInv
  BY DEF Inv
<1>1. ASSUME NEW s \in Subs, newsub(s) PROVE SendSafe' /\ ReturnInv'
  BY <1>0, <1>1 DEF newsub, SendSafe, ReturnInv, muxsub
<1>2. ASSUME NEW s \in Subs, Subscribe(s) PROVE SendSafe' /\ ReturnInv'
  BY <1>0, <1>2, SlotPositive DEF Subscribe, SendSafe, ReturnInv, PostInv, TypeOK
<1>3. ASSUME NEW e \in Events, NewEvent(e) \/ Post(e) \/ PostReturn(e) PROVE SendSafe' /\ ReturnInv'
  BY <1>0, <1>3 DEF NewEvent, Post, PostReturn, SendSafe, ReturnInv, TypeOK, PostCall, muxsub
<1>4. ASSUME NEW e \in Events, Send(e) \/ Abandon(e) PROVE SendSafe' /\ ReturnInv'
  BY <1>0, <1>4 DEF Send, Abandon, Delivered, SendSafe, ReturnInv, TypeOK, PostCall, muxsub
<1>5. ASSUME NEW e \in Events, NEW s \in Subs, SkipStale(e, s) PROVE SendSafe' /\ ReturnInv'
  BY <1>0, <1>5 DEF SkipStale, SendSafe, ReturnInv, TypeOK, PostCall, muxsub
<1>6. ASSUME NEW e \in Events, NEW s \in Subs, deliver(e, s) PROVE SendSafe' /\ ReturnInv'
  BY <1>0, <1>6 DEF deliver, Turn, SendSafe, ReturnInv, SubInv, TypeOK, PostCall, muxsub
<1>7. ASSUME NEW c \in Closers, CloseEnter(c) PROVE SendSafe' /\ ReturnInv'
  BY <1>0, <1>7 DEF CloseEnter, CloseBegin, CloseReturn, CloseMuFree, SendSafe, ReturnInv, CallInv,
     LockInv, TypeOK, CloseCall
<1>8. ASSUME NEW c \in Closers, CloseChan(c) PROVE SendSafe' /\ ReturnInv'
  BY <1>0, <1>8 DEF CloseChan, CloseReturn, NoReader, Delivering, SendSafe, ReturnInv, CallInv,
     TypeOK, CloseCall
<1>9. ASSUME NEW c \in Closers, \/ del(c) \/ StopReturn(c) \/ CloseLock(c) \/ Stop(c)
                                \/ \E s \in Subs : StopNext(c, s) \/ Unsubscribe(c, s)
      PROVE  SendSafe' /\ ReturnInv'
  <2>1. UNCHANGED <<slot, post, shut, returned>> /\ subm' \subseteq subm
    BY <1>9 DEF del, StopReturn, CloseLock, Stop, StopNext, Unsubscribe, muxsub
  <2> QED
    BY <1>0, <2>1 DEF SendSafe, ReturnInv
<1>10. CASE UNCHANGED vars
  BY <1>0, <1>10 DEF vars, SendSafe, ReturnInv
<1> QED
  BY <1>1, <1>2, <1>3, <1>4, <1>5, <1>6, <1>7, <1>8, <1>9, <1>10 DEF Next, CloserStep
------------------------------------------------------------------------------
LEMMA SpecInv == Spec => []Inv
<1>1. Inv /\ [Next]_vars => Inv'
  BY TypeStep, CallStep, SubStep, LockStep, PostStep, CloseStep DEF Inv
<1> QED
  BY <1>1, InitInv, PTL DEF Spec

(* Type correctness of the mux for any number of calls.                      *)
THEOREM TypeCorrect == Spec => []TypeOK
BY SpecInv, PTL DEF Inv

(* No interleaving of Post with Unsubscribe and Stop sends on a closed       *)
(* channel or closes a channel twice, the two ways in which it would panic.  *)
THEOREM NoChannelPanic == Spec => []ChannelSafe
<1>1. Inv => ChannelSafe
  BY DEF Inv, CallInv, LockInv, ChannelSafe, CloseOnce, Closing
<1> QED
  BY <1>1, SpecInv, PTL

(* Once any Unsubscribe has returned its subscriber gets nothing more.       *)
THEOREM UnsubscribeFinal == Spec => []UnsubscribeCloses
<1>1. Inv => UnsubscribeCloses
  BY DEF Inv, ReturnInv, SendSafe, UnsubscribeCloses, Delivering, TypeOK, PostCall
<1> QED
  BY <1>1, SpecInv, PTL

(* Post reaches every subscription that stays registered.                    *)
THEOREM PostComplete == Spec => []PostDelivers
<1>1. Inv => PostDelivers
  BY DEF Inv, PostInv, PostDelivers
<1> QED
  BY <1>1, SpecInv, PTL
===============================================================================
