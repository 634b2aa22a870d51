------------------------------- MODULE TxAccount ------------------------------
(***************************************************************************)
(* The transactions the pool holds for one account (core/tx_list.go and    *)
(* the per-account parts of core/tx_pool.go) as operators on a record:     *)
(*   pending, queue  the two txLists, as sets (no list is an empty set);   *)
(*   pcap, qcap      costcap of either list, 0 for a list not yet made;    *)
(*   all             the account's entries of pool.all;                    *)
(*   nonce           pendingState.GetNonce of the account;                 *)
(*   beat            its entry of pool.beats, or Never.                    *)
(* A list holds at most one transaction of a nonce, so that adding or      *)
(* promoting several transactions of different nonces in turn is the same  *)
(* as adding them at once.                                                 *)
(***************************************************************************)
EXTENDS Integers, FiniteSets

CONSTANTS
    Txs,     \* transactions
    Nonce,   \* tx.Nonce()
    Price,   \* tx.GasPrice()
    Cost     \* tx.Cost()

ASSUME TxAssumption ==
    /\ Nonce \in [Txs -> Nat]
    /\ Price \in [Txs -> Nat]
    /\ Cost \in [Txs -> Nat]

Never == -1  \* the zero time of an account without a heartbeat

Account == [pending : SUBSET Txs, queue : SUBSET Txs, pcap : Nat, qcap : Nat,
            all : SUBSET Txs, nonce : Nat, beat : Int]

NewAccount(n) ==
    [pending |-> {}, queue |-> {}, pcap |-> 0, qcap |-> 0, all |-> {}, nonce |-> n, beat |-> Never]
------------------------------------------------------------------------------
\* txList: what Add replaces, and which of the transactions S it accepts.
SameNonce(list, S) == {x \in list : \E t \in S : Nonce[x] = Nonce[t]}

Accepted(list, S) == {t \in S : \A x \in list : Nonce[x] = Nonce[t] => Price[x] < Price[t]}

\* costcap after the transactions S were added.
Raised(cap, S) ==
    CHOOSE c \in {cap} \cup {Cost[t] : t \in S} : \A d \in {cap} \cup {Cost[t] : t \in S} : d <= c

\* Mutant: the threshold is off by one.
BadCurrent(list, n) == {t \in list : Nonce[t] + 1 >= n}

\* Forward: transactions that are not yet on the chain.
Current(list, n) == {t \in list : Nonce[t] >= n}

\* Filter, which looks at the transactions only if costcap exceeds the balance.
Unpayable(list, cap, balance) == {t \in list : cap > balance /\ Cost[t] > balance}

\* What a strict list loses with the transactions S: all of a higher nonce.
Above(list, S) == {t \in list : \E x \in S : Nonce[t] > Nonce[x]}

\* costcap after Filter; a list that has become empty is deleted.
Lowered(list, cap, balance) == IF list = {} THEN 0 ELSE IF cap > balance THEN balance ELSE cap

\* Ready: the unbroken run from the lowest nonce, if that is not beyond start.
Ready(list, start) ==
    {t \in list :
        /\ \E x \in list : Nonce[x] <= start
        /\ \A y \in list : \A n \in Nonce[y] .. Nonce[t] : \E x \in list : Nonce[x] = n}

\* Cap: the k transactions of the lowest nonces.
Capped(list, k) == {t \in list : Cardinality({x \in list : Nonce[x] < Nonce[t]}) < k}
------------------------------------------------------------------------------
\* enqueueTx of each of S.
Enqueue(r, S) ==
    LET acc == Accepted(r.queue, S)
        old == SameNonce(r.queue, acc)
    IN  [r EXCEPT !.queue = (@ \ old) \cup acc,
                  !.all = (@ \ old) \cup acc,
                  !.qcap = Raised(@, acc)]

\* promoteTx of each of S in the order of their nonces: the last one accepted sets the
\* pending nonce, whatever the pending list holds above it.
Promote(r, S, now) ==
    LET acc == Accepted(r.pending, S)
        old == SameNonce(r.pending, acc)
        cleared == [r EXCEPT !.all = ((@ \ S) \ old) \cup acc]
    IN  IF acc = {} THEN cleared
        ELSE [cleared EXCEPT !.pending = (@ \ old) \cup acc,
                             !.pcap = Raised(@, acc),
                             !.nonce = (CHOOSE n \in {Nonce[t] : t \in acc} : \A t \in acc : Nonce[t] <= n) + 1,
                             !.beat = now]

\* Mutant: the promoted transactions stay in the queue.
BadPromoteExecutable(r, n, balance, now, limit) ==
    [Promote(r, Ready(r.queue, r.nonce), now) EXCEPT !.queue = Capped(@, limit)]

\* One round of the loop of promoteExecutables.
PromoteExecutable(r, n, balance, now, limit) ==
    LET kept == Current(r.queue, n)
        drops == Unpayable(kept, r.qcap, balance)
        left == kept \ drops
        ready == Ready(left, r.nonce)
        rest == left \ ready
        qcap == IF r.qcap > balance THEN balance ELSE r.qcap
        s == Promote([r EXCEPT !.all = @ \ (r.queue \ left)], ready, now)
    IN  [s EXCEPT !.queue = Capped(rest, limit),
                  !.qcap = IF Capped(rest, limit) = {} THEN 0 ELSE qcap,
                  !.all = @ \ (rest \ Capped(rest, limit))]

\* One round of the loop of demoteUnexecutables.
DemoteUnexecutable(r, n, balance) ==
    LET kept == Current(r.pending, n)
        drops == Unpayable(kept, r.pcap, balance)
        invalids == Above(kept \ drops, drops)
        left == (kept \ drops) \ invalids
        s == Enqueue([r EXCEPT !.all = @ \ ((r.pending \ kept) \cup drops)], invalids)
    IN  IF r.pending = {} THEN r
        ELSE [s EXCEPT !.pending = left,
                       !.pcap = Lowered(left, @, balance),
                       !.beat = IF left = {} THEN Never ELSE @]

\* removeTx.  Both lists are searched by nonce.  The transactions above the removed
\* one are queued again unless the pending list has become empty.
RemoveTx(r, t) ==
    LET hit == SameNonce(r.pending, {t})
        invalids == Above(r.pending, hit)
        left == (r.pending \ hit) \ invalids
        gone == [r EXCEPT !.all = @ \ {t}]
        s == IF hit = {} THEN gone
             ELSE [(IF left = {} THEN [gone EXCEPT !.beat = Never, !.pcap = 0] ELSE Enqueue(gone, invalids))
                   EXCEPT !.pending = left,
                          !.nonce = IF @ > Nonce[t] THEN Nonce[t] ELSE @]
        rest == s.queue \ SameNonce(s.queue, {t})
    IN  IF t \notin r.all THEN r
        ELSE [s EXCEPT !.queue = rest, !.qcap = IF rest = {} THEN 0 ELSE @]
==============================================================================
