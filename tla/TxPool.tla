-------------------------------- MODULE TxPool --------------------------------
(***************************************************************************)
(* core.TxPool.  Every operation runs under pool.mu and is one step; the   *)
(* chain moves on independently, and the pool hears of it by a later       *)
(* ChainHeadEvent.  Go's map iteration and unstable sorting make some      *)
(* results depend on an order: these operations have a set of outcomes.    *)
(***************************************************************************)
EXTENDS TxAccount, SequencesExt

CONSTANTS
    Accounts,
    From,                  \* types.Sender
    Batches,               \* bound: transaction sequences handed to AddBatch
    Nonces, Balances,      \* bound: account nonces and balances the chain may have
    Moving,                \* bound: the accounts that new heads change
    Locals,                \* bound: transactions submitted on this node
    Prices,                \* bound: values of the miner's minimal gas price
    MaxClock,              \* bound: the last instant of the clock
    MinPendingPerAccount, MaxPendingTotal, MaxQueuedPerAccount, MaxQueuedInTotal,
    MaxQueuedLifetime,
    TxSetDuration,
    MaxLocal               \* bound: local transactions remembered at a time

ASSUME PoolAssumption ==
    /\ From \in [Txs -> Accounts]
    /\ Locals \subseteq Txs /\ Moving \subseteq Accounts
    /\ Nonces \subseteq Nat /\ Balances \subseteq Nat /\ Prices \subseteq Nat
    /\ MinPendingPerAccount \in Nat \ {0}

VARIABLES
    acct,          \* what the pool holds for each account
    chainNonce,    \* account nonces in the state of the head block
    balance,       \* account balances in the state of the head block
    minGasPrice,
    localTx,
    localOrd,      \* localTx.txOrd: the local transactions in the order they were marked
    clock

vars == <<acct, chainNonce, balance, minGasPrice, localTx, localOrd, clock>>
chain == <<chainNonce, balance>>
locals == <<localTx, localOrd>>

TypeOK ==
    /\ acct \in [Accounts -> Account]
    /\ \A a \in Accounts : \A t \in acct[a].pending \cup acct[a].queue \cup acct[a].all : From[t] = a
    /\ chainNonce \in [Accounts -> Nonces] /\ balance \in [Accounts -> Balances]
    /\ minGasPrice \in Prices
    /\ localTx \subseteq Locals
    /\ localOrd \in Seq([tx : Locals, time : 0 .. MaxClock]) /\ Len(localOrd) <= MaxLocal
    /\ clock \in 0 .. MaxClock

Init ==
    /\ chainNonce \in [Accounts -> {n \in Nonces : \A m \in Nonces : n <= m}]
    /\ balance \in [Accounts -> {b \in Balances : \A c \in Balances : b >= c}]
    /\ acct = [a \in Accounts |-> NewAccount(chainNonce[a])]
    /\ minGasPrice \in {p \in Prices : \A q \in Prices : p <= q}
    /\ localTx = {} /\ localOrd = << >>
    /\ clock = 0
------------------------------------------------------------------------------
\* The orders in which the accounts S may come when sorted by key, largest first.
Descending(S, key(_)) ==
    {s \in [1 .. Cardinality(S) -> S] :
        \A i, j \in 1 .. Cardinality(S) : i < j => s[i] # s[j] /\ key(s[i]) >= key(s[j])}

PendingOf(p) == UNION {p[a].pending : a \in Accounts}

QueuedOf(p) == UNION {p[a].queue : a \in Accounts}

(***************************************************************************)
(* The pending limit: accounts with more than the guaranteed slots and     *)
(* whose first transaction met is not local are cut, the largest first,    *)
(* down to the size of the next, and then together to the guaranteed size. *)
(* What is cut off stays in pool.all, and the pending nonce stays.         *)
(***************************************************************************)
Spammers(p) ==
    LET large == {a \in Accounts : Cardinality(p[a].pending) > MinPendingPerAccount}
    IN  {S \in SUBSET large : /\ \A a \in S : p[a].pending \ localTx # {}
                              /\ \A a \in large \ S : p[a].pending \cap localTx # {}}

RECURSIVE Shrink(_, _, _, _)
\* All of cut lose their last transaction until the total fits or ref is down to floor.
Shrink(p, cut, ref, floor) ==
    IF Cardinality(PendingOf(p)) > MaxPendingTotal /\ Cardinality(p[ref].pending) > floor
    THEN Shrink([a \in Accounts |->
                    IF a \in cut THEN [p[a] EXCEPT !.pending = Capped(@, Cardinality(@) - 1)] ELSE p[a]],
                cut, ref, floor)
    ELSE p

RECURSIVE BadEqualize(_, _, _)
\* Mutant: only the account at hand is cut, not the larger ones with it.
BadEqualize(p, offenders, i) ==
    IF Cardinality(PendingOf(p)) <= MaxPendingTotal \/ offenders = << >> THEN p
    ELSE LET cut == {offenders[i]}
         IN  IF i = Len(offenders)
             THEN Shrink(p, cut, offenders[i], MinPendingPerAccount)
             ELSE BadEqualize(Shrink(p, cut, offenders[i], Cardinality(p[offenders[i + 1]].pending)), offenders, i + 1)

RECURSIVE Equalize(_, _, _)
\* The first i of the offenders are at most as large as the i-th.
Equalize(p, offenders, i) ==
    IF Cardinality(PendingOf(p)) <= MaxPendingTotal \/ offenders = << >> THEN p
    ELSE LET cut == {offenders[j] : j \in 1 .. i}
         IN  IF i = Len(offenders)
             THEN Shrink(p, cut, offenders[i], MinPendingPerAccount)
             ELSE Equalize(Shrink(p, cut, offenders[i], Cardinality(p[offenders[i + 1]].pending)), offenders, i + 1)

CapPending(p) ==
    IF Cardinality(PendingOf(p)) <= MaxPendingTotal THEN {p}
    ELSE {Equalize(p, s, 1) : s \in UNION {Descending(S, LAMBDA a : Cardinality(p[a].pending)) : S \in Spammers(p)}}
------------------------------------------------------------------------------
Flatten(list) == SetToSortSeq(list, LAMBDA x, y : Nonce[x] < Nonce[y])

RemoveAll(r, txs) == FoldLeft(RemoveTx, r, txs)

RECURSIVE DropQueued(_, _, _)
\* drop transactions are removed from the queues of the accounts in turn.
DropQueued(p, addresses, drop) ==
    IF drop = 0 \/ addresses = << >> THEN p
    ELSE LET a == Head(addresses)
             txs == Flatten(p[a].queue)
         IN  IF Len(txs) <= drop
             THEN DropQueued([p EXCEPT ![a] = RemoveAll(@, txs)], Tail(addresses), drop - Len(txs))
             ELSE [p EXCEPT ![a] = RemoveAll(@, Reverse(SubSeq(txs, Len(txs) - drop + 1, Len(txs))))]

\* The total queue limit: the accounts with the most recent heartbeat lose first.
CapQueue(p) ==
    IF Cardinality(QueuedOf(p)) <= MaxQueuedInTotal THEN {p}
    ELSE {DropQueued(p, s, Cardinality(QueuedOf(p)) - MaxQueuedInTotal) :
             s \in Descending({a \in Accounts : p[a].queue # {}}, LAMBDA a : p[a].beat)}

Promoted(p) ==
    [a \in Accounts |-> PromoteExecutable(p[a], chainNonce[a], balance[a], clock, MaxQueuedPerAccount)]

PromoteExecutables(p) == UNION {CapQueue(q) : q \in CapPending(Promoted(p))}

DemoteUnexecutables(p) == [a \in Accounts |-> DemoteUnexecutable(p[a], chainNonce[a], balance[a])]
------------------------------------------------------------------------------
\* Txs are well signed and pass the checks that depend on the transaction alone
\* (gas limit, value, intrinsic gas).
ValidateTx(t) ==
    /\ t \in localTx \/ Price[t] >= minGasPrice
    /\ Nonce[t] >= chainNonce[From[t]]
    /\ Cost[t] <= balance[From[t]]

Acceptable(p, t) == t \notin p[From[t]].all /\ ValidateTx(t)

Added(p, t) == [p EXCEPT ![From[t]] = Enqueue(@, {t})]

Add(t) ==
    /\ Acceptable(acct, t)
    /\ acct' \in PromoteExecutables(Added(acct, t))
    /\ UNCHANGED <<chain, minGasPrice, locals, clock>>

\* AddBatch promotes whether or not any transaction was accepted.
AddBatch(txs) ==
    LET added == FoldLeft(LAMBDA p, t : IF Acceptable(p, t) THEN Added(p, t) ELSE p, acct, txs)
    IN  /\ acct' \in PromoteExecutables(added)
        /\ UNCHANGED <<chain, minGasPrice, locals, clock>>

RemoveHash(t) ==
    /\ acct' = [acct EXCEPT ![From[t]] = RemoveTx(@, t)]
    /\ UNCHANGED <<chain, minGasPrice, locals, clock>>

RemoveBatch(txs) ==
    /\ acct' = FoldLeft(LAMBDA p, t : [p EXCEPT ![From[t]] = RemoveTx(@, t)], acct, txs)
    /\ UNCHANGED <<chain, minGasPrice, locals, clock>>

\* The miner asks for transactions: the lists are brought up to date with the chain,
\* the pending nonces are not.
Pending ==
    /\ \E p \in PromoteExecutables(acct) : acct' = DemoteUnexecutables(p)
    /\ UNCHANGED <<chain, minGasPrice, locals, clock>>

\* The nonce after the last pending transaction.
LatestNonce(r) ==
    IF r.pending = {} THEN r.nonce
    ELSE (CHOOSE n \in {Nonce[t] : t \in r.pending} : \A t \in r.pending : Nonce[t] <= n) + 1

\* ChainHeadEvent: resetState.
ResetState ==
    LET managed == [a \in Accounts |-> [acct[a] EXCEPT !.nonce = chainNonce[a]]]
        demoted == DemoteUnexecutables(managed)
        updated == [a \in Accounts |-> [demoted[a] EXCEPT !.nonce = LatestNonce(demoted[a])]]
    IN  /\ acct' \in PromoteExecutables(updated)
        /\ UNCHANGED <<chain, minGasPrice, locals, clock>>

GasPriceChanged(price) ==
    /\ minGasPrice' = price
    /\ UNCHANGED <<acct, chain, locals, clock>>

\* txSet.add, and with it every entry older than TxSetDuration is dropped, even one whose
\* transaction has been marked again since.
SetLocal(t) ==
    LET ord == Append(localOrd, [tx |-> t, time |-> clock])
        Old(e) == e.time < clock - TxSetDuration
    IN  /\ Len(localOrd) < MaxLocal
        /\ localTx' = (localTx \cup {t}) \ {e.tx : e \in {x \in Range(ord) : Old(x)}}
        /\ localOrd' = SelectSeq(ord, LAMBDA e : ~Old(e))
        /\ UNCHANGED <<acct, chain, minGasPrice, clock>>

\* time.Since of an account without a heartbeat is longer than any lifetime.
Expired(r) == r.beat = Never \/ clock - r.beat > MaxQueuedLifetime

\* expirationLoop.
Evict ==
    /\ acct' = [a \in Accounts |-> IF Expired(acct[a]) THEN RemoveAll(acct[a], Flatten(acct[a].queue)) ELSE acct[a]]
    /\ UNCHANGED <<chain, minGasPrice, locals, clock>>

\* A new head, by extension or by reorganisation, changes an account.
NewHead(a, n, b) ==
    /\ chainNonce' = [chainNonce EXCEPT ![a] = n]
    /\ balance' = [balance EXCEPT ![a] = b]
    /\ UNCHANGED <<acct, minGasPrice, locals, clock>>

Tick ==
    /\ clock < MaxClock /\ clock' = clock + 1
    /\ UNCHANGED <<acct, chain, minGasPrice, locals>>

Next ==
    \/ \E t \in Txs : Add(t) \/ RemoveHash(t)
    \/ \E t \in Locals : SetLocal(t)
    \/ \E txs \in Batches : AddBatch(txs) \/ RemoveBatch(txs)
    \/ Pending \/ ResetState \/ Evict
    \/ \E price \in Prices : GasPriceChanged(price)
    \/ \E a \in Moving, n \in Nonces, b \in Balances : NewHead(a, n, b)
    \/ Tick

Spec == Init /\ [][Next]_vars
------------------------------------------------------------------------------
\* An account has a heartbeat exactly while it has pending transactions.
BeatIffPending == \A a \in Accounts : acct[a].beat # Never <=> acct[a].pending # {}

UniqueNonces(list) == \A t, u \in list : Nonce[t] = Nonce[u] => t = u

\* Demotion, replacement and removal move transactions between the lists by nonce and
\* forget them by hash.  Still a list has one transaction of a nonce, no transaction is in
\* both lists, and what is in a list can be looked up in pool.all (else it could be
\* accepted and relayed twice).
ListsConsistent ==
    \A a \in Accounts : /\ acct[a].pending \cup acct[a].queue \subseteq acct[a].all
                        /\ acct[a].pending \cap acct[a].queue = {}
                        /\ UniqueNonces(acct[a].pending) /\ UniqueNonces(acct[a].queue)

\* "Price of the highest costing transaction (reset only if exceeds balance)"
\* (tx_list.go:223): costcap bounds every cost, which the short cut of Filter needs.
CostCapBounds ==
    \A a \in Accounts : /\ \A t \in acct[a].pending : Cost[t] <= acct[a].pcap
                        /\ \A t \in acct[a].queue : Cost[t] <= acct[a].qcap

\* The bookkeeping the pool's operations rely on, between any two of them.
PoolConsistent == TypeOK /\ ListsConsistent /\ CostCapBounds /\ BeatIffPending

Settled ==
    \A a \in Accounts : \A t \in acct[a].pending \cup acct[a].queue : Nonce[t] >= chainNonce[a] /\ Cost[t] <= balance[a]

\* After a reset no list holds a transaction that is already on the chain or
\* that its sender cannot pay for.
ResetSettles == [][Settled' \/ ~ResetState]_vars

Exempt(p, a) == Cardinality(p[a].pending) <= MinPendingPerAccount \/ p[a].pending \cap localTx # {}

\* "Max limit of pending transactions from all accounts (soft)" (tx_pool.go:52), "penalize
\* large transactors first" (:560): if the promotion after Add exceeds the limit, then
\* afterwards either the total fits or every account with more than its guaranteed slots has
\* local transactions; no guaranteed slot was taken; and no account was cut below the
\* size of one that was spared without being exempt.
PendingLimit ==
    \A t \in {x \in Txs : Acceptable(acct, x)} :
        LET p == Promoted(Added(acct, t))
        IN  \A q \in CapPending(p) :
                /\ Cardinality(PendingOf(q)) <= MaxPendingTotal \/ \A a \in Accounts : Exempt(q, a) \/ Exempt(p, a)
                /\ \A a \in Accounts : q[a].pending # p[a].pending =>
                      /\ Cardinality(q[a].pending) >= MinPendingPerAccount
                      /\ \A b \in Accounts : \/ Exempt(p, b)
                                             \/ Cardinality(q[b].pending) <= Cardinality(q[a].pending)

\* "moving all subsequent transactions back to the future queue" (removeTx,
\* tx_pool.go:467): what was pending above a removed transaction is queued, or a
\* better transaction of its nonce is.
SubsequentRequeued ==
    [][\A t \in Txs : (RemoveHash(t) /\ t \in acct[From[t]].pending) =>
          \A u \in acct[From[t]].pending :
              Nonce[u] > Nonce[t] => \E v \in acct'[From[t]].queue : Nonce[v] = Nonce[u]]_vars
==============================================================================
