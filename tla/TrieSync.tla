------------------------------ MODULE TrieSync -------------------------------
(***************************************************************************)
(* trie/sync.go and core/state/sync.go: the scheduler that downloads a     *)
(* state trie from its root.  A node whose references are incomplete is    *)
(* kept in memory; it is written when the last of them is, so that the     *)
(* presence of a node in the database means that all below it is there.    *)
(* A node references its child nodes and, through the callback on account  *)
(* leaves, storage tries and contract code (Raw).  Hashes are distinct.    *)
(***************************************************************************)
EXTENDS Naturals, FiniteSets, FiniteSetsExt

CONSTANTS
    Hashes,
    Raw,    \* contract code
    Refs    \* what a node references: children, storage roots, code

ASSUME TrieAssumption ==
    /\ Raw \subseteq Hashes /\ Refs \in [Hashes -> SUBSET Hashes]
    /\ \A h \in Raw : Refs[h] = {}

\* parents counts the references: a node delivered twice links its children twice.
NoRequest == [live |-> FALSE, data |-> FALSE, deps |-> 0, parents |-> [h \in Hashes |-> 0]]

NoSync == [root |-> "nil", requests |-> [h \in Hashes |-> NoRequest], queue |-> {}]

Pending(sync) == {h \in Hashes : sync.requests[h].live}

\* NewTrieSync with AddSubTrie of the root.
NewTrieSync(root, db) ==
    IF root \in db THEN [NoSync EXCEPT !.root = root]
    ELSE [root |-> root, requests |-> [NoSync.requests EXCEPT ![root].live = TRUE], queue |-> {root}]

\* The nodes S are requested for parent; one that is pending gets another reference.
schedule(sync, S, parent) ==
    [sync EXCEPT !.queue = @ \cup (S \ Pending(sync)),
                 !.requests = [h \in Hashes |->
                     IF h \in S THEN [@[h] EXCEPT !.live = TRUE, !.parents[parent] = @ + 1] ELSE @[h]]]

\* The nodes that are written with h: h, and the parents that it completes.  The batch is
\* written as a whole.
RECURSIVE commit(_, _)
commit(st, h) ==
    LET parents == st.sync.requests[h].parents
        after == [db |-> st.db \cup {h},
                  sync |-> [st.sync EXCEPT !.requests = [p \in Hashes |->
                      IF p = h THEN NoRequest ELSE [@[p] EXCEPT !.deps = @ - parents[p]]]]]
        ready == {p \in Hashes : parents[p] > 0 /\ after.sync.requests[p].deps = 0} IN
    FoldSet(LAMBDA p, acc : commit(acc, p), after, ready)

\* Mutant: the dependencies that the leaf callback has added are not looked at.
BadProcess(st, h) ==
    LET missing == Refs[h] \ st.db
        linked == schedule([st.sync EXCEPT !.requests[h].data = TRUE,
                                           !.requests[h].deps = @ + Cardinality(missing)], missing, h) IN
    IF missing \subseteq Raw THEN commit([db |-> st.db, sync |-> linked], h)
    ELSE [db |-> st.db, sync |-> linked]

\* Process for one item, of a pending request.
Process(st, h) ==
    LET missing == Refs[h] \ st.db
        linked == schedule([st.sync EXCEPT !.requests[h].data = TRUE,
                                           !.requests[h].deps = @ + Cardinality(missing)], missing, h) IN
    IF linked.requests[h].deps = 0 THEN commit([db |-> st.db, sync |-> linked], h)
    ELSE [db |-> st.db, sync |-> linked]

\* Missing(max): the deepest first, which is left open here.
Missing(sync, max) ==
    {S \in SUBSET sync.queue : Cardinality(S) = Min({max, Cardinality(sync.queue)})}
==============================================================================
