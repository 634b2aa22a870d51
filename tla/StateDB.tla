------------------------------- MODULE StateDB -------------------------------
(***************************************************************************)
(* core/state: the account trie, the live objects over it, the set of      *)
(* dirty addresses, and the journal with which RevertToSnapshot undoes     *)
(* changes.  A StateDB is one record s, and an operation a function of it. *)
(* An account's storage is one slot; its code is a value.  Commit ends a   *)
(* block, and only Reset may follow it.                                    *)
(***************************************************************************)
EXTENDS Integers, Sequences, FiniteSets, SequencesExt

CONSTANTS
    Addrs,
    Ripemd,       \* the precompile whose touch is not undone
    Fields,       \* the fields set by SetNonce, SetCode and SetState
    MaxBalance,   \* bound on balances
    MaxJournal,   \* bound on the journal
    MaxRevisions, \* bound on the nesting of snapshots
    MaxLogs,      \* bound on the logs and refunds of a transaction
    DeleteEmpty,  \* the block is under the rules of EIP158
    InitTries     \* the account tries a block may start from

Blank == [balance |-> 0, nonce |-> 0, code |-> 0, slot |-> 0]
Absent == [Blank EXCEPT !.balance = -1]

\* armed: onDirty is set, the next change marks the object dirty.
NewObject(data) ==
    [data |-> data, suicided |-> FALSE, touched |-> FALSE, deleted |-> FALSE, armed |-> TRUE]
None == NewObject(Absent)

VARIABLES
    s,       \* the StateDB
    phase,   \* "open", "committed", or "tracing" for a state that is never written
    lost     \* history: addresses whose object an undo dropped with changes not in the trie

vars == <<s, phase, lost>>

Opened(trie) ==
    [trie |-> trie, objects |-> [a \in Addrs |-> None], dirty |-> {}, journal |-> << >>,
     revisions |-> << >>, refund |-> 0, logs |-> 0, panic |-> FALSE]

Init ==
    /\ s \in {Opened(trie) : trie \in InitTries}
    /\ phase \in {"open", "tracing"}
    /\ lost = {}
------------------------------------------------------------------------------
\* GetStateObject: a live object, or one loaded from the trie.
Load(st, a) ==
    IF st.objects[a] = None /\ st.trie[a] # Absent
    THEN [st EXCEPT !.objects[a] = NewObject(st.trie[a])] ELSE st

Exists(st, a) == LET o == Load(st, a).objects[a] IN o # None /\ ~o.deleted

\* The changed object replaces the old one and calls onDirty once.
Put(st, a, o) ==
    [st EXCEPT !.objects[a] = [o EXCEPT !.armed = FALSE],
               !.dirty = IF o.armed THEN @ \cup {a} ELSE @]

Log(st, e) == [st EXCEPT !.journal = Append(@, e)]
Entry(op, a, prev) == [op |-> op, addr |-> a, prev |-> prev]

createObject(st, a) ==
    LET prev == Load(st, a).objects[a] IN
    Put(Log(Load(st, a), IF Exists(st, a) THEN Entry("reset", a, prev) ELSE Entry("create", a, None)),
        a, NewObject(Blank))

GetOrNew(st, a) == IF Exists(st, a) THEN Load(st, a) ELSE createObject(st, a)

\* Mutant: the change is journalled before the object is created.
BadSet(st, a, f, v) ==
    LET new == GetOrNew(Log(st, Entry(f, a, 0)), a) IN
    Put(new, a, [new.objects[a] EXCEPT !.data[f] = v])

\* A journalled change of one field: balanceChange, nonceChange, codeChange, storageChange.
Set(st, a, f, v) ==
    LET new == GetOrNew(st, a)
        o == new.objects[a] IN
    Put(Log(new, Entry(f, a, o.data[f])), a, [o EXCEPT !.data[f] = v])

empty(o) == o.data.nonce = 0 /\ o.data.balance = 0 /\ o.data.code = 0

touch(st, a) ==
    LET o == st.objects[a] IN
    Put(Log(st, Entry("touch", a, o.touched)), a, [o EXCEPT !.touched = TRUE])

Balance(st, a) == GetOrNew(st, a).objects[a].data.balance

AddBalance(st, a, amount) ==
    LET new == GetOrNew(st, a) IN
    IF amount > 0 THEN Set(new, a, "balance", Balance(new, a) + amount)
    ELSE IF empty(new.objects[a]) THEN touch(new, a)
    ELSE new

SubBalance(st, a, amount) ==
    LET new == GetOrNew(st, a) IN
    IF amount > 0 THEN Set(new, a, "balance", Balance(new, a) - amount) ELSE new

\* Mutant: the balance is cleared before it is journalled.
BadSuicide(st, a) ==
    LET o == [Load(st, a).objects[a] EXCEPT !.data.balance = 0] IN
    IF ~Exists(st, a) THEN Load(st, a)
    ELSE Put(Log(Load(st, a), Entry("suicide", a, <<o.suicided, o.data.balance>>)), a,
             [o EXCEPT !.suicided = TRUE])

Suicide(st, a) ==
    LET o == Load(st, a).objects[a] IN
    IF ~Exists(st, a) THEN Load(st, a)
    ELSE Put(Log(Load(st, a), Entry("suicide", a, <<o.suicided, o.data.balance>>)), a,
             [o EXCEPT !.suicided = TRUE, !.data.balance = 0])

\* The balance is carried over to the new account.
CreateAccount(st, a) ==
    LET new == createObject(st, a) IN
    IF Exists(st, a) THEN [new EXCEPT !.objects[a].data.balance = Load(st, a).objects[a].data.balance]
    ELSE new

AddRefund(st) == [Log(st, Entry("refund", Ripemd, st.refund)) EXCEPT !.refund = @ + 1]

\* The logs of the transaction.
AddLog(st) == [Log(st, Entry("log", Ripemd, 0)) EXCEPT !.logs = @ + 1]
------------------------------------------------------------------------------
\* What a caller sees of account a.
View(st, a) ==
    LET o == st.objects[a] IN
    IF o = None THEN [data |-> st.trie[a], suicided |-> FALSE]
    ELSE IF o.deleted THEN [data |-> Absent, suicided |-> FALSE]
    ELSE [data |-> o.data, suicided |-> o.suicided]

\* Mutant: the dirty mark stays.
BadDrop(st, a) == [st EXCEPT !.objects[a] = None]

Drop(st, a) == [st EXCEPT !.objects[a] = None, !.dirty = @ \ {a}]

\* The change of a live object; without one the code dereferences nil.
Restore(st, a, o) == IF Exists(st, a) THEN Put(st, a, o) ELSE [st EXCEPT !.panic = TRUE]

undo(st, e) ==
    LET a == e.addr
        o == Load(st, a).objects[a] IN
    CASE e.op = "create" -> Drop(st, a)
      [] e.op = "reset" -> [st EXCEPT !.objects[a] = e.prev]
      [] e.op = "suicide" -> IF ~Exists(st, a) THEN Load(st, a)
                             ELSE Put(Load(st, a), a, [o EXCEPT !.suicided = e.prev[1],
                                                               !.data.balance = e.prev[2]])
      [] e.op = "touch" -> IF ~e.prev /\ a # Ripemd THEN Drop(st, a) ELSE st
      [] e.op = "refund" -> [st EXCEPT !.refund = e.prev]
      [] e.op = "log" -> [st EXCEPT !.logs = @ - 1]
      [] OTHER -> Restore(Load(st, a), a, [o EXCEPT !.data[e.op] = e.prev])

RevertTo(st, index) == FoldLeft(undo, st, Reverse(SubSeq(st.journal, index + 1, Len(st.journal))))

\* The next transaction has logs of its own (StartRecord).
clearJournalAndRefund(st) ==
    [st EXCEPT !.journal = << >>, !.revisions = << >>, !.refund = 0, !.logs = 0]

\* The object is written to the trie or deleted from it.
Deletes(o) == o.suicided \/ (DeleteEmpty /\ empty(o))

Flush(st, S) ==
    [st EXCEPT !.trie = [a \in Addrs |-> IF a \notin S THEN st.trie[a]
                                         ELSE IF Deletes(st.objects[a]) THEN Absent
                                         ELSE st.objects[a].data],
               !.objects = [a \in Addrs |-> IF a \in S /\ Deletes(st.objects[a])
                                            THEN [st.objects[a] EXCEPT !.deleted = TRUE]
                                            ELSE st.objects[a]]]
------------------------------------------------------------------------------
Apply(st) == Len(st.journal) <= MaxJournal /\ s' = st /\ UNCHANGED <<phase, lost>>
Open == phase # "committed" /\ ~s.panic

\* One step of the EVM or of the block's processing on account a.
Change(a) ==
    /\ Open
    /\ \/ \E amount \in 0 .. 1 : Balance(s, a) + amount <= MaxBalance /\ Apply(AddBalance(s, a, amount))
       \/ \E amount \in 0 .. 1 : Balance(s, a) >= amount /\ Apply(SubBalance(s, a, amount))
       \/ \E f \in Fields : Apply(Set(s, a, f, 1))
       \/ Apply(Suicide(s, a))
       \/ Apply(CreateAccount(s, a))

Emit == Open /\ s.logs + s.refund < MaxLogs /\ (Apply(AddRefund(s)) \/ Apply(AddLog(s)))

\* With the revision goes, as history, what the caller sees now.  A second snapshot at the
\* same place of the journal would restore the same state: it is left out.
Snapshot ==
    /\ Open
    /\ Len(s.revisions) < MaxRevisions
    /\ s.revisions # << >> => Len(s.journal) > Last(s.revisions).journalIndex
    /\ s' = [s EXCEPT !.revisions =
                 Append(@, [journalIndex |-> Len(s.journal), view |-> [a \in Addrs |-> View(s, a)],
                            refund |-> s.refund, logs |-> s.logs])]
    /\ UNCHANGED <<phase, lost>>

\* The addresses whose object is dropped by an undo although the transaction changed it
\* before, or the trie has something else.
LostBy(index) ==
    {a \in Addrs : \E i \in index + 1 .. Len(s.journal) :
        LET e == s.journal[i]
            before == RevertTo(s, i) IN
        /\ e.addr = a
        /\ \/ e.op = "create" /\ s.trie[a] # Absent
           \/ /\ e.op = "touch" /\ ~e.prev /\ a # Ripemd
              /\ \/ View(before, a) # View(undo(before, e), a)
                 \/ \E j \in 1 .. i - 1 : s.journal[j].addr = a}

RevertToSnapshot(i) ==
    /\ Open
    /\ LET index == s.revisions[i].journalIndex IN
       /\ s' = [RevertTo(s, index) EXCEPT !.journal = SubSeq(@, 1, index),
                                          !.revisions = SubSeq(@, 1, i - 1)]
       /\ lost' = lost \cup LostBy(index)
    /\ UNCHANGED phase

\* A transaction ends; the dirty set is kept for Commit.
IntermediateRoot ==
    /\ Open /\ phase = "open"
    /\ s' = IF \E a \in s.dirty : s.objects[a] = None THEN [s EXCEPT !.panic = TRUE]
            ELSE clearJournalAndRefund(Flush(s, s.dirty))
    /\ UNCHANGED <<phase, lost>>

\* TraceTransaction ends the transactions before the traced one with it.
DeleteSuicides ==
    /\ Open /\ phase = "tracing"
    /\ s' = [clearJournalAndRefund(s) EXCEPT
                 !.objects = [a \in Addrs |-> [s.objects[a] EXCEPT
                     !.deleted = @ \/ (a \in s.dirty /\ s.objects[a].suicided)]],
                 !.dirty = {}]
    /\ UNCHANGED <<phase, lost>>

Commit ==
    /\ Open /\ phase = "open"
    /\ s' = [clearJournalAndRefund(Flush(s, {a \in Addrs : s.objects[a] # None /\ (a \in s.dirty \/ s.objects[a].suicided)}))
                 EXCEPT !.dirty = {}]
    /\ phase' = "committed"
    /\ UNCHANGED lost

Reset ==
    /\ phase = "committed"
    /\ s' = Opened(s.trie)
    /\ phase' = "open" /\ lost' = {}

Next ==
    \/ \E a \in Addrs : Change(a)
    \/ Emit \/ Snapshot
    \/ \E i \in DOMAIN s.revisions : RevertToSnapshot(i)
    \/ IntermediateRoot \/ DeleteSuicides \/ Commit \/ Reset

Spec == Init /\ [][Next]_vars
------------------------------------------------------------------------------
(***************************************************************************)
(* "RevertToSnapshot reverts all state changes made since the given        *)
(* revision" and nothing else: every account is as it was at the snapshot, *)
(* whatever was created, replaced, emptied, touched or suicided since, and *)
(* so are the refund counter and the logs.  The exception is an account    *)
(* whose object was dropped (lost): touchChange.undo deletes the object    *)
(* with the changes made to it before the snapshot.                        *)
(***************************************************************************)
RevertRestores ==
    [][\A i \in DOMAIN s.revisions : Len(s'.revisions) < i /\ RevertToSnapshot(i) =>
          /\ \A a \in Addrs \ lost' : View(s', a) = s.revisions[i].view[a]
          /\ s'.refund = s.revisions[i].refund /\ s'.logs = s.revisions[i].logs]_vars

\* Commit writes the dirty objects only, and an object reports itself dirty only once: still
\* every account that differs from the trie is live and marked, through undone creations,
\* replaced objects and the end of a transaction.  Nothing of a block is lost at Commit.
DirtyCovers ==
    /\ phase = "open" =>
          \A a \in Addrs \ lost :
              View(s, a) # View(Opened(s.trie), a) => a \in s.dirty
    /\ \A a \in s.dirty : s.objects[a] # None

\* A journal entry is undone on the object it was made for: the code dereferences nil, and
\* the node crashes, only when touchChange.undo has dropped an object that the trie lacks.
UndoFinds == s.panic => lost # {}

\* "RevertToSnapshot reverts all state changes made since the given revision"
\* (statedb.go:500): the accounts are those of the snapshot.
RevertExact ==
    [][\A i \in DOMAIN s.revisions : Len(s'.revisions) < i /\ RevertToSnapshot(i) =>
          \A a \in Addrs : View(s', a) = s.revisions[i].view[a]]_vars
==============================================================================
