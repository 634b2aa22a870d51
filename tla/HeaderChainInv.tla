---------------------------- MODULE HeaderChainInv ----------------------------
(***************************************************************************)
(* The inductive invariant of HeaderChain, and its preservation outside    *)
(* the number index: types, stored headers and their total difficulties,   *)
(* the head and the locks.  HeaderChainProofs carries on with the index.   *)
(***************************************************************************)
EXTENDS HeaderChain, SequenceTheorems, TLAPS

(***************************************************************************)
(* The inductive invariant.  What is stored is closed under Parent, so the *)
(* overwrite loop never meets a missing header.                            *)
(***************************************************************************)
StoreInv ==
    /\ Genesis \in headers
    /\ \A b \in headers : td[b] \in Nat
    /\ \A b \in headers \ {Genesis} : /\ Parent[b] \in headers
                                      /\ td[b] = td[Parent[b]] + Difficulty[b]
    /\ \A b \in Blocks : td[b] # None => b \in headers \/ (pc = "header" /\ b = hdr)

HeadInv == currentHeader \in headers /\ headHeader = currentHeader

IndexInv ==
    /\ canon[0] = Genesis
    /\ canon[MaxNumber + 1] = None
    /\ \A n \in Numbers : canon[n] # None => canon[n] \in headers /\ Number[canon[n]] = n

\* The index is a chain without holes on the numbers lo .. hi.
Linked(lo, hi) ==
    \A n \in Numbers : lo < n /\ n <= hi /\ canon[n] # None =>
        /\ canon[n - 1] = Parent[canon[n]]
        /\ \A m \in Numbers : lo <= m /\ m < n => canon[m] # None

EmptyAbove(k) == \A n \in Numbers : n > k => canon[n] = None

FilledBelow(k) == \A n \in Numbers : n < k => canon[n] # None

\* The header being written is the first of the batch and its parent is stored.
WriteInv ==
    pc \in Writing =>
        /\ batch # << >> /\ hdr = Head(batch) /\ hdr # Genesis
        /\ Parent[hdr] \in headers
        /\ td[hdr] = td[Parent[hdr]] + Difficulty[hdr]
        /\ pc # "header" => hdr \in headers /\ td[hdr] >= td[currentHeader]

\* A reader under LockChain excludes the importer.
LockInv == reader => batch = << >>

RestInv ==
    pc \in {"idle", "header", "rollback"} =>
        Linked(0, MaxNumber + 1) /\ canon[Number[currentHeader]] = currentHeader

PruneInv ==
    pc = "prune" =>
        /\ idx > Number[hdr]
        /\ Linked(0, Number[hdr])
        /\ Linked(idx, MaxNumber + 1)
        /\ \A n \in Numbers : Number[hdr] < n /\ n < idx => canon[n] = None

\* Overwritten entries form a chain that hangs from the parent of hdr and ends at ptr.
RelinkInv ==
    pc = "relink" =>
        /\ EmptyAbove(Number[hdr])
        /\ ptr \in headers /\ Number[ptr] = idx /\ idx < Number[hdr]
        /\ Linked(0, idx)
        /\ \A n \in Numbers : idx < n /\ n < Number[hdr] =>
               /\ canon[n] # None
               /\ Parent[canon[n]] = IF n - 1 = idx THEN ptr ELSE canon[n - 1]
        /\ Parent[hdr] = IF idx = Number[hdr] - 1 THEN ptr ELSE canon[Number[hdr] - 1]

CanonInv ==
    pc = "canon" =>
        /\ EmptyAbove(Number[hdr])
        /\ Linked(0, Number[hdr] - 1)
        /\ FilledBelow(Number[hdr])
        /\ canon[Number[hdr] - 1] = Parent[hdr]

HeadStepInv ==
    pc = "head" =>
        /\ canon[Number[hdr]] = hdr
        /\ Linked(0, MaxNumber + 1)

Inv ==
    /\ TypeOK
    /\ StoreInv /\ HeadInv /\ IndexInv
    /\ pc \in Writing \cup {"idle", "rollback"}
    /\ LockInv /\ WriteInv /\ RestInv /\ PruneInv /\ RelinkInv /\ CanonInv /\ HeadStepInv
------------------------------------------------------------------------------
(* What the assumptions on the block tree say of a single block.             *)
LEMMA TreeFacts ==
    ASSUME NEW b \in Blocks
    PROVE  /\ Number[b] \in Nat /\ Number[b] <= MaxNumber /\ Number[b] \in Numbers
           /\ Difficulty[b] \in Nat
           /\ b # None
           /\ b # Genesis => /\ Parent[b] \in Blocks
                             /\ Number[b] = Number[Parent[b]] + 1
                             /\ Number[b] # 0
                             /\ Number[b] - 1 \in Numbers
BY TreeAssumption, NoneAssumption DEF Numbers

LEMMA NumberFacts ==
    /\ MaxNumber \in Nat
    /\ MaxNumber + 1 \in Numbers
    /\ 0 \in Numbers
    /\ Genesis \in Blocks /\ Number[Genesis] = 0
    /\ \A n \in Numbers : n \in Nat /\ n <= MaxNumber + 1
    /\ None \notin Nat /\ None \notin Blocks
BY TreeAssumption, NoneAssumption DEF Numbers

(* Head, last and rest of a non-empty sequence.                              *)
LEMMA SeqFacts ==
    ASSUME NEW S, NEW s \in Seq(S)
    PROVE  /\ << >> \in Seq(S)
           /\ s # << >> => /\ Head(s) \in S
                           /\ Tail(s) \in Seq(S)
                           /\ s[Len(s)] \in S
                           /\ SubSeq(s, 1, Len(s) - 1) \in Seq(S)
<1>1. s # << >> => Len(s) \in 1 .. Len(s) /\ Len(s) \in Nat
  BY EmptySeq
<1>2. s # << >> => Head(s) \in S /\ Tail(s) \in Seq(S)
  BY HeadTailProperties
<1>3. s # << >> => s[Len(s)] \in S
  BY <1>1, ElementOfSeq
<1>4. s # << >> => SubSeq(s, 1, Len(s) - 1) \in Seq(S)
  BY <1>1, SubSeqProperties
<1> QED
  BY <1>2, <1>3, <1>4, EmptySeq

(* The opened genesis database satisfies the invariant.                      *)
LEMMA InitInv == Init => Inv
<1> SUFFICES ASSUME Init PROVE Inv
  OBVIOUS
<1> USE TreeAssumption, NoneAssumption
<1>1. TypeOK
  <2>1. td \in [Blocks -> Nat \cup {None}] /\ canon \in [Numbers -> Blocks \cup {None}]
    BY DEF Init
  <2>2. << >> \in Seq(Blocks \ {Genesis})
    BY EmptySeq
  <2>3. /\ headers \subseteq Blocks /\ headHeader \in Blocks /\ currentHeader \in Blocks
        /\ interrupted \in BOOLEAN /\ reader \in BOOLEAN
        /\ pc = "idle" /\ hdr \in Blocks /\ ptr = None /\ idx \in Numbers /\ lim \in Numbers
    BY NumberFacts, Zenon DEF Init
  <2>4. batch \in Seq(Blocks \ {Genesis}) /\ links \in Seq(Blocks \ {Genesis})
    BY <2>2 DEF Init
  <2> QED
    BY <2>1, <2>3, <2>4 DEF TypeOK
<1>2. HeadInv /\ IndexInv
  BY DEF Init, HeadInv, IndexInv, Numbers
<1>5. StoreInv
  BY Zenon DEF Init, StoreInv
<1>3. WriteInv /\ PruneInv /\ RelinkInv /\ CanonInv /\ HeadStepInv
  BY DEF Init, WriteInv, PruneInv, RelinkInv, CanonInv, HeadStepInv, Writing
<1>4. RestInv /\ LockInv
  BY DEF Init, RestInv, LockInv, Linked, Numbers
<1> QED
  BY <1>1, <1>2, <1>3, <1>4, <1>5 DEF Inv, Init

(* Every step keeps the variables in their types.                            *)
LEMMA TypeStep == Inv /\ [Next]_vars => TypeOK'
<1> SUFFICES ASSUME Inv, [Next]_vars PROVE TypeOK'
  OBVIOUS
<1> USE NumberFacts DEF Inv, TypeOK, Writing, Rewinding
<1>1. ASSUME NEW chain \in Chains, InsertHeaderChain(chain) PROVE TypeOK'
  BY <1>1, ChainsAssumption DEF InsertHeaderChain, db, loop
<1>2. ASSUME NEW chain \in Chains, Rollback(chain) PROVE TypeOK'
  BY <1>2, ChainsAssumption DEF Rollback, db, loop
<1>3. CASE SkipKnown \/ AbortBatch
  <2>1. << >> \in Seq(Blocks \ {Genesis})
    BY EmptySeq
  <2>2. batch # << >> => Tail(batch) \in Seq(Blocks \ {Genesis})
    BY SeqFacts
  <2> QED
    BY <1>3, <2>1, <2>2, Zenon DEF SkipKnown, AbortBatch, db, loop
<1>4. ASSUME NEW h \in Blocks, ParentUnknown(h) PROVE TypeOK'
  BY <1>4 DEF ParentUnknown, db, loop
<1>5. ASSUME NEW h \in Blocks, WriteTd(h) PROVE TypeOK'
  <2>1. h # Genesis
    BY <1>5, SeqFacts DEF WriteTd, WriteHeaderReady
  <2>2. ExternTd(h) \in Nat
    BY <1>5, <2>1, TreeFacts DEF WriteTd, ExternTd
  <2> QED
    BY <1>5, <2>2 DEF WriteTd
<1>6. ASSUME NEW coin \in BOOLEAN, WriteHeader(coin) PROVE TypeOK'
  <2>1. Tail(batch) \in Seq(Blocks \ {Genesis})
    BY <1>6, SeqFacts DEF WriteHeader, WriteInv
  <2>2. Number[hdr] + 1 \in Numbers
    BY TreeFacts DEF Numbers
  <2> QED
    BY <1>6, <2>1, <2>2, Zenon DEF WriteHeader, Return
<1>7. CASE PruneCanon
  BY <1>7 DEF PruneCanon, IndexInv, Numbers
<1>8. CASE PruneDone
  BY <1>8, TreeFacts, SMTT(30) DEF PruneDone, db, WriteInv
<1>9. CASE Relink
  <2>1. Number[ptr] # 0
    BY <1>9, TreeFacts, TreeAssumption DEF Relink, RelinkInv, IndexInv
  <2>2. ptr # Genesis /\ Parent[ptr] \in Blocks /\ idx - 1 \in Numbers
    BY <1>9, <2>1, TreeFacts DEF Relink, RelinkInv, StoreInv
  <2> QED
    BY <1>9, <2>2 DEF Relink
<1>10. CASE RelinkDone
  BY <1>10 DEF RelinkDone, db, loop
<1>11. CASE WriteCanonicalHash
  BY <1>11, SMTT(30) DEF WriteCanonicalHash, loop
<1>12. CASE WriteHeadHeaderHash
  BY <1>12 DEF WriteHeadHeaderHash, WriteInv, Return
<1>13. CASE RollbackLink
  <2>1. links[Len(links)] \in Blocks \ {Genesis}
        /\ SubSeq(links, 1, Len(links) - 1) \in Seq(Blocks \ {Genesis})
    BY <1>13, SeqFacts DEF RollbackLink
  <2> QED
    BY <1>13, <2>1, TreeFacts, Zenon DEF RollbackLink, loop
<1>14. CASE RollbackDone
  BY <1>14 DEF RollbackDone, Return, db
<1>15. CASE LockChain \/ UnlockChain \/ Stop
  BY <1>15, Zenon DEF LockChain, UnlockChain, Stop, db, loop
<1>16. CASE Restart
  BY <1>16, Zenon DEF Restart, Reload, Return, db
<1>17. CASE UNCHANGED vars
  BY <1>17 DEF vars
<1> QED
  BY Zenon, <1>1, <1>2, <1>3, <1>4, <1>5, <1>6, <1>7, <1>8, <1>9, <1>10, <1>11, <1>12, <1>13,
     <1>14, <1>15, <1>16, <1>17
     DEF Next, ImportNext, ImportStep, WriteHeaderStep, RollbackStep

(* A stored block keeps its stored parent and its total difficulty.          *)
LEMMA StoreStep == Inv /\ [Next]_vars => StoreInv' /\ HeadInv'
<1> SUFFICES ASSUME Inv, [Next]_vars PROVE StoreInv' /\ HeadInv'
  OBVIOUS
<1> USE DEF Inv
<1>1. ASSUME NEW h \in Blocks, WriteTd(h) PROVE StoreInv' /\ HeadInv'
  <2>1. h # Genesis /\ h \notin headers
    BY <1>1, SeqFacts DEF WriteTd, WriteHeaderReady, TypeOK, HasHeader
  <2>2. td' = [td EXCEPT ![h] = ExternTd(h)] /\ headers' = headers /\ pc = "idle"
        /\ pc' = "header" /\ hdr' = h
    BY <1>1 DEF WriteTd, WriteHeaderReady
  <2> QED
    BY <1>1, <2>1, <2>2, TreeFacts DEF WriteTd, StoreInv, HeadInv, TypeOK
<1>2. ASSUME NEW coin \in BOOLEAN, WriteHeader(coin) PROVE StoreInv' /\ HeadInv'
  <2>1. hdr \in Blocks /\ hdr # Genesis /\ Parent[hdr] \in headers
        /\ td[hdr] = td[Parent[hdr]] + Difficulty[hdr] /\ Difficulty[hdr] \in Nat
    BY <1>2, TreeFacts DEF WriteHeader, WriteInv, Writing, TypeOK
  <2>2. headers' = headers \cup {hdr} /\ td' = td /\ pc = "header" /\ pc' # "header"
        /\ currentHeader' = currentHeader /\ headHeader' = headHeader
    BY <1>2 DEF WriteHeader, Return
  <2> QED
    BY <2>1, <2>2 DEF StoreInv, HeadInv
<1>3. CASE WriteHeadHeaderHash
  BY <1>3 DEF WriteHeadHeaderHash, StoreInv, HeadInv, WriteInv, Writing, Return
<1>4. CASE RollbackLink
  BY <1>4 DEF RollbackLink, StoreInv, HeadInv, HasHeader, loop
<1>5. CASE Restart
  BY <1>5 DEF Restart, Reload, Return, db, StoreInv, HeadInv, HasHeader
<1>6. ASSUME /\ headers' = headers /\ td' = td /\ headHeader' = headHeader
             /\ currentHeader' = currentHeader
             /\ pc = "header" => pc' = "header" /\ hdr' = hdr
      PROVE  StoreInv' /\ HeadInv'
  BY <1>6 DEF StoreInv, HeadInv
<1>7. CASE \E chain \in Chains : InsertHeaderChain(chain) \/ Rollback(chain)
  BY <1>6, <1>7 DEF InsertHeaderChain, Rollback, db, loop
<1>8. CASE SkipKnown \/ AbortBatch \/ \E h \in Blocks : ParentUnknown(h)
  BY <1>6, <1>8 DEF SkipKnown, AbortBatch, ParentUnknown, db, loop
<1>9. CASE PruneCanon \/ PruneDone \/ Relink \/ RelinkDone \/ WriteCanonicalHash
  BY <1>6, <1>9 DEF PruneCanon, PruneDone, Relink, RelinkDone, WriteCanonicalHash, db, loop
<1>10. CASE RollbackDone \/ LockChain \/ UnlockChain \/ Stop \/ UNCHANGED vars
  BY <1>6, <1>10 DEF RollbackDone, LockChain, UnlockChain, Stop, vars, db, loop
<1> QED
  BY <1>1, <1>2, <1>3, <1>4, <1>5, <1>7, <1>8, <1>9, <1>10
     DEF Next, ImportNext, ImportStep, WriteHeaderStep, RollbackStep

(* LockChain waits for the importer and the importer for UnlockChain.        *)
LEMMA LockStep == Inv /\ [Next]_vars => LockInv'
<1> SUFFICES ASSUME Inv, [Next]_vars PROVE LockInv'
  OBVIOUS
<1> USE DEF Inv, LockInv
<1>1. CASE \E chain \in Chains : InsertHeaderChain(chain) \/ Rollback(chain)
  BY <1>1, Zenon DEF InsertHeaderChain, Rollback
<1>2. CASE \/ SkipKnown \/ AbortBatch
           \/ \E h \in Blocks : ParentUnknown(h) \/ WriteTd(h)
  BY <1>2, Zenon DEF SkipKnown, AbortBatch, ParentUnknown, WriteTd, WriteHeaderReady
<1>3. CASE WriteHeaderStep
  BY <1>3, Zenon DEF WriteHeaderStep, WriteHeader, PruneCanon, PruneDone, Relink, RelinkDone,
              WriteCanonicalHash, WriteHeadHeaderHash, WriteInv, Writing
<1>4. CASE RollbackStep
  BY <1>4, Zenon DEF RollbackStep, RollbackLink, RollbackDone
<1>5. CASE LockChain \/ UnlockChain \/ Stop \/ Restart \/ UNCHANGED vars
  BY <1>5, Zenon DEF LockChain, UnlockChain, Stop, Restart, Reload, vars
<1> QED
  BY <1>1, <1>2, <1>3, <1>4, <1>5 DEF Next, ImportNext, ImportStep
==============================================================================
