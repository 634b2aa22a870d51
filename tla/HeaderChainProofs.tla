-------------------------- MODULE HeaderChainProofs --------------------------
(***************************************************************************)
(* Proofs about HeaderChain for every block tree: under imports, rollbacks *)
(* and clean restarts the number index stays a chain that carries the head *)
(* and no nil header is ever dereferenced.                                 *)
(***************************************************************************)
EXTENDS HeaderChainInv

(* The number index outside and inside WriteHeader.                          *)
LEMMA IndexStep ==
    Inv /\ [Next]_vars /\ TypeOK' /\ StoreInv' /\ HeadInv' /\ LockInv' => Inv'
<1> SUFFICES ASSUME Inv, [Next]_vars, TypeOK', StoreInv', HeadInv', LockInv' PROVE Inv'
  OBVIOUS
<1> USE DEF Inv
<1>t. /\ headers \subseteq Blocks /\ td \in [Blocks -> Nat \cup {None}]
      /\ canon \in [Numbers -> Blocks \cup {None}]
      /\ batch \in Seq(Blocks \ {Genesis}) /\ links \in Seq(Blocks \ {Genesis})
      /\ hdr \in Blocks /\ ptr \in Blocks \cup {None} /\ idx \in Numbers
  BY DEF TypeOK
<1>1. ASSUME canon' = canon, headers' = headers, currentHeader' = currentHeader,
             pc' = pc, hdr' = hdr, ptr' = ptr, idx' = idx, td' = td,
             pc \in Writing => batch' = batch
      PROVE  Inv'
  <2>1. IndexInv' /\ WriteInv'
    BY <1>1 DEF IndexInv, WriteInv
  <2>2. RestInv' /\ HeadStepInv'
    BY <1>1 DEF RestInv, HeadStepInv, Linked
  <2>3. PruneInv'
    BY <1>1 DEF PruneInv, Linked
  <2>4. RelinkInv'
    BY <1>1 DEF RelinkInv, Linked, EmptyAbove
  <2>5. CanonInv'
    BY <1>1, SMTT(30) DEF CanonInv, Linked, EmptyAbove, FilledBelow
  <2> QED
    BY <1>1, <2>1, <2>2, <2>3, <2>4, <2>5
<1>2. ASSUME canon' = canon, headers' = headers, pc' \in {"idle", "rollback"},
             Linked(0, MaxNumber + 1),
             canon[Number[currentHeader']] = currentHeader'
      PROVE  Inv'
  BY <1>2, SMTT(30) DEF IndexInv, WriteInv, RestInv, PruneInv, RelinkInv, CanonInv, HeadStepInv,
              Linked, Writing
<1>3. CASE \E chain \in Chains : InsertHeaderChain(chain)
  BY <1>1, <1>3, Zenon DEF InsertHeaderChain, WriteInv, db, loop
<1>4. CASE SkipKnown \/ AbortBatch \/ \E h \in Blocks : ParentUnknown(h)
  BY <1>1, <1>4, Zenon DEF SkipKnown, AbortBatch, ParentUnknown, WriteHeaderReady, Writing, db, loop
<1>5. CASE LockChain \/ UnlockChain \/ Stop \/ UNCHANGED vars
  BY <1>1, <1>5, SMTT(30) DEF LockChain, UnlockChain, Stop, vars, db, loop
<1>6. CASE \E chain \in Chains : Rollback(chain)
  BY <1>2, <1>6, SMTT(30) DEF Rollback, RestInv, db, loop
<1>7. CASE RollbackDone
  BY <1>2, <1>7, SMTT(30) DEF RollbackDone, Return, RestInv, db
<1>8. CASE Restart
  BY <1>2, <1>8, SMTT(30) DEF Restart, Reload, Return, RestInv, HeadInv, HasHeader, db
<1>9. CASE RollbackLink
  <2>1. canon' = canon /\ headers' = headers /\ pc = "rollback"
    BY <1>9 DEF RollbackLink
  <2>2. links[Len(links)] \in Blocks \ {Genesis}
    BY <1>9, SeqFacts, <1>t DEF RollbackLink
  <2>3. CASE currentHeader' = currentHeader /\ pc' = pc
    BY <1>2, <2>1, <2>3 DEF RestInv
  <2>4. CASE currentHeader = links[Len(links)]
    <3>1. Parent[currentHeader] \in headers
      BY <2>2, <2>4 DEF StoreInv, HeadInv
    <3>2. currentHeader' = Parent[currentHeader] /\ pc' = pc
      BY <1>9, <2>4, <3>1 DEF RollbackLink, HasHeader
    <3>3. canon[Number[currentHeader] - 1] = Parent[currentHeader]
      <4>1. /\ Number[currentHeader] \in Numbers /\ 0 < Number[currentHeader]
            /\ Number[currentHeader] <= MaxNumber + 1 /\ currentHeader # None
        BY <2>2, <2>4, TreeFacts, NumberFacts
      <4>2. Linked(0, MaxNumber + 1) /\ canon[Number[currentHeader]] = currentHeader
        BY <2>1 DEF RestInv
      <4> QED
        BY <4>1, <4>2 DEF Linked
    <3>4. Number[currentHeader] - 1 = Number[Parent[currentHeader]]
      BY <2>2, <2>4, TreeFacts, SMTT(30)
    <3> QED
      BY <1>2, <2>1, <3>2, <3>3, <3>4, SMTT(30) DEF RestInv
  <2> QED
    BY <1>9, <2>3, <2>4 DEF RollbackLink
<1>10. ASSUME NEW h \in Blocks, WriteTd(h) PROVE Inv'
  <2>1. h # Genesis /\ Parent[h] \in headers
    BY <1>10, SeqFacts, TreeFacts, <1>t, SMTT(30) DEF WriteTd, WriteHeaderReady, StoreInv
  <2>2. /\ canon' = canon /\ headers' = headers /\ currentHeader' = currentHeader
        /\ pc = "idle" /\ pc' = "header" /\ hdr' = h /\ batch' = batch /\ batch # << >>
        /\ h = Head(batch) /\ h \notin headers /\ td' = [td EXCEPT ![h] = ExternTd(h)]
    BY <1>10, Zenon DEF WriteTd, WriteHeaderReady, HasHeader
  <2>3. WriteInv'
    BY <2>1, <2>2, <1>t DEF WriteInv, ExternTd
  <2> QED
    BY <2>2, <2>3, Zenon DEF IndexInv, RestInv, PruneInv, RelinkInv, CanonInv, HeadStepInv,
                      Linked, Writing
<1>11. ASSUME NEW coin \in BOOLEAN, WriteHeader(coin) PROVE Inv'
  <2>1. /\ canon' = canon /\ headers' = headers \cup {hdr} /\ currentHeader' = currentHeader
        /\ td' = td /\ pc = "header"
    BY <1>11 DEF WriteHeader
  <2>2. IndexInv'
    BY <2>1, SMTT(30) DEF IndexInv
  <2>3. CASE BecomesHead(coin)
    <3>1. /\ pc' = "prune" /\ idx' = Number[hdr] + 1 /\ hdr' = hdr /\ batch' = batch
      BY <1>11, <2>3 DEF WriteHeader
    <3>4. td[hdr] \in Nat /\ td[currentHeader] \in Nat
      BY <2>1, TreeFacts, <1>t DEF WriteInv, Writing, StoreInv, HeadInv
    <3>5. td[hdr] >= td[currentHeader]
      BY <2>3, <3>4 DEF BecomesHead
    <3>2. WriteInv'
      BY <2>1, <3>1, <3>5 DEF WriteInv, Writing
    <3>3. PruneInv'
      <4>1. /\ Number[hdr] \in Nat /\ Number[hdr] <= MaxNumber
            /\ \A n \in Numbers : n \in Nat
        BY TreeFacts, NumberFacts, <1>t
      <4>2. Linked(0, MaxNumber + 1)
        BY <2>1 DEF RestInv
      <4>3. Linked(0, Number[hdr]) /\ Linked(Number[hdr] + 1, MaxNumber + 1)
        BY <4>1, <4>2, NumberFacts DEF Linked
      <4>4. Linked(0, Number[hdr])' /\ Linked(idx, MaxNumber + 1)'
        BY <2>1, <3>1, <4>3 DEF Linked
      <4>5. \A n \in Numbers : ~(Number[hdr] < n /\ n < Number[hdr] + 1)
        BY <4>1, SMTT(30)
      <4> QED
        BY <3>1, <4>1, <4>4, <4>5 DEF PruneInv
    <3> QED
      BY <2>2, <3>1, <3>2, <3>3 DEF RestInv, RelinkInv, CanonInv, HeadStepInv, Writing
  <2>4. CASE ~BecomesHead(coin)
    <3>1. pc' = "idle"
      BY <1>11, <2>4, SMTT(30) DEF WriteHeader, Return
    <3> QED
      BY <2>1, <2>2, <3>1, Zenon DEF WriteInv, RestInv, PruneInv, RelinkInv, CanonInv,
                              HeadStepInv, Linked, Writing
  <2> QED
    BY <2>3, <2>4
<1>12. CASE PruneCanon
  <2>1. /\ canon' = [canon EXCEPT ![idx] = None] /\ idx' = idx + 1 /\ pc = "prune"
        /\ UNCHANGED <<headers, td, currentHeader, batch, pc, hdr>>
    BY <1>12 DEF PruneCanon
  <2>2. idx \in Nat /\ Number[hdr] \in Nat /\ idx > Number[hdr]
    BY <2>1, NumberFacts, TreeFacts, <1>t DEF PruneInv
  <2>3. IndexInv'
    BY <2>1, <2>2, <1>t, SMTT(30) DEF IndexInv
  <2>4. PruneInv'
    BY <2>1, <2>2, NumberFacts, <1>t, SMTT(30) DEF PruneInv, Linked
  <2> QED
    BY <2>1, <2>3, <2>4, Zenon DEF WriteInv, RestInv, RelinkInv, CanonInv, HeadStepInv, Writing
<1>13. CASE PruneDone
  <2>1. /\ canon[idx] = None /\ pc = "prune" /\ pc' = "relink"
        /\ ptr' = Parent[hdr] /\ idx' = Number[hdr] - 1
        /\ UNCHANGED <<canon, headers, td, currentHeader, batch, hdr>>
    BY <1>13, Zenon DEF PruneDone, db
  <2>2. /\ hdr \in Blocks \ {Genesis} /\ Parent[hdr] \in headers
        /\ Number[hdr] \in Nat /\ Number[Parent[hdr]] = Number[hdr] - 1
    BY <2>1, TreeFacts, <1>t DEF WriteInv, Writing
  <2>3. EmptyAbove(Number[hdr])
    BY <2>1, <2>2, NumberFacts, <1>t, SMTT(30) DEF PruneInv, Linked, EmptyAbove
  <2>4. RelinkInv'
    <3>1. EmptyAbove(Number[hdr])'
      BY <2>1, <2>3 DEF EmptyAbove
    <3>4. Linked(0, idx)'
      <4>1. Linked(0, Number[hdr])
        BY <2>1 DEF PruneInv
      <4> QED
        BY <2>1, <2>2, <4>1, NumberFacts DEF Linked
    <3>2. /\ ptr' \in headers' /\ Number[ptr'] = idx' /\ idx' < Number[hdr']
          /\ idx' = Number[hdr'] - 1 /\ ptr' = Parent[hdr']
      BY <2>1, <2>2
    <3>3. \A n \in Numbers : ~(idx' < n /\ n < Number[hdr'])
      BY <2>1, <2>2, NumberFacts, SMTT(30)
    <3> QED
      BY <3>1, <3>2, <3>3, <3>4 DEF RelinkInv
  <2> QED
    BY <2>1, <2>4, SMTT(30) DEF IndexInv, WriteInv, RestInv, PruneInv, CanonInv, HeadStepInv,
                    Writing
<1>14. CASE Relink
  <2>1. /\ ptr \in headers /\ ptr \in Blocks /\ Number[ptr] = idx /\ pc = "relink"
        /\ canon[idx] # ptr /\ canon' = [canon EXCEPT ![idx] = ptr]
        /\ UNCHANGED <<headers, td, currentHeader, batch, hdr>>
    BY <1>14, <1>t DEF Relink, RelinkInv
  <2>2. ptr # Genesis
    BY <2>1, NumberFacts DEF IndexInv
  <2>3. pc' = "relink" /\ ptr' = Parent[ptr] /\ idx' = idx - 1
    BY <1>14, <2>1, SMTT(30) DEF Relink, HasHeader
  <2>4. /\ Parent[ptr] \in headers /\ Number[Parent[ptr]] = idx - 1
        /\ idx \in Nat /\ idx # 0 /\ idx <= MaxNumber /\ Number[hdr] \in Nat /\ ptr # None
        /\ idx < Number[hdr]
    BY <2>1, <2>2, TreeFacts, <1>t, SMTT(30) DEF StoreInv, RelinkInv
  <2>5. IndexInv'
    BY <2>1, <2>4, NumberFacts, <1>t, SMTT(30) DEF IndexInv
  <2>6. RelinkInv'
    <3>1. EmptyAbove(Number[hdr])'
      BY <2>1, <2>4, NumberFacts, <1>t, SMTT(30) DEF RelinkInv, EmptyAbove
    <3>2. Linked(0, idx)'
      BY <2>1, <2>3, <2>4, NumberFacts, <1>t DEF RelinkInv, Linked
    <3>3. \A n \in Numbers : idx' < n /\ n < Number[hdr] =>
              /\ canon'[n] # None
              /\ Parent[canon'[n]] = IF n - 1 = idx' THEN ptr' ELSE canon'[n - 1]
      <4> SUFFICES ASSUME NEW n \in Numbers, idx' < n, n < Number[hdr]
                   PROVE  /\ canon'[n] # None
                          /\ Parent[canon'[n]] = IF n - 1 = idx' THEN ptr' ELSE canon'[n - 1]
        OBVIOUS
      <4>1. n \in Nat /\ idx <= n
        BY <2>3, <2>4, NumberFacts
      <4>2. CASE n = idx
        BY <2>1, <2>3, <2>4, <4>2, <1>t
      <4>3. CASE idx < n
        <5>1. /\ canon[n] # None
              /\ Parent[canon[n]] = IF n - 1 = idx THEN ptr ELSE canon[n - 1]
          BY <2>1, <4>3 DEF RelinkInv
        <5>2. n - 1 \in Numbers
          BY <4>1, <4>3, <2>4, NumberFacts DEF Numbers
        <5>3. /\ canon'[n] = canon[n]
              /\ canon'[n - 1] = IF n - 1 = idx THEN ptr ELSE canon[n - 1]
          BY <2>1, <4>1, <4>3, <5>2, <2>4, <1>t, SMTT(30)
        <5>4. n - 1 # idx'
          BY <2>3, <2>4, <4>1, <4>3
        <5> QED
          BY <5>1, <5>3, <5>4, SMTT(30)
      <4> QED
        BY <2>4, <4>1, <4>2, <4>3
    <3>4. Parent[hdr] = IF idx' = Number[hdr] - 1 THEN ptr' ELSE canon'[Number[hdr] - 1]
      <4>1. Parent[hdr] = IF idx = Number[hdr] - 1 THEN ptr ELSE canon[Number[hdr] - 1]
        BY <2>1 DEF RelinkInv
      <4>2. idx' # Number[hdr] - 1 /\ Number[hdr] - 1 \in Numbers
        <5>1. Number[hdr] <= MaxNumber
          BY TreeFacts, <1>t
        <5> QED
          BY <2>3, <2>4, <5>1, NumberFacts DEF Numbers
      <4>3. canon'[Number[hdr] - 1]
                = IF idx = Number[hdr] - 1 THEN ptr ELSE canon[Number[hdr] - 1]
        BY <2>1, <4>2, <1>t, SMTT(30)
      <4> QED
        BY <4>1, <4>2, <4>3
    <3> QED
      BY <2>1, <2>3, <2>4, <3>1, <3>2, <3>3, <3>4, SMTT(30) DEF RelinkInv
  <2> QED
    BY <2>1, <2>3, <2>5, <2>6, Zenon DEF WriteInv, RestInv, PruneInv, CanonInv, HeadStepInv,
                    Writing
<1>15. CASE RelinkDone
  <2>1. /\ canon[idx] = ptr /\ pc = "relink" /\ pc' = "canon"
        /\ UNCHANGED <<canon, headers, td, currentHeader, batch, hdr>>
    BY <1>15, SMTT(30) DEF RelinkDone, db, loop
  <2>2. /\ hdr \in Blocks \ {Genesis} /\ Number[hdr] \in Nat /\ Number[hdr] # 0
        /\ idx \in Numbers /\ idx \in Nat /\ idx < Number[hdr] /\ ptr # None
        /\ Number[hdr] <= MaxNumber
    BY <2>1, TreeFacts, NumberFacts, <1>t, SMTT(30) DEF WriteInv, RelinkInv, Writing
  <2>3. FilledBelow(Number[hdr])
    BY <2>1, <2>2, NumberFacts, SMTT(30) DEF RelinkInv, Linked, FilledBelow
  <2>4. canon[Number[hdr] - 1] = Parent[hdr]
    BY <2>1, <2>2, SMTT(30) DEF RelinkInv
  <2>5. Linked(0, Number[hdr] - 1)
    BY <2>1, <2>2, <2>3, NumberFacts, SMTT(30) DEF RelinkInv, Linked, FilledBelow
  <2>6. CanonInv'
    BY <2>1, <2>3, <2>4, <2>5, SMTT(30) DEF RelinkInv, CanonInv, Linked, FilledBelow, EmptyAbove
  <2> QED
    BY <2>1, <2>6 DEF IndexInv, WriteInv, RestInv, PruneInv, RelinkInv, HeadStepInv, Writing
<1>16. CASE WriteCanonicalHash
  <2>1. /\ canon' = [canon EXCEPT ![Number[hdr]] = hdr] /\ pc = "canon" /\ pc' = "head"
        /\ UNCHANGED <<headers, td, currentHeader, batch, hdr>>
    BY <1>16 DEF WriteCanonicalHash, loop
  <2>2. /\ hdr \in Blocks \ {Genesis} /\ hdr \in headers /\ hdr # None
        /\ Number[hdr] \in Nat /\ Number[hdr] # 0
        /\ Number[hdr] \in Numbers /\ Number[hdr] <= MaxNumber
    BY <2>1, TreeFacts, <1>t DEF WriteInv, Writing
  <2>3. IndexInv'
    BY <2>1, <2>2, NumberFacts, <1>t, SMTT(30) DEF IndexInv
  <2>4. HeadStepInv'
    <3>1. /\ \A n \in Numbers : canon'[n] = IF n = Number[hdr] THEN hdr ELSE canon[n]
          /\ \A n \in Numbers : n > Number[hdr] => canon[n] = None
          /\ \A n \in Numbers : n < Number[hdr] => canon[n] # None
          /\ canon[Number[hdr] - 1] = Parent[hdr] /\ Number[hdr] - 1 \in Numbers
      BY <2>1, <2>2, TreeFacts, <1>t, SMTT(30) DEF CanonInv, EmptyAbove, FilledBelow
    <3>2. ASSUME NEW n \in Numbers, 0 < n, canon'[n] # None
          PROVE  /\ canon'[n - 1] = Parent[canon'[n]]
                 /\ \A m \in Numbers : m < n => canon'[m] # None
      <4>1. n \in Nat /\ n <= Number[hdr] /\ n - 1 \in Numbers
        BY <2>2, <3>1, <3>2, NumberFacts DEF Numbers
      <4>2. \A m \in Numbers : m < n => canon'[m] # None
        BY <2>2, <3>1, <4>1, NumberFacts
      <4>3. CASE n = Number[hdr]
        BY <2>2, <3>1, <4>1, <4>2, <4>3
      <4>4. CASE n < Number[hdr]
        <5>1. canon[n - 1] = Parent[canon[n]]
          <6>1. Linked(0, Number[hdr] - 1)
            BY <2>1 DEF CanonInv
          <6>2. 0 < n /\ n <= Number[hdr] - 1 /\ canon[n] # None
            BY <2>2, <3>1, <3>2, <4>1, <4>4
          <6>3. n \in 0 .. Number[hdr] - 1
            BY <2>2, <4>1, <6>2
          <6> QED
            BY <6>1, <6>2, <6>3 DEF Linked
        <5>2. canon'[n] = canon[n]
          BY <2>2, <3>1, <4>4, NumberFacts, SMTT(30)
        <5>3. canon'[n - 1] = canon[n - 1]
          BY <2>2, <3>1, <4>1, <4>4, SMTT(30)
        <5> QED
          BY <4>2, <5>1, <5>2, <5>3
      <4>5. n = Number[hdr] \/ n < Number[hdr]
        BY <2>2, <4>1, SMTT(30)
      <4> QED
        BY <4>3, <4>4, <4>5
    <3> QED
      BY <2>1, <2>2, <3>1, <3>2, SMTT(30) DEF HeadStepInv, Linked
  <2> QED
    BY <2>1, <2>3, <2>4, Zenon DEF WriteInv, RestInv, PruneInv, RelinkInv, CanonInv, Writing
<1>17. CASE WriteHeadHeaderHash
  BY <1>2, <1>17 DEF WriteHeadHeaderHash, HeadStepInv, Return
<1> QED
  BY Zenon, <1>3, <1>4, <1>5, <1>6, <1>7, <1>8, <1>9, <1>10, <1>11, <1>12, <1>13, <1>14, <1>15,
     <1>16, <1>17
     DEF Next, ImportNext, ImportStep, WriteHeaderStep, RollbackStep
------------------------------------------------------------------------------
LEMMA SpecInv == Spec => []Inv
<1>1. Inv /\ [Next]_vars => Inv'
  BY TypeStep, StoreStep, LockStep, IndexStep
<1> QED
  BY <1>1, InitInv, PTL DEF Spec

(* Type correctness of the header chain under imports and rollbacks.         *)
THEOREM TypeCorrect == Spec => []TypeOK
BY SpecInv, PTL DEF Inv

(***************************************************************************)
(* Whatever is imported and rolled back, in whatever order, the index      *)
(* written by WriteHeader is a chain of stored headers through the head.   *)
(***************************************************************************)
THEOREM CanonicalChain == Spec => [](CanonLinked /\ CanonHead)
<1>1. Inv => CanonLinked /\ CanonHead
  BY NumberFacts DEF Inv, RestInv, IndexInv, Linked, CanonLinked, CanonHead, Idle
<1> QED
  BY <1>1, SpecInv, PTL

(* WriteHeader and Rollback never dereference a missing header.              *)
THEOREM NoNilHeader == Spec => []NoPanic
<1>1. Inv => NoPanic
  BY DEF Inv, NoPanic, Writing
<1> QED
  BY <1>1, SpecInv, PTL

(* A clean restart finds the head that was in memory.                        *)
THEOREM HeadSurvives == Spec => []HeadPersisted
<1>1. Inv => HeadPersisted
  BY DEF Inv, HeadInv, HeadPersisted
<1> QED
  BY <1>1, SpecInv, PTL

(* Total difficulties accumulate along every stored chain.                   *)
THEOREM TdCorrect == Spec => []TdAccumulates
<1>1. Inv => TdAccumulates
  BY NumberFacts, TreeFacts, Zenon DEF Inv, StoreInv, TdAccumulates
<1> QED
  BY <1>1, SpecInv, PTL

(* All of it together: with imports, rollbacks, Stop and restarts in any      *)
(* order, readers find a sound chain whenever LightChain.mu is free.         *)
THEOREM HeaderSound == Spec => []ChainSound
BY TypeCorrect, CanonicalChain, TdCorrect, HeadSurvives, PTL DEF ChainSound

(* The fork choice: no WriteHeader ends on a head lighter than the old one   *)
(* or than the header it has stored.                                         *)
THEOREM ForkChoiceCorrect == Spec => ForkChoice
<1> DEFINE Heavier == (pc \in Writing /\ pc' = "idle") =>
                          /\ td[currentHeader'] >= td[currentHeader]
                          /\ td[currentHeader'] >= td[hdr]
<1>1. Inv /\ [Next]_vars => [Heavier]_vars
  <2> SUFFICES ASSUME Inv, Next, pc \in Writing, pc' = "idle"
               PROVE  /\ td[currentHeader'] >= td[currentHeader]
                      /\ td[currentHeader'] >= td[hdr]
    OBVIOUS
  <2>1. /\ td[currentHeader] \in Nat /\ td[hdr] \in Nat
        /\ pc # "header" => td[hdr] >= td[currentHeader]
    BY TreeFacts DEF Inv, StoreInv, HeadInv, WriteInv, TypeOK
  <2>2. ASSUME NEW coin \in BOOLEAN, WriteHeader(coin)
        PROVE  td[currentHeader] >= td[hdr] /\ currentHeader' = currentHeader
    <3>1. ~BecomesHead(coin) /\ currentHeader' = currentHeader
      BY <2>2 DEF WriteHeader
    <3>2. ~(td[hdr] > td[currentHeader])
      BY <3>1 DEF BecomesHead
    <3> QED
      BY <2>1, <3>1, <3>2
  <2>3. CASE WriteHeadHeaderHash
    BY <2>1, <2>3, SMTT(30) DEF WriteHeadHeaderHash
  <2>4. WriteHeadHeaderHash \/ \E coin \in BOOLEAN : WriteHeader(coin)
    BY Zenon DEF Next, ImportNext, ImportStep, WriteHeaderStep, RollbackStep, InsertHeaderChain,
           SkipKnown, AbortBatch, ParentUnknown, WriteTd, WriteHeaderReady, PruneCanon,
           PruneDone, Relink, RelinkDone, WriteCanonicalHash, LockChain, UnlockChain, Stop,
           Restart, Rollback, RollbackLink, RollbackDone, Writing
  <2> QED
    BY <2>1, <2>2, <2>3, <2>4
<1> QED
  BY <1>1, SpecInv, PTL DEF Spec, ForkChoice

(* While the chain is read-locked by LockChain, no import and no rollback    *)
(* changes a canonical hash.                                                 *)
THEOREM LockedReads == Spec => LockedChainStable
<1> DEFINE Stable == reader /\ reader' => canon' = canon
<1>1. Inv /\ [Next]_vars => [Stable]_vars
  <2> SUFFICES ASSUME Inv, Next, reader PROVE canon' = canon
    OBVIOUS
  <2>1. pc \notin Writing
    BY DEF Inv, LockInv, WriteInv
  <2> QED
    BY <2>1, Zenon DEF Next, ImportNext, ImportStep, WriteHeaderStep, RollbackStep,
                InsertHeaderChain,
                SkipKnown, AbortBatch, ParentUnknown, WriteTd, WriteHeader, PruneCanon,
                PruneDone, Relink, RelinkDone, WriteCanonicalHash, WriteHeadHeaderHash,
                LockChain, UnlockChain, Stop, Restart, Reload, Rollback, RollbackLink,
                RollbackDone, Writing, db
<1> QED
  BY <1>1, SpecInv, PTL DEF Spec, LockedChainStable
==============================================================================
