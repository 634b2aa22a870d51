----------------------------- MODULE HeaderChain -----------------------------
(***************************************************************************)
(* core.HeaderChain as light.LightChain drives it.  The database is a key- *)
(* value store without transactions, so every Put and Delete is a step of  *)
(* its own: lock-free readers run between any two of them.  The writer     *)
(* holds LightChain.mu from its first step to its last (pc # "idle");      *)
(* LightChain.chainmu is held while batch # << >>.                         *)
(***************************************************************************)
EXTENDS BlockTree, Sequences

CONSTANT Chains  \* bound: the header sequences offered to InsertHeaderChain and Rollback

ASSUME ChainsAssumption == Chains \subseteq Seq(Blocks \ {Genesis}) /\ << >> \notin Chains

VARIABLES
    headers,        \* chainDb: headers stored by hash
    td,             \* chainDb: total difficulty stored for a hash, or None
    canon,          \* chainDb: canonical hash stored for a number, or None
    headHeader,     \* chainDb: the "LastHeader" entry
    currentHeader,  \* hc.currentHeader, in memory
    interrupted,    \* procInterrupt, set by Stop
    reader,         \* chainmu is read-locked by LockChain
    batch,          \* headers InsertHeaderChain has still to write
    links,          \* hashes Rollback has still to look at
    pc,             \* next step of the operation that holds mu
    hdr,            \* the header WriteHeader is writing
    ptr,            \* headHash of WriteHeader's overwrite loop
    idx,            \* loop index over block numbers
    lim             \* the argument of SetHead

db == <<headers, td, canon, headHeader>>
loop == <<hdr, ptr, idx, lim>>
vars == <<headers, td, canon, headHeader, currentHeader, interrupted, reader, batch, links,
          pc, hdr, ptr, idx, lim>>

\* WriteHeader in progress
Writing == {"header", "prune", "relink", "canon", "head"}
\* SetHead in progress
Rewinding == {"delHeader", "delTd", "delCanon"}

\* One type invariant for the chain: every pointer names a header or is None.
TypeOK ==
    /\ headers \subseteq Blocks
    /\ td \in [Blocks -> Nat \cup {None}]
    /\ canon \in [Numbers -> Blocks \cup {None}]
    /\ headHeader \in Blocks
    /\ currentHeader \in Blocks \cup {None}
    /\ interrupted \in BOOLEAN /\ reader \in BOOLEAN
    /\ batch \in Seq(Blocks \ {Genesis})
    /\ links \in Seq(Blocks \ {Genesis})
    /\ pc \in Writing \cup Rewinding \cup {"idle", "rollback", "panic"}
    /\ hdr \in Blocks
    /\ ptr \in Blocks \cup {None}
    /\ idx \in Numbers
    /\ lim \in Numbers
------------------------------------------------------------------------------
\* A database holding the genesis block, and the chain NewLightChain opens on it.
Init ==
    /\ headers = {Genesis}
    /\ td = [b \in Blocks |-> IF b = Genesis THEN Difficulty[Genesis] ELSE None]
    /\ canon = [n \in Numbers |-> IF n = 0 THEN Genesis ELSE None]
    /\ headHeader = Genesis
    /\ currentHeader = Genesis
    /\ interrupted = FALSE /\ reader = FALSE
    /\ batch = << >> /\ links = << >>
    /\ pc = "idle"
    /\ hdr = Genesis /\ ptr = None /\ idx = 0 /\ lim = 0

HasHeader(b) == b \in headers

\* The operation releases mu; its local variables are gone.
Return == pc' = "idle" /\ hdr' = Genesis /\ ptr' = None /\ idx' = 0 /\ lim' = 0

Contiguous(chain) ==
    \A i \in 2 .. Len(chain) : /\ Number[chain[i]] = Number[chain[i - 1]] + 1
                               /\ Parent[chain[i]] = chain[i - 1]

\* The verification workers: only the first header is checked against the database.
Verified(chain) == HasHeader(chain[1]) \/ HasHeader(Parent[chain[1]])

InsertHeaderChain(chain) ==
    /\ batch = << >> /\ ~reader /\ ~interrupted /\ pc # "panic"
    /\ Contiguous(chain)
    /\ Verified(chain)
    /\ batch' = chain
    /\ UNCHANGED <<db, currentHeader, interrupted, reader, links, pc, loop>>

\* Outside mu: a header already stored is skipped, whatever became of the head.
SkipKnown ==
    /\ batch # << >> /\ ~interrupted /\ pc \notin Writing \cup {"panic"}
    /\ HasHeader(Head(batch))
    /\ batch' = Tail(batch)
    /\ UNCHANGED <<db, currentHeader, interrupted, reader, links, pc, loop>>

AbortBatch ==
    /\ batch # << >> /\ interrupted /\ pc \notin Writing \cup {"panic"}
    /\ batch' = << >>
    /\ UNCHANGED <<db, currentHeader, interrupted, reader, links, pc, loop>>

WriteHeaderReady(h) ==
    /\ batch # << >> /\ ~interrupted /\ pc = "idle"
    /\ h = Head(batch) /\ ~HasHeader(h)

\* ptd = nil: ParentError, and InsertHeaderChain returns.
ParentUnknown(h) ==
    /\ WriteHeaderReady(h)
    /\ td[Parent[h]] = None
    /\ batch' = << >>
    /\ UNCHANGED <<db, currentHeader, interrupted, reader, links, pc, loop>>

ExternTd(h) == td[Parent[h]] + Difficulty[h]

WriteTd(h) ==
    /\ WriteHeaderReady(h)
    /\ td[Parent[h]] # None
    /\ td' = [td EXCEPT ![h] = ExternTd(h)]
    /\ pc' = "header" /\ hdr' = h
    /\ UNCHANGED <<headers, canon, headHeader, currentHeader, interrupted, reader, batch, links,
                   ptr, idx, lim>>

\* Mutant: the longest chain wins, not the heaviest.
BadBecomesHead(coin) ==
    Number[hdr] > Number[currentHeader] \/ (Number[hdr] = Number[currentHeader] /\ coin)

\* Heavier than the head, or as heavy and the coin flip says so (coin).
BecomesHead(coin) ==
    td[hdr] > td[currentHeader] \/ (td[hdr] = td[currentHeader] /\ coin)

\* Mutant: the header of a side chain is not stored, only its total difficulty.
BadWriteHeader(coin) ==
    /\ pc = "header"
    /\ IF BecomesHead(coin)
       THEN /\ pc' = "prune" /\ idx' = Number[hdr] + 1 /\ headers' = headers \cup {hdr}
            /\ UNCHANGED <<batch, hdr, ptr, lim>>
       ELSE Return /\ batch' = Tail(batch) /\ headers' = headers
    /\ UNCHANGED <<td, canon, headHeader, currentHeader, interrupted, reader, links>>

WriteHeader(coin) ==
    /\ pc = "header"
    /\ headers' = headers \cup {hdr}
    /\ IF BecomesHead(coin)
       THEN pc' = "prune" /\ idx' = Number[hdr] + 1 /\ UNCHANGED <<batch, hdr, ptr, lim>>
       ELSE Return /\ batch' = Tail(batch)
    /\ UNCHANGED <<td, canon, headHeader, currentHeader, interrupted, reader, links>>

\* Delete any canonical number assignments above the new head
PruneCanon ==
    /\ pc = "prune" /\ canon[idx] # None
    /\ canon' = [canon EXCEPT ![idx] = None]
    /\ idx' = idx + 1
    /\ UNCHANGED <<headers, td, headHeader, currentHeader, interrupted, reader, batch, links, pc,
                   hdr, ptr, lim>>

PruneDone ==
    /\ pc = "prune" /\ canon[idx] = None
    /\ pc' = "relink" /\ ptr' = Parent[hdr] /\ idx' = Number[hdr] - 1
    /\ UNCHANGED <<db, currentHeader, interrupted, reader, batch, links, hdr, lim>>

\* Overwrite any stale canonical number assignments.  The header of ptr was read
\* before the loop test; nil is dereferenced only after the Put.
Relink ==
    /\ pc = "relink" /\ canon[idx] # ptr
    /\ canon' = [canon EXCEPT ![idx] = ptr]
    /\ IF HasHeader(ptr)
       THEN ptr' = Parent[ptr] /\ idx' = idx - 1 /\ pc' = pc
       ELSE pc' = "panic" /\ UNCHANGED <<ptr, idx>>
    /\ UNCHANGED <<headers, td, headHeader, currentHeader, interrupted, reader, batch, links, hdr,
                   lim>>

\* Mutant: the loop stops at the first number that has any canonical hash.
BadRelinkDone ==
    /\ pc = "relink" /\ canon[idx] # None
    /\ pc' = "canon"
    /\ UNCHANGED <<db, currentHeader, interrupted, reader, batch, links, loop>>

RelinkDone ==
    /\ pc = "relink" /\ canon[idx] = ptr
    /\ pc' = "canon"
    /\ UNCHANGED <<db, currentHeader, interrupted, reader, batch, links, loop>>

WriteCanonicalHash ==
    /\ pc = "canon"
    /\ canon' = [canon EXCEPT ![Number[hdr]] = hdr]
    /\ pc' = "head"
    /\ UNCHANGED <<headers, td, headHeader, currentHeader, interrupted, reader, batch, links, loop>>

WriteHeadHeaderHash ==
    /\ pc = "head"
    /\ headHeader' = hdr /\ currentHeader' = hdr
    /\ batch' = Tail(batch)
    /\ Return
    /\ UNCHANGED <<headers, td, canon, interrupted, reader, links>>
------------------------------------------------------------------------------
Rollback(chain) ==
    /\ pc = "idle"
    /\ pc' = "rollback" /\ links' = chain
    /\ UNCHANGED <<db, currentHeader, interrupted, reader, batch, loop>>

\* SetCurrentHeader of the parent; head.Hash() on a nil parent panics.
RollbackLink ==
    /\ pc = "rollback" /\ links # << >>
    /\ LET last == links[Len(links)] IN
       IF currentHeader # last
       THEN links' = SubSeq(links, 1, Len(links) - 1) /\ UNCHANGED <<headHeader, currentHeader, pc>>
       ELSE IF HasHeader(Parent[last])
       THEN /\ links' = SubSeq(links, 1, Len(links) - 1)
            /\ headHeader' = Parent[last] /\ currentHeader' = Parent[last]
            /\ pc' = pc
       ELSE pc' = "panic" /\ UNCHANGED <<links, headHeader, currentHeader>>
    /\ UNCHANGED <<headers, td, canon, interrupted, reader, batch, loop>>

RollbackDone ==
    /\ pc = "rollback" /\ links = << >>
    /\ Return
    /\ UNCHANGED <<db, currentHeader, interrupted, reader, batch, links>>
------------------------------------------------------------------------------
SetHead(n) ==
    /\ pc = "idle"
    /\ pc' = "delHeader" /\ lim' = n /\ idx' = Number[currentHeader]
    /\ UNCHANGED <<db, currentHeader, interrupted, reader, batch, links, hdr, ptr>>

\* Mutant: off by one, the new head is deleted as well.
BadAboveLimit == currentHeader # None /\ Number[currentHeader] >= lim

AboveLimit == currentHeader # None /\ Number[currentHeader] > lim

DeleteHeader ==
    /\ pc = "delHeader" /\ AboveLimit
    /\ headers' = headers \ {currentHeader}
    /\ pc' = "delTd"
    /\ UNCHANGED <<td, canon, headHeader, currentHeader, interrupted, reader, batch, links, loop>>

DeleteTd ==
    /\ pc = "delTd"
    /\ td' = [td EXCEPT ![currentHeader] = None]
    /\ currentHeader' = IF HasHeader(Parent[currentHeader]) THEN Parent[currentHeader] ELSE None
    /\ pc' = "delHeader"
    /\ UNCHANGED <<headers, canon, headHeader, interrupted, reader, batch, links, loop>>

DeleteHeaderDone ==
    /\ pc = "delHeader" /\ ~AboveLimit
    /\ pc' = "delCanon"
    /\ UNCHANGED <<db, currentHeader, interrupted, reader, batch, links, loop>>

DeleteCanonicalHash ==
    /\ pc = "delCanon" /\ idx > lim
    /\ canon' = [canon EXCEPT ![idx] = None]
    /\ idx' = idx - 1
    /\ UNCHANGED <<headers, td, headHeader, currentHeader, interrupted, reader, batch, links, pc,
                   hdr, ptr, lim>>

\* The purged caches hold nothing the database does not; loadLastState finds the
\* header just written and sets it once more.
ResetHead ==
    /\ pc = "delCanon" /\ idx <= lim
    /\ currentHeader' = IF currentHeader = None THEN Genesis ELSE currentHeader
    /\ headHeader' = currentHeader'
    /\ Return
    /\ UNCHANGED <<headers, td, canon, interrupted, reader, batch, links>>
------------------------------------------------------------------------------
\* Mutant: the lock does not wait for a running import.
BadLockChain ==
    /\ ~reader /\ pc # "panic"
    /\ reader' = TRUE
    /\ UNCHANGED <<db, currentHeader, interrupted, batch, links, pc, loop>>

\* The light fetcher reads several canonical hashes under chainmu.
LockChain ==
    /\ batch = << >> /\ ~reader /\ pc # "panic"
    /\ reader' = TRUE
    /\ UNCHANGED <<db, currentHeader, interrupted, batch, links, pc, loop>>

UnlockChain ==
    /\ reader
    /\ reader' = FALSE
    /\ UNCHANGED <<db, currentHeader, interrupted, batch, links, pc, loop>>

\* Stop raises procInterrupt and waits for the running InsertHeaderChain.
Stop ==
    /\ ~interrupted /\ pc # "panic"
    /\ interrupted' = TRUE
    /\ UNCHANGED <<db, currentHeader, reader, batch, links, pc, loop>>

\* NewHeaderChain followed by loadLastState on the database as it is.
Reload ==
    /\ currentHeader' = IF HasHeader(headHeader) THEN headHeader ELSE Genesis
    /\ interrupted' = FALSE /\ reader' = FALSE
    /\ batch' = << >> /\ links' = << >>
    /\ Return
    /\ UNCHANGED db

Restart ==
    /\ interrupted /\ batch = << >> /\ pc = "idle"
    /\ Reload

------------------------------------------------------------------------------
WriteHeaderStep ==
    \/ \E coin \in BOOLEAN : WriteHeader(coin)
    \/ PruneCanon \/ PruneDone
    \/ Relink \/ RelinkDone
    \/ WriteCanonicalHash \/ WriteHeadHeaderHash

ImportStep ==
    \/ SkipKnown \/ AbortBatch
    \/ \E h \in Blocks : ParentUnknown(h) \/ WriteTd(h)
    \/ WriteHeaderStep

RollbackStep == RollbackLink \/ RollbackDone

SetHeadStep == DeleteHeader \/ DeleteTd \/ DeleteHeaderDone \/ DeleteCanonicalHash \/ ResetHead

ImportNext ==
    \/ \E chain \in Chains : InsertHeaderChain(chain)
    \/ ImportStep
    \/ LockChain \/ UnlockChain
    \/ Stop \/ Restart

\* What the downloader and the light fetcher do to the chain.
Next == ImportNext \/ (\E chain \in Chains : Rollback(chain)) \/ RollbackStep

\* What imports and the debug API's SetHead do to the chain.
RewindNext == ImportNext \/ (\E n \in 0 .. MaxNumber : SetHead(n)) \/ SetHeadStep

Spec == Init /\ [][Next]_vars
------------------------------------------------------------------------------
Idle == pc = "idle"

(***************************************************************************)
(* The number index is a chain: a stored number has its predecessor stored *)
(* below it, and every entry has its header in the database.  Readers that *)
(* walk GetHeaderByNumber rely on it, and so does WriteHeader itself,      *)
(* whose overwrite loop stops at the first entry that already matches.     *)
(***************************************************************************)
CanonLinked ==
    Idle => \A n \in Numbers \ {0} :
                canon[n] # None => /\ canon[n] \in headers
                                   /\ canon[n - 1] = Parent[canon[n]]

\* The head is the canonical header of its own number.
CanonHead == Idle => canon[Number[currentHeader]] = currentHeader

(***************************************************************************)
(* The number index is exactly the ancestry of the head, with nothing      *)
(* above it: WriteHeader and SetHead delete the numbers they leave behind, *)
(* also when SetHead falls between two headers of a batch.                 *)
(***************************************************************************)
CanonExact ==
    /\ CanonLinked /\ CanonHead
    /\ Idle => \A n \in Numbers : n > Number[currentHeader] => canon[n] = None

\* No nil header is dereferenced: every header the overwrite loop and Rollback
\* walk through is stored.
NoPanic == pc # "panic"

\* Total difficulties accumulate along the stored chain, and none is missing
\* for a stored header (WriteTd comes before WriteHeader).
TdAccumulates ==
    \A b \in headers \ {Genesis} :
        /\ td[b] # None
        /\ td[Parent[b]] # None => td[b] = td[Parent[b]] + Difficulty[b]

\* The persisted head is the head in memory whenever mu is free, so that
\* a clean restart resumes where Stop left the chain.
HeadPersisted == Idle => headHeader = currentHeader

\* What every reader of the chain relies on when mu is free, after any mixture of imports,
\* rollbacks, rewinds, Stop and restarts: the number index is a chain of stored headers
\* through the head, total difficulties add up, and the head on disk is the one in memory.
ChainSound == TypeOK /\ CanonLinked /\ CanonHead /\ TdAccumulates /\ HeadPersisted

(***************************************************************************)
(* WriteHeader never leaves the chain on a lighter head than before, nor   *)
(* on one lighter than the header it has just stored.                      *)
(***************************************************************************)
ForkChoice ==
    [][(pc \in Writing /\ pc' = "idle") =>
          /\ td[currentHeader'] >= td[currentHeader]
          /\ td[currentHeader'] >= td[hdr]]_vars

\* "multiple canonical hashes can be retrieved while it is guaranteed that they
\* belong to the same version of the chain" (LockChain, light/lightchain.go:509).
LockedChainStable == [][reader /\ reader' => canon' = canon]_vars
==============================================================================
