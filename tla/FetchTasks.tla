----------------------------- MODULE FetchTasks ------------------------------
(***************************************************************************)
(* What the download queue promises to the downloader, independently of    *)
(* its pools, caches and wake-ups.  A task is one part (the body or the    *)
(* receipts) of one block.  Tasks are learnt in block order, handed to     *)
(* peers inside a bounded window, come back when a peer fails, and are     *)
(* completed once; a block leaves the queue in its turn, with every part.  *)
(***************************************************************************)
EXTENDS Integers

CONSTANTS
    Kinds,   \* the parts of a block
    Needs,   \* the parts to fetch for each block
    Last,    \* bound: the last block number
    Window   \* how many blocks, from the next one on, may be worked on

Tasks == {t \in Kinds \X (1 .. Last) : t[1] \in Needs[t[2]]}

VARIABLES
    status,  \* of each task
    next     \* the first block that has not left the queue

avars == <<status, next>>

TaskInit ==
    /\ status = [t \in Tasks |-> "unknown"]
    /\ next = 1

Changed == {t \in Tasks : status'[t] # status[t]}

\* Some tasks, all in the state From, change to a state of To; no block leaves.
Move(From, To) ==
    /\ status' \in [Tasks -> {"unknown", "waiting", "fetching", "done"}]
    /\ \A t \in Changed : status[t] = From /\ status'[t] \in To
    /\ UNCHANGED next

\* Tasks are learnt in block order.
Learn ==
    /\ Move("unknown", {"waiting"})
    /\ \A t \in Changed, u \in Tasks : status[u] # "unknown" => u[2] < t[2]

\* Handed to a peer, or completed on the spot because there is nothing to fetch.
Take ==
    /\ Move("waiting", {"fetching", "done"})
    /\ \A t \in Changed : t[2] \in next .. next + Window - 1

\* A peer's answer completes some of its tasks and returns the others.
Answer == Move("fetching", {"done", "waiting"})

HandOut(n) ==
    /\ \A t \in Tasks : t[2] \in next .. next + n - 1 => status[t] = "done"
    /\ next' = next + n
    /\ UNCHANGED status

\* A new synchronisation cycle, from block n on.
Restart(n) ==
    /\ next' = n
    /\ status' = [t \in Tasks |-> IF t[2] < n THEN "done" ELSE "unknown"]

TaskNext ==
    \/ Learn \/ Take \/ Answer
    \/ \E n \in 1 .. Window : HandOut(n)
    \/ \E n \in 1 .. next : Restart(n)

TaskSpec == TaskInit /\ [][TaskNext]_avars
==============================================================================
