------------------------------- MODULE MCFetcher ------------------------------
(* An empty block b1 with a child b2, and a bad block x1 with the body of b2. *)
EXTENDS Fetcher

CONSTANTS g, b1, b2, x1, p, q

MCParent == [b \in Blocks |-> IF b = g THEN None ELSE IF b = b2 THEN b1 ELSE g]
MCNumber == [b \in Blocks |-> IF b = g THEN 0 ELSE IF b = b2 THEN 2 ELSE 1]
MCDifficulty == [b \in Blocks |-> 1]
MCBody == [b \in Blocks |-> IF b \in {b2, x1} THEN "transfer" ELSE "empty"]
MCVerdict == [b \in Blocks |-> IF b = x1 THEN "bad" ELSE "ok"]

\* q may announce a wrong number and offers the bad block.
MCAnnouncements ==
    {[origin |-> p, hash |-> b1, number |-> 1], [origin |-> p, hash |-> b2, number |-> 2],
     [origin |-> q, hash |-> b2, number |-> 1], [origin |-> q, hash |-> x1, number |-> 1]}
MCInjections == {[origin |-> p, hash |-> b1], [origin |-> q, hash |-> b2]}
MCHeaderBatches == {<<b1, x1>>, <<b2, b2>>}
MCBodyBatches == {{"transfer"}}
\* One peer, and the blocks b1 and b2.
OneAnnouncements == {a \in MCAnnouncements : a.origin = p}
OneInjections == {[origin |-> p, hash |-> b1]}
OneHeaderBatches == {<<b1>>, <<b2>>}
==============================================================================
