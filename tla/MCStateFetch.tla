---------------------------- MODULE MCStateFetch -----------------------------
(* The pivot's state has two accounts with the same code; the head's has one of *)
(* them.                                                                        *)
EXTENDS StateFetch

CONSTANTS pivotState, headState, acc1, acc2, code, p1, p2

MCRefs ==
    [x \in Hashes |-> CASE x = pivotState -> {acc1, acc2}
                        [] x = headState -> {acc1}
                        [] x \in {acc1, acc2} -> {code}
                        [] x = code -> {}]
MCSymmetry == {[p \in {p1, p2} |-> p], [p \in {p1, p2} |-> IF p = p1 THEN p2 ELSE p1]}
==============================================================================
