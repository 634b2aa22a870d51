------------------------------- MODULE MCTypeMux ------------------------------
(* Two subscriptions, one of them for both types, and one event or two.      *)
EXTENDS TypeMux, TLC

CONSTANTS s1, s2, e1, e2, k1, k2

MCWants == s1 :> {k1, k2} @@ s2 :> {k1}
MCKind == [e \in Events |-> IF e = e1 THEN k1 ELSE k2]
===============================================================================
