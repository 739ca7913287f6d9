------------------------- MODULE MCRefundsDisputes -------------------------
(* Instances of RefundsDisputes for TLC. *)
EXTENDS RefundsDisputes

CONSTANTS k1, k2, k3, outside, h1, h2

MCAsk == [k \in {k1, k2, k3, outside} |-> IF k = k3 THEN 1 ELSE 2]

Case(mishaps, keys, workers) == [mishaps : {mishaps}, keys : {keys}, workers : {workers}]

RefundsGivens ==
    Case({}, {k1, k2}, {}) \cup Case({}, {k1}, {h1})
        \cup Case({}, {}, {h1, h2})
        \cup Case({"stopped"}, {k1}, {}) \cup Case({"stopped"}, {}, {h1})
        \cup Case({"outside"}, {k3}, {})
        \cup Case({"returned"}, {k1}, {})
        \cup Case({"inquiry", "late"}, {k1}, {h1})
=============================================================================
