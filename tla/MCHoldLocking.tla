--------------------------- MODULE MCHoldLocking ---------------------------
(***************************************************************************)
(* Two carts of one seat each in the same division, and sessions at work   *)
(* on them.                                                                *)
(***************************************************************************)
EXTENDS HoldLocking

CONSTANTS c1, c2, div, off, x1, x2, p1, p2

MCCheckoutOf == [x \in Seats |-> IF x = x2 THEN c2 ELSE c1]
MCSubjectsOf == [x \in Seats |-> {div, off}]
MCSubjectNo == [s \in Subjects |-> IF s = div THEN 1 ELSE 2]
=============================================================================
