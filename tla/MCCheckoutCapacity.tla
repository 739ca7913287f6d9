------------------------ MODULE MCCheckoutCapacity ------------------------
(***************************************************************************)
(* Two family carts over one program, one division and two offerings.      *)
(* Cart c1 has two seats (siblings), one in each offering; cart c2 one.    *)
(***************************************************************************)
EXTENDS CheckoutCapacity

CONSTANTS c1, c2, prog, div, o1, o2, x1, x2, x3

MCCheckoutOf == [x \in Seats |-> IF x = x3 THEN c2 ELSE c1]
MCSubjectsOf == [x \in Seats |-> {prog, div} \cup (IF x = x2 THEN {o2} ELSE {o1})]
=============================================================================
