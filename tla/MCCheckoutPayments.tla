------------------------ MODULE MCCheckoutPayments ------------------------
(***************************************************************************)
(* One cart with one seat and the intents that pay for it.                 *)
(***************************************************************************)
EXTENDS CheckoutPayments, TLC

CONSTANTS c1, div, off, x1

MCCheckoutOf == [x \in Seats |-> c1]
MCSubjectsOf == [x \in Seats |-> Subjects]
MCCartOf == [i \in Intents |-> c1]
WorkerSymmetry == Permutations(Workers)
=============================================================================
