--------------------------- MODULE MCStripeEvents ---------------------------
(***************************************************************************)
(* Two events, one of which has a handler that always throws, a worker and *)
(* the replay job.                                                         *)
(***************************************************************************)
EXTENDS StripeEvents

CONSTANTS e1, e2, w1, r
=============================================================================
