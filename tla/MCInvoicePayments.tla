------------------------- MODULE MCInvoicePayments -------------------------
(***************************************************************************)
(* Two installments of one unit each and a late fee of one; autopay tries  *)
(* twice.  What else may happen is given, a few things at a time.          *)
(***************************************************************************)
EXTENDS InvoicePayments

CONSTANTS a, b, k1, k2, w1, w2

MCPlan == <<a, b>>
MCAmount == [i \in {a, b} |-> 1]
MCKeyFor == [k \in {k1, k2} |-> a]

Case(mishaps, keys, autos, workers, staff, faults) ==
    [mishaps |-> mishaps, keys |-> keys, autos |-> autos, workers |-> workers,
     staff |-> staff, failures |-> faults]

MCGivens ==
    {Case({}, {}, {a}, {w1, w2}, {}, 1),
     Case({}, {k1}, {a}, {w1}, {}, 0),
     Case({}, {k1, k2}, {}, {}, {b}, 1),
     Case({"reopened", "behind"}, {k1}, {a}, {w1}, {}, 0),
     Case({"reopened"}, {k1}, {}, {}, {a}, 0),
     Case({"reopened", "behind", "overlap"}, {k1, k2}, {}, {}, {}, 0),
     Case({"off_plan"}, {}, {a}, {w1}, {}, 0),
     Case({"declined", "overlap"}, {}, {a}, {w1}, {}, 0),
     Case({"stopped"}, {}, {a}, {w1, w2}, {}, 1),
     Case({"beside"}, {k1}, {a}, {w1}, {}, 0),
     Case({"voided"}, {}, {a}, {w1}, {b}, 0),
     Case({"revoked"}, {}, {a}, {w1}, {a}, 0),
     Case({}, {}, {a}, {w1}, {a}, 0)}

DeclinedGivens == {Case({"declined"}, {}, {a}, {w1}, {}, 0)}
=============================================================================
