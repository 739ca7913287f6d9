-------------------------- MODULE MCSpaceBookings --------------------------
(* Instances of SpaceBookings for TLC. *)
EXTENDS SpaceBookings, TLC

CONSTANTS a, b, c, d, n, e1

\* Two fields, each with one part so far.
MCTree == (a :> Top) @@ (c :> Top) @@ (d :> a) @@ (b :> c)

Case(offices, mishaps, events, slots, changes) ==
    [offices : {offices}, mishaps : {mishaps}, events : {events}, slots : {slots},
     changes : {changes}]

SpacesGivens ==
    Case({"adds"}, {}, Events, {1}, 2) \cup Case({"adds"}, {}, {e1}, {1, 2}, 2)
        \cup Case({"moves"}, {}, {e1}, {1, 2}, 2)
        \cup Case({"adds", "closures"}, {}, {e1}, {1}, 2)
        \cup Case({"closures"}, {}, {e1}, {1, 2}, 2)
        \cup Case({"blocks"}, {}, Events, {1}, 2)
        \cup Case({"blocks", "adds"}, {}, {e1}, {1}, 2)
        \cup Case({"blocks", "closures"}, {}, {e1}, {1}, 2)
        \cup Case({"moves"}, {"crossing"}, {}, {1}, 0)
        \cup Case({"adds"}, {"race"}, {e1}, {1}, 1)
        \cup Case({"adds"}, {"divided"}, {e1}, {1}, 1)
        \cup Case({"moves"}, {"detached"}, {e1}, {1}, 1)
        \cup Case({"closures"}, {"revived"}, {e1}, {1}, 3)

SessionSymmetry == Permutations(Sessions)
=============================================================================
