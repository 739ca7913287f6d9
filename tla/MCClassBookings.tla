-------------------------- MODULE MCClassBookings --------------------------
(* Instances of ClassBookings for TLC. *)
EXTENDS ClassBookings, TLC

CONSTANTS ann, bea, cem, dan, term, next, gym, punch, s1, s2, g, t1, t2, card1

MCBilling == (term :> "term") @@ (next :> "term") @@ (gym :> "drop_in") @@ (punch :> "punch_card")
MCClassOf == (s1 :> term) @@ (s2 :> term) @@ (g :> gym) @@ (t1 :> punch) @@ (t2 :> punch)
MCRoom == (s1 :> 2) @@ (s2 :> 2) @@ (g :> 1) @@ (t1 :> 1) @@ (t2 :> 1)
\* The credit of the first session is good for every other class, that of the
\* second has run out by then.
MCEligible == (s1 :> {s2, g, t1}) @@ (s2 :> {g}) @@ (g :> {}) @@ (t1 :> {}) @@ (t2 :> {})
MCOwner == card1 :> ann
MCCardClass == card1 :> punch

Case(acts, mishaps, people, classes, sessions, places) ==
    [acts : {acts}, mishaps : {mishaps}, people : {people}, classes : {classes},
     sessions : {sessions}, places : {places}]

ClassesGivens ==
    Case({}, {}, {ann, bea, cem, dan}, {term}, {}, 2)
        \cup Case({"trials", "pauses", "capacity"}, {}, {ann, bea, cem}, {term}, {}, 1)
        \cup Case({"trials"}, {}, {ann, bea}, {term}, {s1}, 1)
        \cup UNION {Case({}, {m}, {ann, bea, cem, dan}, {term}, {}, 2) : m \in {"removed", "batch"}}
        \cup Case({}, {"promoted"}, {ann, bea}, {term, next}, {}, 1)
        \cup Case({"capacity"}, {"raised"}, {ann, bea, cem}, {term}, {}, 1)
        \cup Case({"marks"}, {}, {ann, bea}, {term}, {s1, s2}, 2)
        \cup Case({"marks"}, {}, {ann, bea}, {term}, {s1, g}, 1)
        \cup Case({"marks", "cancels"}, {}, {ann}, {punch}, {t1, t2}, 1)
        \cup Case({"trials", "marks"}, {}, {ann, bea}, {punch}, {t1, g}, 1)
        \cup Case({"trials"}, {"race"}, {ann, bea}, {punch}, {t1, g}, 1)
=============================================================================
