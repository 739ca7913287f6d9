---------------------- MODULE MCRegistrationLifecycle ----------------------
(***************************************************************************)
(* A league with one division of one place (offering o1), a camp with one  *)
(* place that needs approval (o2), and a cup with one place in each of two *)
(* offerings (o3, o4).  One family may buy a line in the league and one in *)
(* the camp; two others wait for the league.  Two lines fill the cup, and  *)
(* one person waits for both of its offerings.                             *)
(***************************************************************************)
EXTENDS RegistrationLifecycle

CONSTANTS league, camp, cup, div, o1, o2, o3, o4, a1, a2, b3, b4, w1, w2, w3, w4,
          p1, p2, p3, p4

MCProgramOf == [o \in Offerings |-> CASE o = o1 -> league [] o = o2 -> camp [] OTHER -> cup]
MCSubjectsOf == [o \in Offerings |-> IF o = o1 THEN {div, o1} ELSE {o}]
MCCapacity == [s \in Subjects |-> IF s = o1 THEN 2 ELSE 1]
MCPersonOf == [l \in Lines |->
    CASE l \in {a1, a2, b3} -> p1 [] l = b4 -> p4 [] l = w2 -> p3 [] OTHER -> p2]
MCOfferingOf == [l \in Lines |->
    CASE l \in {a1, w1, w2} -> o1 [] l = a2 -> o2 [] l \in {b3, w3} -> o3 [] OTHER -> o4]
MCCartOf == [l \in Lines |-> CASE l = a2 -> a1 [] l = b4 -> b3 [] OTHER -> l]

Case(mishaps, asked, destinations, free) ==
    [mishaps |-> mishaps, lines |-> asked, destinations |-> destinations,
     free |-> free]

\* With one that waits, nothing goes wrong, or one thing; nothing goes wrong
\* with two that wait, nor with one that waits twice; a line for the league
\* moves to the cup, and may be given up there.
MCGivens ==
    {Case(m, {a1, a2, w1}, {o1, o2}, BOOLEAN) : m \in {{}, {"siblings"}}}
    \cup {Case({m}, {a1, w1}, {o1, o2}, BOOLEAN) :
            m \in {"job", "unaccepted", "abandoned", "late_failure"}}
    \cup {Case({}, {a1, w1, w2}, {}, {TRUE}), Case({}, {a1, b4}, {o4}, {FALSE}),
          Case({"moved"}, {a1, b4}, {o4}, {FALSE}),
          Case({"siblings"}, {b3, b4, w3, w4}, {}, {TRUE})}

\* A payment fails after its registration was canceled.
MCLateFailure == {Case({"late_failure"}, {a1, w1, w2}, {}, {FALSE})}
=============================================================================
