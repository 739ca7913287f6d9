---------------------------- MODULE SeatLedger ----------------------------
(***************************************************************************)
(* What checkout capacity promises, without counters, clocks, payments or  *)
(* hold rows: a ledger of places.                                          *)
(*                                                                         *)
(* A place is a seat's place in one subject.  A family holds all the       *)
(* places of its cart or none; it then takes them all together, may have   *)
(* to hold them again when its payment fails, and may lose places it only  *)
(* holds, one by one, for good.  At no time does a subject promise more    *)
(* places than it has.                                                     *)
(***************************************************************************)
EXTENDS Integers, FiniteSets

CONSTANTS Checkouts, Subjects, Programs, Seats, CheckoutOf, SubjectsOf, Capacities, Unlimited

VARIABLES
    capacity,  \* places in each subject
    heldPlaces,
    takenPlaces,
    gonePlaces \* places held once and lost

Place == UNION {{x} \X SubjectsOf[x] : x \in Seats}

PlacesOf(c) == {p \in Place : CheckoutOf[p[1]] = c}

\* Seats with a place, out of those in P, in subject s.
SeatsOf(P, s) == {x \in Seats : s \in SubjectsOf[x] /\ <<x, s>> \in P}

\* The subjects have the places in P.
Room(P) ==
    \A s \in Subjects : capacity[s] # Unlimited => Cardinality(SeatsOf(P, s)) <= capacity[s]

Init ==
    /\ capacity \in [Subjects -> Capacities \cup {Unlimited}]
    /\ heldPlaces = {}
    /\ takenPlaces = {}
    /\ gonePlaces = {}

\* A cart gets all its places, once, if all its subjects have room.
HoldCart(c) ==
    /\ PlacesOf(c) \cap (heldPlaces \cup takenPlaces \cup gonePlaces) = {}
    /\ Room(heldPlaces \cup takenPlaces \cup PlacesOf(c))
    /\ heldPlaces' = heldPlaces \cup PlacesOf(c)
    /\ UNCHANGED <<capacity, takenPlaces, gonePlaces>>

\* It takes all of them together, while it still holds every one.
TakeCart(c) ==
    /\ PlacesOf(c) \subseteq heldPlaces
    /\ heldPlaces' = heldPlaces \ PlacesOf(c)
    /\ takenPlaces' = takenPlaces \cup PlacesOf(c)
    /\ UNCHANGED <<capacity, gonePlaces>>

\* It goes back to holding all of them.
HoldAgain(c) ==
    /\ PlacesOf(c) \subseteq takenPlaces
    /\ takenPlaces' = takenPlaces \ PlacesOf(c)
    /\ heldPlaces' = heldPlaces \cup PlacesOf(c)
    /\ UNCHANGED <<capacity, gonePlaces>>

\* Held places, some or all, are given up.
GiveUp ==
    /\ heldPlaces' \in SUBSET heldPlaces
    /\ gonePlaces' = gonePlaces \cup (heldPlaces \ heldPlaces')
    /\ UNCHANGED <<capacity, takenPlaces>>

\* Staff change a capacity, never below what is promised.
SetCapacity(s, n) ==
    /\ n # Unlimited => Cardinality(SeatsOf(heldPlaces \cup takenPlaces, s)) <= n
    /\ capacity' = [capacity EXCEPT ![s] = n]
    /\ UNCHANGED <<heldPlaces, takenPlaces, gonePlaces>>

Next ==
    \/ \E c \in Checkouts : HoldCart(c) \/ TakeCart(c) \/ HoldAgain(c)
    \/ GiveUp
    \/ \E s \in Subjects \ Programs, n \in Capacities : SetCapacity(s, n)

Spec == Init /\ [][Next]_<<capacity, heldPlaces, takenPlaces, gonePlaces>>
=============================================================================
