--------------------------- MODULE CheckoutProofs ---------------------------
(***************************************************************************)
(* Proofs about the checkout, for any set of carts, seats and subjects,    *)
(* any capacities and any windows: the invariants of CheckoutCapacity, and *)
(* that it implements SeatLedger; that the payment handlers of             *)
(* CheckoutPayments implement it, for any number of workers, intents,      *)
(* retries and faults; that money and seats agree there, and a cart whose  *)
(* bank payment processes keeps its places, but for what the properties    *)
(* name; and that the transactions of HoldLocking, statement by statement  *)
(* in any number of sessions, may be taken for single steps of it, but for *)
(* failed payments that come late and move no place.                       *)
(***************************************************************************)
EXTENDS CheckoutPayments, HoldLocking, FiniteSetTheorems, WellFoundedInduction, TLAPS

-----------------------------------------------------------------------------
(* CheckoutCapacity: the invariant.                                        *)

\* A cart not yet opened has no hold rows, and no cart has a hold in a
\* subject none of its seats is in.
HoldsBelong ==
    \A c \in Checkouts, s \in Subjects :
        status[c] = "none" \/ s \notin Cart(c) => hold[c][s] = "none"

\* What stays true when transactions interleave as they do in HoldLocking;
\* InFlightKeepsPlace rests on it, and it does not rest on that.
SeatsInv ==
    /\ TypeOK
    /\ HoldsBelong
    /\ Reconciled
    /\ NoOversell
    /\ ConfirmedTogether

SeatsKept == SeatsInv' /\ (InFlightKeepsPlace => InFlightKeepsPlace')

IInv ==
    /\ TypeOK
    /\ HoldsBelong
    /\ Reconciled
    /\ NoOversell
    /\ ConfirmedTogether
    /\ InFlightKeepsPlace

-----------------------------------------------------------------------------
(* Cardinality of seat sets.                                               *)

\* Adding a disjoint finite set adds its size, removing a part of a finite
\* set subtracts it.
LEMMA CardMove ==
    ASSUME NEW A, NEW B, IsFiniteSet(A), IsFiniteSet(B)
    PROVE  /\ Cardinality(A) \in Nat
           /\ Cardinality(B) \in Nat
           /\ A \cap B = {} => Cardinality(A \cup B) = Cardinality(A) + Cardinality(B)
           /\ B \subseteq A => /\ Cardinality(A \ B) = Cardinality(A) - Cardinality(B)
                               /\ Cardinality(B) <= Cardinality(A)
<1>1. Cardinality(A) \in Nat /\ Cardinality(B) \in Nat
  BY FS_CardinalityType
<1>2. ASSUME A \cap B = {}
      PROVE  Cardinality(A \cup B) = Cardinality(A) + Cardinality(B)
  <2>1. Cardinality(A \cup B) = Cardinality(A) + Cardinality(B) - Cardinality(A \cap B)
    BY FS_Union
  <2>2. Cardinality(A \cap B) = 0
    BY <1>2, FS_EmptySet
  <2> QED BY <1>1, <2>1, <2>2
<1>3. ASSUME B \subseteq A
      PROVE  /\ Cardinality(A \ B) = Cardinality(A) - Cardinality(B)
             /\ Cardinality(B) <= Cardinality(A)
  <2>1. Cardinality(A \ B) = Cardinality(A) - Cardinality(A \cap B)
    BY FS_Difference
  <2>2. A \cap B = B
    BY <1>3
  <2>3. Cardinality(B) <= Cardinality(A)
    BY <1>3, FS_Subset
  <2> QED BY <2>1, <2>2, <2>3
<1> QED BY <1>1, <1>2, <1>3

\* Seat sets are finite, so quantities and occupancies are naturals.
LEMMA SeatSetsFinite ==
    /\ \A c, s : IsFiniteSet(SeatsIn(c, s)) /\ Quantity(c, s) \in Nat
    /\ \A st, s : IsFiniteSet(Occupied(st, s)) /\ Cardinality(Occupied(st, s)) \in Nat
    /\ \A due, s : /\ IsFiniteSet(BatchSeats(due, s))
                     /\ Cardinality(BatchSeats(due, s)) \in Nat
<1>1. \A T \in SUBSET Seats : IsFiniteSet(T) /\ Cardinality(T) \in Nat
  BY CartAssumption, FS_Subset, FS_CardinalityType
<1>2. \A c, s : SeatsIn(c, s) \in SUBSET Seats
  BY DEF SeatsIn
<1>3. \A st, s : Occupied(st, s) \in SUBSET Seats
  BY DEF Occupied
<1>4. \A due, s : BatchSeats(due, s) \in SUBSET Seats
  BY DEF BatchSeats
<1> QED BY <1>1, <1>2, <1>3, <1>4 DEF Quantity

\* A cart takes no place in a subject outside it.
LEMMA NothingOutsideCart ==
    ASSUME NEW c, NEW s, s \notin Cart(c)
    PROVE  Quantity(c, s) = 0
<1>1. SeatsIn(c, s) = {}
  BY DEF SeatsIn, Cart
<1> QED BY <1>1, FS_EmptySet DEF Quantity

\* The effect on subject s of moving the holds of cart c in the subjects S
\* from one state to another: exactly the cart's seats change occupancy.
HoldsMoved(c, S, old, new, s) ==
    /\ s \in S =>
         /\ Cardinality(Occupied(new, s))' = Cardinality(Occupied(new, s)) + Quantity(c, s)
         /\ Cardinality(Occupied(old, s))' = Cardinality(Occupied(old, s)) - Quantity(c, s)
         /\ Quantity(c, s) <= Cardinality(Occupied(old, s))
    /\ s \notin S => \A st : Cardinality(Occupied(st, s))' = Cardinality(Occupied(st, s))
    /\ \A st : st # old /\ st # new =>
         Cardinality(Occupied(st, s))' = Cardinality(Occupied(st, s))

\* Setting a cart's holds from old to new moves its seats.
LEMMA MoveHolds ==
    ASSUME NEW c \in Checkouts, NEW S \in SUBSET Subjects, NEW s \in Subjects,
           NEW old, NEW new, old # new,
           hold \in [Checkouts -> [Subjects -> HoldStatus]],
           \A q \in S : hold[c][q] = old,
           hold' = SetHolds(c, S, new)
    PROVE  HoldsMoved(c, S, old, new, s)
<1> USE CartAssumption
<1>1. \A d \in Checkouts : hold'[d][s] = IF d = c /\ s \in S THEN new ELSE hold[d][s]
  BY DEF SetHolds
<1>2. ASSUME s \in S
      PROVE  /\ Occupied(new, s)' = Occupied(new, s) \cup SeatsIn(c, s)
             /\ Occupied(new, s) \cap SeatsIn(c, s) = {}
             /\ Occupied(old, s)' = Occupied(old, s) \ SeatsIn(c, s)
             /\ SeatsIn(c, s) \subseteq Occupied(old, s)
  BY <1>1, <1>2 DEF Occupied, SeatsIn
<1>3. ASSUME s \in S
      PROVE  /\ Cardinality(Occupied(new, s)') = Cardinality(Occupied(new, s)) + Quantity(c, s)
             /\ Cardinality(Occupied(old, s)') = Cardinality(Occupied(old, s)) - Quantity(c, s)
             /\ Quantity(c, s) <= Cardinality(Occupied(old, s))
  BY <1>2, <1>3, SeatSetsFinite, CardMove DEF Quantity
<1>4. ASSUME s \notin S, NEW st
      PROVE  Occupied(st, s)' = Occupied(st, s)
  BY <1>1, <1>4 DEF Occupied
<1>5. ASSUME NEW st, st # old, st # new
      PROVE  Occupied(st, s)' = Occupied(st, s)
  BY <1>1, <1>5 DEF Occupied
<1> QED BY <1>3, <1>4, <1>5 DEF HoldsMoved

\* A job batch moves exactly the batch's seats from active to released.
LEMMA MoveBatch ==
    ASSUME NEW due \in SUBSET DueHolds,
           hold \in [Checkouts -> [Subjects -> HoldStatus]],
           hold' = [c \in Checkouts |-> [s \in Subjects |->
                      IF <<c, s>> \in due THEN "released" ELSE hold[c][s]]],
           NEW s \in Subjects
    PROVE  /\ Cardinality(Occupied("active", s))' =
                  Cardinality(Occupied("active", s)) - Cardinality(BatchSeats(due, s))
           /\ Cardinality(BatchSeats(due, s)) <= Cardinality(Occupied("active", s))
           /\ Cardinality(Occupied("converted", s))' = Cardinality(Occupied("converted", s))
<1> USE CartAssumption
<1>1. \A c \in Checkouts : hold'[c][s] = IF <<c, s>> \in due THEN "released" ELSE hold[c][s]
  OBVIOUS
<1>2. \A c \in Checkouts : <<c, s>> \in due => hold[c][s] = "active"
  BY DEF DueHolds
<1>3. /\ Occupied("active", s)' = Occupied("active", s) \ BatchSeats(due, s)
      /\ BatchSeats(due, s) \subseteq Occupied("active", s)
      /\ Occupied("converted", s)' = Occupied("converted", s)
  BY <1>1, <1>2 DEF Occupied, BatchSeats
<1> QED BY <1>3, SeatSetsFinite, CardMove

-----------------------------------------------------------------------------
(* The inductive invariant.                                                *)

LEMMA InitIInv == Init => IInv
<1> SUFFICES ASSUME Init PROVE IInv
  OBVIOUS
<1> USE CartAssumption, CapacityAssumption, TimeAssumption DEF Init
<1>1. TypeOK
  BY DEF TypeOK, CheckoutStatus, HoldStatus, RegistrationStatus
<1>2. Reconciled
  <2>1. \A s \in Subjects : Occupied("active", s) = {} /\ Occupied("converted", s) = {}
    BY DEF Occupied
  <2> QED BY <2>1, FS_EmptySet DEF Reconciled
<1>3. NoOversell
  BY <1>1 DEF NoOversell, TypeOK
<1>4. HoldsBelong /\ ConfirmedTogether /\ InFlightKeepsPlace
  BY DEF HoldsBelong, ConfirmedTogether, InFlightKeepsPlace
<1> QED BY <1>1, <1>2, <1>3, <1>4 DEF IInv

\* Types are preserved by every step.
LEMMA TypeStep == TypeOK /\ [Next]_vars => TypeOK'
<1> SUFFICES ASSUME TypeOK, [Next]_vars PROVE TypeOK'
  OBVIOUS
<1> USE CartAssumption, CapacityAssumption, TimeAssumption, SeatSetsFinite
        DEF TypeOK, CheckoutStatus, HoldStatus, RegistrationStatus, counters, checkout
<1>1. ASSUME NEW c \in Checkouts, StartCheckout(c) PROVE TypeOK'
  BY <1>1 DEF StartCheckout
<1>2. ASSUME NEW c \in Checkouts, Reserve(c) PROVE TypeOK'
  BY <1>2 DEF Reserve, SetHolds
<1>3. ASSUME NEW c \in Checkouts, Extend(c) PROVE TypeOK'
  BY <1>3 DEF Extend, HoldExpiresAt
<1>4. ASSUME NEW c \in Checkouts, Freeze(c) PROVE TypeOK'
  BY <1>4 DEF Freeze
<1>5. ASSUME NEW c \in Checkouts, QuotePaid(c) PROVE TypeOK'
  BY <1>5 DEF QuotePaid
<1>6. ASSUME NEW c \in Checkouts, NEW r \in RegistrationStatus,
             ConfirmHolds(c, r), UNCHANGED <<capacity, holdExpires, now>>
      PROVE TypeOK'
  <2>1. \A s \in Subjects : held[s] >= Quantity(c, s)
    <3> TAKE s \in Subjects
    <3>1. CASE s \in Cart(c)
      BY <1>6, <3>1 DEF ConfirmHolds
    <3>2. CASE s \notin Cart(c)
      BY <3>2, NothingOutsideCart
    <3> QED BY <3>1, <3>2
  <2> QED BY <1>6, <2>1 DEF ConfirmHolds, SetHolds
<1>7. ASSUME NEW c \in Checkouts, NEW charge \in BOOLEAN, QuoteForApproval(c, charge)
      PROVE TypeOK'
  BY <1>7 DEF QuoteForApproval
<1>8. ASSUME NEW c \in Checkouts, KeepForFailedPayment(c) PROVE TypeOK'
  <2> DEFINE back == {s \in Cart(c) : hold[c][s] = "converted"}
  <2>1. \A s \in Subjects :
           (IF s \in back THEN confirmed[s] - Quantity(c, s) ELSE confirmed[s]) \in Nat
    BY <1>8 DEF KeepForFailedPayment
  <2>2. confirmed' \in [Subjects -> Nat] /\ held' \in [Subjects -> Nat]
    BY <1>8, <2>1 DEF KeepForFailedPayment
  <2> QED BY <1>8, <2>2 DEF KeepForFailedPayment, SetHolds
<1>9. ASSUME NEW c \in Checkouts, Release(c) PROVE TypeOK'
  BY <1>9 DEF Release, SetHolds
<1>10. ASSUME NEW due \in SUBSET DueHolds, ReleaseExpiredHolds(due) PROVE TypeOK'
  BY <1>10 DEF ReleaseExpiredHolds
<1>11. ASSUME NEW s \in Subjects \ Programs, NEW n \in Capacities, SetCapacity(s, n)
       PROVE TypeOK'
  BY <1>11 DEF SetCapacity
<1>12. CASE Tick
  BY <1>12 DEF Tick
<1>13. CASE UNCHANGED vars
  BY <1>13 DEF vars
<1>14. ASSUME NEW c \in Checkouts, CartStep(c) PROVE TypeOK'
  BY <1>1, <1>2, <1>3, <1>4, <1>5, <1>6, <1>7, <1>8, <1>9, <1>14
     DEF CartStep, QuoteFree, Confirm
<1> QED BY <1>10, <1>11, <1>12, <1>13, <1>14 DEF Next

\* A step that leaves the hold rows and the counters alone keeps them
\* reconciled and within capacity.
LEMMA CountersUntouched ==
    ASSUME Reconciled, NoOversell, UNCHANGED <<counters, hold>>
    PROVE  Reconciled' /\ NoOversell'
<1>1. \A st, s : Occupied(st, s)' = Occupied(st, s)
  BY DEF Occupied
<1>2. Reconciled'
  BY <1>1 DEF Reconciled, counters
<1>3. NoOversell'
  BY DEF NoOversell, counters
<1> QED BY <1>2, <1>3

\* Reserve: every subject of the cart has room for its quantity.
LEMMA ReserveStep ==
    ASSUME SeatsInv, NEW c \in Checkouts, Reserve(c), TypeOK'
    PROVE  SeatsKept
<1> USE CartAssumption DEF SeatsInv, TypeOK, checkout
<1>1. Cart(c) \in SUBSET Subjects
  BY DEF Cart
<1>2. Reconciled' /\ NoOversell'
  <2> SUFFICES ASSUME NEW s \in Subjects
               PROVE  /\ held'[s] = Cardinality(Occupied("active", s))'
                      /\ confirmed'[s] = Cardinality(Occupied("converted", s))'
                      /\ capacity'[s] # Unlimited => confirmed'[s] + held'[s] <= capacity'[s]
    BY DEF Reconciled, NoOversell
  <2>1. /\ held'[s] = held[s] + Quantity(c, s)
        /\ confirmed'[s] = confirmed[s]
        /\ capacity'[s] = capacity[s]
    BY DEF Reserve
  <2>2. /\ held[s] = Cardinality(Occupied("active", s))
        /\ confirmed[s] = Cardinality(Occupied("converted", s))
        /\ capacity[s] # Unlimited => confirmed[s] + held[s] <= capacity[s]
    BY DEF Reconciled, NoOversell
  <2>5. HoldsMoved(c, Cart(c), "none", "active", s)
    <3>1. \A q \in Cart(c) : hold[c][q] = "none"
      BY DEF Reserve
    <3>2. hold' = SetHolds(c, Cart(c), "active")
      BY DEF Reserve
    <3>3. hold \in [Checkouts -> [Subjects -> HoldStatus]]
      OBVIOUS
    <3> QED BY ONLY <1>1, <3>1, <3>2, <3>3, MoveHolds
  <2>3. CASE s \in Cart(c)
    <3>1. /\ Cardinality(Occupied("active", s))' = Cardinality(Occupied("active", s)) + Quantity(c, s)
          /\ Cardinality(Occupied("converted", s))' = Cardinality(Occupied("converted", s))
      BY <2>3, <2>5 DEF HoldsMoved
    <3>2. capacity[s] # Unlimited => confirmed[s] + held[s] + Quantity(c, s) <= capacity[s]
      BY <2>3 DEF Reserve, Fits
    <3>3. capacity[s] # Unlimited => capacity[s] \in Nat
      OBVIOUS
    <3> QED BY <2>1, <2>2, <3>1, <3>2, <3>3, SeatSetsFinite
  <2>4. CASE s \notin Cart(c)
    <3>1. \A st : Cardinality(Occupied(st, s))' = Cardinality(Occupied(st, s))
      BY <2>4, <2>5 DEF HoldsMoved
    <3>2. Quantity(c, s) = 0
      BY <2>4, NothingOutsideCart
    <3> QED BY <2>1, <2>2, <3>1, <3>2
  <2> QED BY <2>3, <2>4
<1>3. HoldsBelong'
  BY <1>1 DEF HoldsBelong, Reserve, SetHolds
<1>4. ConfirmedTogether'
  BY <1>1 DEF ConfirmedTogether, Reserve, SetHolds
<1>5. InFlightKeepsPlace => InFlightKeepsPlace'
  BY <1>1 DEF InFlightKeepsPlace, Reserve, SetHolds
<1> QED BY <1>2, <1>3, <1>4, <1>5 DEF SeatsKept

\* Confirmation moves the whole cart from held to confirmed.
LEMMA ConfirmStep ==
    ASSUME SeatsInv, TypeOK', NEW c \in Checkouts,
           NEW r \in {"pending_payment", "confirmed"}, ConfirmHolds(c, r),
           UNCHANGED <<capacity, holdExpires, now>>
    PROVE  SeatsKept
<1> USE CartAssumption DEF SeatsInv, TypeOK
<1>1. Cart(c) \in SUBSET Subjects
  BY DEF Cart
<1>2. Reconciled' /\ NoOversell'
  <2> SUFFICES ASSUME NEW s \in Subjects
               PROVE  /\ held'[s] = Cardinality(Occupied("active", s))'
                      /\ confirmed'[s] = Cardinality(Occupied("converted", s))'
                      /\ capacity'[s] # Unlimited => confirmed'[s] + held'[s] <= capacity'[s]
    BY DEF Reconciled, NoOversell
  <2>1. /\ held'[s] = held[s] - Quantity(c, s)
        /\ confirmed'[s] = confirmed[s] + Quantity(c, s)
        /\ capacity'[s] = capacity[s]
    BY DEF ConfirmHolds
  <2>2. /\ held[s] = Cardinality(Occupied("active", s))
        /\ confirmed[s] = Cardinality(Occupied("converted", s))
        /\ capacity[s] # Unlimited => confirmed[s] + held[s] <= capacity[s]
    BY DEF Reconciled, NoOversell
  <2>3. /\ Cardinality(Occupied("active", s))' = Cardinality(Occupied("active", s)) - Quantity(c, s)
        /\ Cardinality(Occupied("converted", s))' =
              Cardinality(Occupied("converted", s)) + Quantity(c, s)
    <3>0. HoldsMoved(c, Cart(c), "active", "converted", s)
      <4>1. \A q \in Cart(c) : hold[c][q] = "active"
        BY DEF ConfirmHolds, AllActive
      <4>2. hold' = SetHolds(c, Cart(c), "converted")
        BY DEF ConfirmHolds
      <4>3. hold \in [Checkouts -> [Subjects -> HoldStatus]]
        OBVIOUS
      <4> QED BY ONLY <1>1, <4>1, <4>2, <4>3, MoveHolds
    <3>1. CASE s \in Cart(c)
      BY <3>0, <3>1 DEF HoldsMoved
    <3>2. CASE s \notin Cart(c)
      <4>1. \A st : Cardinality(Occupied(st, s))' = Cardinality(Occupied(st, s))
        BY <3>0, <3>2 DEF HoldsMoved
      <4>2. Quantity(c, s) = 0
        BY <3>2, NothingOutsideCart
      <4> QED BY <4>1, <4>2, SeatSetsFinite
    <3> QED BY <3>1, <3>2
  <2>4. confirmed'[s] + held'[s] = confirmed[s] + held[s]
    BY <2>1, SeatSetsFinite
  <2> QED BY <2>1, <2>2, <2>3, <2>4
<1>3. HoldsBelong'
  BY <1>1 DEF HoldsBelong, ConfirmHolds, SetHolds
<1>4. ConfirmedTogether'
  BY <1>1 DEF ConfirmedTogether, HoldsBelong, ConfirmHolds, SetHolds
<1>5. InFlightKeepsPlace => InFlightKeepsPlace'
  BY <1>1 DEF InFlightKeepsPlace, ConfirmHolds, SetHolds
<1> QED BY <1>2, <1>3, <1>4, <1>5 DEF SeatsKept

\* The first failed payment moves the confirmed part of a cart back to held.
LEMMA KeepStep ==
    ASSUME SeatsInv, TypeOK', NEW c \in Checkouts, KeepForFailedPayment(c)
    PROVE  SeatsKept
<1> USE CartAssumption DEF SeatsInv, TypeOK
<1>1. Cart(c) \in SUBSET Subjects
  BY DEF Cart
<1>2. PICK back \in SUBSET Subjects : back = {s \in Cart(c) : hold[c][s] = "converted"}
  BY <1>1
<1>3. Reconciled' /\ NoOversell'
  <2> SUFFICES ASSUME NEW s \in Subjects
               PROVE  /\ held'[s] = Cardinality(Occupied("active", s))'
                      /\ confirmed'[s] = Cardinality(Occupied("converted", s))'
                      /\ capacity'[s] # Unlimited => confirmed'[s] + held'[s] <= capacity'[s]
    BY DEF Reconciled, NoOversell
  <2>1. /\ held'[s] = IF s \in back THEN held[s] + Quantity(c, s) ELSE held[s]
        /\ confirmed'[s] = IF s \in back THEN confirmed[s] - Quantity(c, s) ELSE confirmed[s]
        /\ capacity'[s] = capacity[s]
    BY <1>2 DEF KeepForFailedPayment
  <2>2. /\ held[s] = Cardinality(Occupied("active", s))
        /\ confirmed[s] = Cardinality(Occupied("converted", s))
        /\ capacity[s] # Unlimited => confirmed[s] + held[s] <= capacity[s]
    BY DEF Reconciled, NoOversell
  <2>3. HoldsMoved(c, back, "converted", "active", s)
    <3>1. \A q \in back : hold[c][q] = "converted"
      BY <1>2
    <3>2. hold' = SetHolds(c, back, "active")
      <4>1. \A q \in Cart(c) \ back : hold[c][q] = "active"
        BY <1>2 DEF KeepForFailedPayment
      <4>2. \A q \in Subjects :
               (IF q \in Cart(c) THEN "active" ELSE hold[c][q])
                  = (IF q \in back THEN "active" ELSE hold[c][q])
        BY <1>2, <4>1
      <4>3. [q \in Subjects |-> IF q \in Cart(c) THEN "active" ELSE hold[c][q]]
               = [q \in Subjects |-> IF q \in back THEN "active" ELSE hold[c][q]]
        BY ONLY <4>2
      <4>4. hold' = SetHolds(c, Cart(c), "active")
        BY DEF KeepForFailedPayment
      <4> QED BY ONLY <4>3, <4>4 DEF SetHolds
    <3>3. hold \in [Checkouts -> [Subjects -> HoldStatus]]
      OBVIOUS
    <3> QED BY ONLY <3>1, <3>2, <3>3, MoveHolds
  <2>4. confirmed'[s] + held'[s] = confirmed[s] + held[s]
    BY <2>1, SeatSetsFinite
  <2>5. CASE s \in back
    BY <2>1, <2>2, <2>3, <2>4, <2>5 DEF HoldsMoved
  <2>6. CASE s \notin back
    BY <2>1, <2>2, <2>3, <2>4, <2>6 DEF HoldsMoved
  <2> QED BY <2>5, <2>6
<1>4. HoldsBelong'
  BY <1>1 DEF HoldsBelong, KeepForFailedPayment, SetHolds
<1>5. ConfirmedTogether'
  BY <1>1 DEF ConfirmedTogether, HoldsBelong, KeepForFailedPayment, SetHolds, RegistrationStatus
<1>6. InFlightKeepsPlace => InFlightKeepsPlace'
  BY <1>1 DEF InFlightKeepsPlace, KeepForFailedPayment, SetHolds
<1> QED BY <1>3, <1>4, <1>5, <1>6 DEF SeatsKept

\* Releasing a cart gives back its active places and no confirmed one.
LEMMA ReleaseStep ==
    ASSUME SeatsInv, TypeOK', NEW c \in Checkouts, Release(c)
    PROVE  SeatsKept
<1> USE CartAssumption DEF SeatsInv, TypeOK
<1>1. Cart(c) \in SUBSET Subjects
  BY DEF Cart
<1>2. PICK back \in SUBSET Subjects : back = {s \in Cart(c) : hold[c][s] = "active"}
  BY <1>1
<1>3. Reconciled' /\ NoOversell'
  <2> SUFFICES ASSUME NEW s \in Subjects
               PROVE  /\ held'[s] = Cardinality(Occupied("active", s))'
                      /\ confirmed'[s] = Cardinality(Occupied("converted", s))'
                      /\ capacity'[s] # Unlimited => confirmed'[s] + held'[s] <= capacity'[s]
    BY DEF Reconciled, NoOversell
  <2>1. /\ held'[s] = IF s \in back THEN held[s] - Quantity(c, s) ELSE held[s]
        /\ confirmed'[s] = confirmed[s]
        /\ capacity'[s] = capacity[s]
    BY <1>2 DEF Release
  <2>2. /\ held[s] = Cardinality(Occupied("active", s))
        /\ confirmed[s] = Cardinality(Occupied("converted", s))
        /\ capacity[s] # Unlimited => confirmed[s] + held[s] <= capacity[s]
    BY DEF Reconciled, NoOversell
  <2>3. HoldsMoved(c, back, "active", "released", s)
    <3>1. \A q \in back : hold[c][q] = "active"
      BY <1>2
    <3>2. hold' = SetHolds(c, back, "released")
      BY <1>2 DEF Release
    <3>3. hold \in [Checkouts -> [Subjects -> HoldStatus]]
      OBVIOUS
    <3> QED BY ONLY <3>1, <3>2, <3>3, MoveHolds
  <2>4. /\ held'[s] <= held[s]
        /\ capacity[s] # Unlimited => capacity[s] \in Nat
    BY <2>1, SeatSetsFinite
  <2>5. capacity'[s] # Unlimited => confirmed'[s] + held'[s] <= capacity'[s]
    BY <2>1, <2>2, <2>4
  <2> QED BY <2>1, <2>2, <2>3, <2>5 DEF HoldsMoved
<1>4. HoldsBelong'
  BY <1>1, <1>2 DEF HoldsBelong, Release, SetHolds
<1>5. ConfirmedTogether'
  BY <1>1, <1>2 DEF ConfirmedTogether, Release, SetHolds
<1>6. InFlightKeepsPlace => InFlightKeepsPlace'
  BY <1>1, <1>2 DEF InFlightKeepsPlace, Release, SetHolds
<1> QED BY <1>3, <1>4, <1>5, <1>6 DEF SeatsKept

\* A job batch gives back exactly the places of the rows it releases.
LEMMA BatchStep ==
    ASSUME SeatsInv, TypeOK', NEW due \in SUBSET DueHolds, ReleaseExpiredHolds(due)
    PROVE  SeatsKept
<1> USE CartAssumption, TimeAssumption DEF SeatsInv, TypeOK
<1>1. \A c \in Checkouts, s \in Subjects :
         hold'[c][s] = IF <<c, s>> \in due THEN "released" ELSE hold[c][s]
  BY DEF ReleaseExpiredHolds
<1>2. \A c \in Checkouts, s \in Subjects : <<c, s>> \in due =>
         /\ s \in Cart(c)
         /\ hold[c][s] = "active"
         /\ holdExpires[c] <= now
         /\ \/ status[c] \in {"open", "expired"}
            \/ status[c] = "awaiting_payment" /\ holdExpires[c] + Grace <= now
  BY DEF DueHolds
<1>3. \A c \in Checkouts :
         \/ status'[c] = status[c]
         \/ status[c] = "open" /\ status'[c] = "expired"
  <2> TAKE c \in Checkouts
  <2> DEFINE expires == /\ \E s \in Subjects : <<c, s>> \in due
                        /\ status[c] = "open"
                        /\ expiresAt[c] <= now
  <2>1. status'[c] = IF expires THEN "expired" ELSE status[c]
    BY DEF ReleaseExpiredHolds
  <2>2. expires => status[c] = "open"
    OBVIOUS
  <2> HIDE DEF expires
  <2> QED BY <2>1, <2>2
<1>4. UNCHANGED <<capacity, confirmed, holdExpires, registration, now>>
  BY DEF ReleaseExpiredHolds
<1>5. Reconciled' /\ NoOversell'
  <2> SUFFICES ASSUME NEW s \in Subjects
               PROVE  /\ held'[s] = Cardinality(Occupied("active", s))'
                      /\ confirmed'[s] = Cardinality(Occupied("converted", s))'
                      /\ capacity'[s] # Unlimited => confirmed'[s] + held'[s] <= capacity'[s]
    BY DEF Reconciled, NoOversell
  <2>1. held'[s] = held[s] - Cardinality(BatchSeats(due, s))
    BY DEF ReleaseExpiredHolds
  <2>2. /\ held[s] = Cardinality(Occupied("active", s))
        /\ confirmed[s] = Cardinality(Occupied("converted", s))
        /\ capacity[s] # Unlimited => confirmed[s] + held[s] <= capacity[s]
    BY DEF Reconciled, NoOversell
  <2>3. /\ Cardinality(Occupied("active", s))' =
              Cardinality(Occupied("active", s)) - Cardinality(BatchSeats(due, s))
        /\ Cardinality(Occupied("converted", s))' = Cardinality(Occupied("converted", s))
    BY MoveBatch DEF ReleaseExpiredHolds
  <2>4. /\ held'[s] <= held[s]
        /\ capacity[s] # Unlimited => capacity[s] \in Nat
    BY <2>1, SeatSetsFinite
  <2>5. capacity'[s] # Unlimited => confirmed'[s] + held'[s] <= capacity'[s]
    BY <1>4, <2>2, <2>4
  <2> QED BY <1>4, <2>1, <2>2, <2>3, <2>5
<1>6. HoldsBelong'
  <2> SUFFICES ASSUME NEW c \in Checkouts, NEW s \in Subjects,
                      status'[c] = "none" \/ s \notin Cart(c)
               PROVE  hold'[c][s] = "none"
    BY DEF HoldsBelong
  <2>1. hold[c][s] = "none"
    BY <1>3 DEF HoldsBelong
  <2>2. <<c, s>> \in due => hold[c][s] = "active"
    BY <1>2
  <2>3. hold'[c][s] = IF <<c, s>> \in due THEN "released" ELSE hold[c][s]
    BY <1>1
  <2> QED BY ONLY <2>1, <2>2, <2>3
<1>7. ConfirmedTogether'
  <2> SUFFICES ASSUME NEW c \in Checkouts
               PROVE  /\ status'[c] = "completed" =>
                            /\ \A s \in Cart(c) : hold'[c][s] = "converted"
                            /\ registration'[c] = "confirmed"
                      /\ (\/ registration'[c] = "confirmed"
                          \/ \E s \in Subjects : hold'[c][s] = "converted")
                            => status'[c] = "completed"
    BY DEF ConfirmedTogether
  <2>1. (status'[c] = "completed") <=> (status[c] = "completed")
    BY <1>3
  <2>2. \A s \in Subjects : hold'[c][s] = "converted" => hold[c][s] = "converted"
    BY <1>1
  <2>3. status[c] = "completed" => \A s \in Subjects : hold'[c][s] = hold[c][s]
    <3> SUFFICES ASSUME status[c] = "completed", NEW s \in Subjects
                 PROVE  hold'[c][s] = hold[c][s]
      OBVIOUS
    <3>1. <<c, s>> \notin due
      BY <1>2
    <3>2. hold'[c][s] = IF <<c, s>> \in due THEN "released" ELSE hold[c][s]
      BY <1>1
    <3> QED BY ONLY <3>1, <3>2
  <2>4. Cart(c) \subseteq Subjects
    BY DEF Cart
  <2> QED BY <1>4, <2>1, <2>2, <2>3, <2>4 DEF ConfirmedTogether
<1>8. InFlightKeepsPlace => InFlightKeepsPlace'
  <2> SUFFICES ASSUME InFlightKeepsPlace, NEW c \in Checkouts, NEW s \in Cart(c), s \in Subjects,
                      \/ status'[c] = "awaiting_payment" /\ now < holdExpires[c] + Grace
                      \/ status'[c] = "open" /\ now < holdExpires[c]
               PROVE  hold'[c][s] # "released"
    BY <1>4 DEF InFlightKeepsPlace, Cart
  <2>1. status'[c] = status[c]
    BY <1>3
  <2>2. hold[c][s] # "released"
    BY <2>1 DEF InFlightKeepsPlace
  <2>3. <<c, s>> \notin due
    <3> SUFFICES ASSUME <<c, s>> \in due PROVE FALSE
      OBVIOUS
    <3>1. /\ holdExpires[c] <= now
          /\ \/ status[c] \in {"open", "expired"}
             \/ status[c] = "awaiting_payment" /\ holdExpires[c] + Grace <= now
      BY <1>2
    <3> QED BY <2>1, <3>1
  <2> QED BY <1>1, <2>2, <2>3
<1> QED BY <1>5, <1>6, <1>7, <1>8 DEF SeatsKept

\* Every step preserves the inductive invariant.
LEMMA SeatsStep == SeatsInv /\ [Next]_vars => SeatsKept
<1> SUFFICES ASSUME SeatsInv, [Next]_vars PROVE SeatsKept
  OBVIOUS
<1>0. TypeOK'
  BY TypeStep DEF SeatsInv
<1>1. ASSUME NEW c \in Checkouts, StartCheckout(c) PROVE SeatsKept
  <2>1. Reconciled' /\ NoOversell'
    BY <1>1, CountersUntouched DEF SeatsInv, StartCheckout, counters
  <2>2. HoldsBelong' /\ ConfirmedTogether' /\ (InFlightKeepsPlace => InFlightKeepsPlace')
    BY <1>1, CartAssumption
       DEF SeatsInv, TypeOK, StartCheckout, HoldsBelong, ConfirmedTogether, InFlightKeepsPlace, Cart
  <2> QED BY <1>0, <2>1, <2>2 DEF SeatsInv, SeatsKept
<1>2. ASSUME NEW c \in Checkouts, Extend(c) PROVE SeatsKept
  <2>1. Reconciled' /\ NoOversell'
    BY <1>2, CountersUntouched DEF SeatsInv, Extend, counters
  <2>2. HoldsBelong' /\ ConfirmedTogether' /\ (InFlightKeepsPlace => InFlightKeepsPlace')
    BY <1>2
       DEF SeatsInv, TypeOK, Extend, AllActive, HoldsBelong, ConfirmedTogether, InFlightKeepsPlace
  <2> QED BY <1>0, <2>1, <2>2 DEF SeatsInv, SeatsKept
<1>3. ASSUME NEW c \in Checkouts, Freeze(c) PROVE SeatsKept
  <2>1. Reconciled' /\ NoOversell'
    BY <1>3, CountersUntouched DEF SeatsInv, Freeze, counters
  <2>2. HoldsBelong' /\ ConfirmedTogether' /\ (InFlightKeepsPlace => InFlightKeepsPlace')
    BY <1>3
       DEF SeatsInv, TypeOK, Freeze, AllActive, HoldsBelong, ConfirmedTogether, InFlightKeepsPlace
  <2> QED BY <1>0, <2>1, <2>2 DEF SeatsInv, SeatsKept
<1>4. ASSUME NEW c \in Checkouts, QuotePaid(c) PROVE SeatsKept
  <2>1. Reconciled' /\ NoOversell'
    BY <1>4, CountersUntouched DEF SeatsInv, QuotePaid, counters
  <2>2. HoldsBelong' /\ ConfirmedTogether' /\ (InFlightKeepsPlace => InFlightKeepsPlace')
    BY <1>4 DEF SeatsInv, TypeOK, QuotePaid, Quotable, AllActive, checkout,
                HoldsBelong, ConfirmedTogether, InFlightKeepsPlace
  <2> QED BY <1>0, <2>1, <2>2 DEF SeatsInv, SeatsKept
<1>5. ASSUME NEW c \in Checkouts, NEW charge \in BOOLEAN, QuoteForApproval(c, charge)
      PROVE  SeatsKept
  <2>1. Reconciled' /\ NoOversell'
    BY <1>5, CountersUntouched DEF SeatsInv, QuoteForApproval, counters
  <2>2. HoldsBelong' /\ ConfirmedTogether' /\ (InFlightKeepsPlace => InFlightKeepsPlace')
    BY <1>5 DEF SeatsInv, TypeOK, QuoteForApproval, Quotable, AllActive,
                HoldsBelong, ConfirmedTogether, InFlightKeepsPlace
  <2> QED BY <1>0, <2>1, <2>2 DEF SeatsInv, SeatsKept
<1>6. ASSUME NEW c \in Checkouts, CartStep(c) PROVE SeatsKept
  <2>1. CASE QuoteFree(c)
    BY <1>0, <2>1, ConfirmStep DEF QuoteFree
  <2>2. ASSUME NEW honor_ \in BOOLEAN, Payable(c), Confirm(c, honor_) PROVE SeatsKept
    BY <1>0, <2>2, ConfirmStep DEF Payable, Confirm
  <2> QED BY <1>0, <1>1, <1>2, <1>3, <1>4, <1>5, <1>6, <2>1, <2>2,
             ReserveStep, KeepStep, ReleaseStep DEF CartStep
<1>7. ASSUME NEW s \in Subjects \ Programs, NEW n \in Capacities, SetCapacity(s, n)
      PROVE  SeatsKept
  <2>1. Reconciled'
    <3>1. \A st, q : Occupied(st, q)' = Occupied(st, q)
      BY <1>7 DEF SetCapacity, Occupied
    <3> QED BY <1>7, <3>1 DEF SeatsInv, SetCapacity, Reconciled
  <2>2. NoOversell'
    BY <1>7 DEF SeatsInv, TypeOK, SetCapacity, NoOversell
  <2>3. HoldsBelong' /\ ConfirmedTogether' /\ (InFlightKeepsPlace => InFlightKeepsPlace')
    BY <1>7 DEF SeatsInv, SetCapacity, checkout, HoldsBelong, ConfirmedTogether, InFlightKeepsPlace
  <2> QED BY <1>0, <2>1, <2>2, <2>3 DEF SeatsInv, SeatsKept
<1>8. CASE Tick
  <2>1. Reconciled' /\ NoOversell'
    BY <1>8, CountersUntouched DEF SeatsInv, Tick, counters
  <2>2. HoldsBelong' /\ ConfirmedTogether' /\ (InFlightKeepsPlace => InFlightKeepsPlace')
    BY <1>8, TimeAssumption
       DEF SeatsInv, TypeOK, Tick, checkout, HoldsBelong, ConfirmedTogether, InFlightKeepsPlace
  <2> QED BY <1>0, <2>1, <2>2 DEF SeatsInv, SeatsKept
<1>9. CASE UNCHANGED vars
  <2>1. Reconciled' /\ NoOversell'
    BY <1>9, CountersUntouched DEF SeatsInv, vars, counters
  <2>2. HoldsBelong' /\ ConfirmedTogether' /\ (InFlightKeepsPlace => InFlightKeepsPlace')
    BY <1>9 DEF SeatsInv, vars, checkout, HoldsBelong, ConfirmedTogether, InFlightKeepsPlace
  <2> QED BY <1>0, <2>1, <2>2 DEF SeatsInv, SeatsKept
<1> QED BY <1>0, <1>6, <1>7, <1>8, <1>9, BatchStep DEF Next

LEMMA IInvParts == IInv <=> SeatsInv /\ InFlightKeepsPlace
  BY DEF IInv, SeatsInv

LEMMA IInvStep == IInv /\ [Next]_vars => IInv'
  BY SeatsStep, IInvParts DEF SeatsKept, IInv, SeatsInv

-----------------------------------------------------------------------------
(* Theorems.                                                               *)

\* The invariant holds throughout.
THEOREM Inductive == Spec => []IInv
<1> QED BY InitIInv, IInvStep, PTL DEF Spec

\* Types: the columns of the four tables keep their domains; in particular
\* no counter ever goes below zero (the CHECKs of migration 0101).
THEOREM TypeCorrect == Spec => []TypeOK
<1>1. IInv => TypeOK
  BY DEF IInv
<1> QED BY <1>1, Inductive, PTL

\* held and confirmed are at all times the number of seats with active and
\* with converted holds.
THEOREM CountersReconcile == Spec => []Reconciled
<1>1. IInv => Reconciled
  BY DEF IInv
<1> QED BY <1>1, Inductive, PTL

\* No subject with a capacity ever promises more places than it has.
THEOREM NeverOversold == Spec => []NoOversell
<1>1. IInv => NoOversell
  BY DEF IInv
<1> QED BY <1>1, Inductive, PTL

\* A cart is confirmed as a whole or not at all.
THEOREM AllOrNothing == Spec => []ConfirmedTogether
<1>1. IInv => ConfirmedTogether
  BY DEF IInv
<1> QED BY <1>1, Inductive, PTL

\* The job never takes a place from an open cart before its hold expires nor
\* from a cart in payment within the day of grace.
THEOREM PlaceKept == Spec => []InFlightKeepsPlace
<1>1. IInv => InFlightKeepsPlace
  BY DEF IInv
<1> QED BY <1>1, Inductive, PTL

\* One step: released holds stay released and only a first failed payment
\* takes a confirmed place back.
LEMMA HistoryStep == TypeOK /\ [Next]_vars => [SeatStep]_vars
<1> SUFFICES ASSUME TypeOK, Next PROVE SeatStep
  OBVIOUS
<1> USE CartAssumption DEF TypeOK, SeatStep
<1>1. CASE UNCHANGED hold
  BY <1>1
<1>2. ASSUME NEW c \in Checkouts, Reserve(c) PROVE SeatStep
  BY <1>2 DEF Reserve, SetHolds
<1>3. ASSUME NEW c \in Checkouts, NEW r, ConfirmHolds(c, r) PROVE SeatStep
  BY <1>3 DEF ConfirmHolds, AllActive, SetHolds
<1>4. ASSUME NEW c \in Checkouts, KeepForFailedPayment(c) PROVE SeatStep
  BY <1>4, TimeAssumption DEF KeepForFailedPayment, SetHolds
<1>5. ASSUME NEW c \in Checkouts, Release(c) PROVE SeatStep
  BY <1>5 DEF Release, SetHolds
<1>6. ASSUME NEW due \in SUBSET DueHolds, ReleaseExpiredHolds(due) PROVE SeatStep
  <2>1. \A c \in Checkouts, s \in Subjects :
           hold'[c][s] = IF <<c, s>> \in due THEN "released" ELSE hold[c][s]
    BY <1>6 DEF ReleaseExpiredHolds
  <2>2. \A c \in Checkouts, s \in Subjects : <<c, s>> \in due => hold[c][s] = "active"
    BY DEF DueHolds
  <2> SUFFICES ASSUME NEW c \in Checkouts, NEW s \in Subjects
               PROVE  hold[c][s] \in {"released", "converted"} => hold'[c][s] = hold[c][s]
    OBVIOUS
  <2>3. hold'[c][s] = IF <<c, s>> \in due THEN "released" ELSE hold[c][s]
    BY <2>1
  <2>4. <<c, s>> \in due => hold[c][s] = "active"
    BY <2>2
  <2> QED BY ONLY <2>3, <2>4
<1>7. ASSUME NEW c \in Checkouts, CartStep(c) PROVE SeatStep
  <2>1. \/ UNCHANGED hold
        \/ Reserve(c) \/ KeepForFailedPayment(c) \/ Release(c)
        \/ ConfirmHolds(c, "pending_payment") \/ ConfirmHolds(c, registration[c])
    BY <1>7 DEF CartStep, StartCheckout, Extend, Freeze, QuotePaid, QuoteFree,
                QuoteForApproval, Confirm
  <2>2. PICK r : r = registration[c]
    OBVIOUS
  <2> QED BY ONLY <1>1, <1>2, <1>3, <1>4, <1>5, <2>1, <2>2, c \in Checkouts
<1>8. CASE \E s \in Subjects \ Programs, n \in Capacities : SetCapacity(s, n)
  BY <1>1, <1>8 DEF SetCapacity
<1>9. CASE Tick
  BY <1>1, <1>9 DEF Tick
<1> QED BY <1>6, <1>7, <1>8, <1>9 DEF Next

\* The history of every hold row, for every behaviour.
THEOREM SeatHistoryHolds == Spec => SeatHistory
<1> QED BY Inductive, HistoryStep, TypeCorrect, PTL DEF Spec, SeatHistory

-----------------------------------------------------------------------------
(* The refinement: CheckoutCapacity implements SeatLedger; its counters,   *)
(* hold rows, deadlines and job batches are a ledger of places.            *)

\* What the ledger shows of the database.
LedgerView == <<capacity, PlacesWith("active"), PlacesWith("converted"), PlacesWith("released")>>

LedgerStep == [Ledger!Next]_LedgerView

\* A place is a seat with one of its subjects, and its cart and subject are
\* ones the hold rows know.
LEMMA PlaceKnown ==
    ASSUME NEW p \in Ledger!Place
    PROVE  /\ p = <<p[1], p[2]>> /\ p[1] \in Seats /\ p[2] \in SubjectsOf[p[1]]
           /\ CheckoutOf[p[1]] \in Checkouts /\ p[2] \in Subjects
           /\ p[2] \in Cart(CheckoutOf[p[1]])
<1>1. PICK x \in Seats : p \in {x} \X SubjectsOf[x]
  BY DEF Ledger!Place
<1>2. p = <<p[1], p[2]>> /\ p[1] = x /\ p[2] \in SubjectsOf[x]
  BY <1>1
<1> QED BY <1>1, <1>2, CartAssumption DEF Cart

\* The ledger counts as the counters do.
LEMMA SameSize == \A S : Ledger!Cardinality(S) = Cardinality(S)
  BY DEF Ledger!Cardinality, Cardinality

\* The seats with a promised place in a subject are counted by its counters.
LEMMA PromisedCounted ==
    ASSUME Reconciled, TypeOK, NEW s \in Subjects
    PROVE  Cardinality(Ledger!SeatsOf(PlacesWith("active") \cup PlacesWith("converted"), s))
                = confirmed[s] + held[s]
<1> DEFINE A == Occupied("active", s)
           B == Occupied("converted", s)
<1>1. Ledger!SeatsOf(PlacesWith("active") \cup PlacesWith("converted"), s) = A \cup B
  BY CartAssumption DEF Ledger!SeatsOf, PlacesWith, Occupied
<1>2. A \cap B = {}
  BY DEF Occupied
<1>3. IsFiniteSet(A) /\ IsFiniteSet(B)
  BY SeatSetsFinite
<1>4. held[s] = Cardinality(A) /\ confirmed[s] = Cardinality(B)
  BY DEF Reconciled
<1>5. held[s] \in Nat /\ confirmed[s] \in Nat
  BY DEF TypeOK
<1>6. Cardinality(A \cup B) = Cardinality(A) + Cardinality(B)
  <2> HIDE DEF A, B
  <2> QED BY <1>2, <1>3, CardMove
<1>7. Cardinality(A \cup B) = confirmed[s] + held[s]
  <2> HIDE DEF A, B
  <2> QED BY <1>4, <1>5, <1>6
<1> QED BY <1>1, <1>7

\* While no subject is oversold the ledger has room for all it promises.
LEMMA RoomForPromised ==
    ASSUME Reconciled, NoOversell, TypeOK
    PROVE  Ledger!Room(PlacesWith("active") \cup PlacesWith("converted"))
<1>1. \A s \in Subjects :
        Ledger!Cardinality(Ledger!SeatsOf(PlacesWith("active") \cup PlacesWith("converted"), s))
            = confirmed[s] + held[s]
  BY PromisedCounted, SameSize
<1>2. \A s \in Subjects : capacity[s] # Unlimited => confirmed[s] + held[s] <= capacity[s]
  BY DEF NoOversell
<1> HIDE DEF Ledger!SeatsOf
<1> QED BY <1>1, <1>2 DEF Ledger!Room

\* Moving the places of cart c in the subjects S.
LEMMA PlacesMove ==
    ASSUME NEW c \in Checkouts, NEW S \in SUBSET Subjects, NEW st,
           hold \in [Checkouts -> [Subjects -> HoldStatus]],
           hold' = SetHolds(c, S, st)
    PROVE  \A p \in Ledger!Place :
              hold'[CheckoutOf[p[1]]][p[2]] =
                 IF CheckoutOf[p[1]] = c /\ p[2] \in S THEN st ELSE hold[CheckoutOf[p[1]]][p[2]]
<1> SUFFICES ASSUME NEW p \in Ledger!Place
             PROVE  hold'[CheckoutOf[p[1]]][p[2]] =
                 IF CheckoutOf[p[1]] = c /\ p[2] \in S THEN st ELSE hold[CheckoutOf[p[1]]][p[2]]
  OBVIOUS
<1>1. CheckoutOf[p[1]] \in Checkouts /\ p[2] \in Subjects
  BY PlaceKnown
<1> QED BY <1>1 DEF SetHolds

\* The view of the ledger: the places whose hold is in a state.
LEMMA InView ==
    \A st : PlacesWith(st) = {p \in Ledger!Place : hold[CheckoutOf[p[1]]][p[2]] = st}
  BY DEF PlacesWith, Ledger!Place

-----------------------------------------------------------------------------
(* Each step of the seats is a step of the ledger, or none.                *)

LEMMA ViewUnchanged ==
    ASSUME UNCHANGED <<capacity, hold>>
    PROVE  UNCHANGED LedgerView
  BY DEF LedgerView, PlacesWith

LEMMA ReserveHolds ==
    ASSUME SeatsInv, SeatsInv', NEW c \in Checkouts, Reserve(c)
    PROVE  Ledger!HoldCart(c)
<1>1. hold \in [Checkouts -> [Subjects -> HoldStatus]] /\ hold' = SetHolds(c, Cart(c), "active")
      /\ Cart(c) \in SUBSET Subjects /\ capacity' = capacity
      /\ \A s \in Cart(c) : hold[c][s] = "none"
  BY CartAssumption DEF SeatsInv, TypeOK, Reserve, Cart
<1>2. \A p \in Ledger!Place :
         hold'[CheckoutOf[p[1]]][p[2]] =
            IF CheckoutOf[p[1]] = c THEN "active" ELSE hold[CheckoutOf[p[1]]][p[2]]
  BY <1>1, PlacesMove, PlaceKnown
<1>3. \A p \in Ledger!PlacesOf(c) : p \in Ledger!Place /\ hold[CheckoutOf[p[1]]][p[2]] = "none"
  BY <1>1, PlaceKnown DEF Ledger!PlacesOf
<1>4. Ledger!PlacesOf(c) \cap (PlacesWith("active") \cup PlacesWith("converted")
                                  \cup PlacesWith("released")) = {}
  BY <1>3, InView
<1>5. /\ PlacesWith("active")' = PlacesWith("active") \cup Ledger!PlacesOf(c)
      /\ PlacesWith("converted")' = PlacesWith("converted")
      /\ PlacesWith("released")' = PlacesWith("released")
  <2>1. \A st : PlacesWith(st)' = {p \in Ledger!Place : hold'[CheckoutOf[p[1]]][p[2]] = st}
    BY DEF PlacesWith, Ledger!Place
  <2> QED BY <1>2, <1>3, <2>1, InView DEF Ledger!PlacesOf
<1>6. Ledger!Room(PlacesWith("active") \cup PlacesWith("converted"))'
  <2>1. (Reconciled /\ NoOversell /\ TypeOK)'
    BY DEF SeatsInv
  <2> QED BY <2>1, RoomForPromised, PTL
<1>7. Ledger!Room(PlacesWith("active") \cup PlacesWith("converted") \cup Ledger!PlacesOf(c))
  <2>1. PlacesWith("active") \cup PlacesWith("converted") \cup Ledger!PlacesOf(c)
          = PlacesWith("active")' \cup PlacesWith("converted")'
    BY <1>5
  <2> QED BY <1>1, <1>6, <2>1 DEF Ledger!Room
<1> QED BY <1>1, <1>4, <1>5, <1>7 DEF Ledger!HoldCart

\* Confirmation, by payment or of a free cart.
LEMMA ConfirmTakes ==
    ASSUME SeatsInv, NEW c \in Checkouts, NEW registered, ConfirmHolds(c, registered),
           capacity' = capacity
    PROVE  Ledger!TakeCart(c)
<1>1. hold \in [Checkouts -> [Subjects -> HoldStatus]] /\ hold' = SetHolds(c, Cart(c), "converted")
      /\ Cart(c) \in SUBSET Subjects
      /\ \A s \in Cart(c) : hold[c][s] = "active"
  BY CartAssumption DEF SeatsInv, TypeOK, ConfirmHolds, AllActive, Cart
<1>2. \A p \in Ledger!Place :
         hold'[CheckoutOf[p[1]]][p[2]] =
            IF CheckoutOf[p[1]] = c THEN "converted" ELSE hold[CheckoutOf[p[1]]][p[2]]
  BY <1>1, PlacesMove, PlaceKnown
<1>3. \A p \in Ledger!PlacesOf(c) : p \in Ledger!Place /\ hold[CheckoutOf[p[1]]][p[2]] = "active"
  BY <1>1, PlaceKnown DEF Ledger!PlacesOf
<1>4. \A st : PlacesWith(st)' = {p \in Ledger!Place : hold'[CheckoutOf[p[1]]][p[2]] = st}
  BY DEF PlacesWith, Ledger!Place
<1>5. /\ Ledger!PlacesOf(c) \subseteq PlacesWith("active")
      /\ PlacesWith("active")' = PlacesWith("active") \ Ledger!PlacesOf(c)
      /\ PlacesWith("converted")' = PlacesWith("converted") \cup Ledger!PlacesOf(c)
      /\ PlacesWith("released")' = PlacesWith("released")
  BY <1>2, <1>3, <1>4, InView DEF Ledger!PlacesOf
<1> QED BY <1>5 DEF Ledger!TakeCart

\* A failed payment: a completed cart holds its places again, any other cart
\* goes on holding them.
LEMMA KeepHoldsAgain ==
    ASSUME SeatsInv, NEW c \in Checkouts, KeepForFailedPayment(c)
    PROVE  Ledger!HoldAgain(c) \/ UNCHANGED LedgerView
<1>1. hold \in [Checkouts -> [Subjects -> HoldStatus]] /\ hold' = SetHolds(c, Cart(c), "active")
      /\ Cart(c) \in SUBSET Subjects /\ capacity' = capacity
      /\ \A s \in Cart(c) : hold[c][s] \in {"active", "converted"}
  BY CartAssumption DEF SeatsInv, TypeOK, KeepForFailedPayment, Cart
<1>2. \A p \in Ledger!Place :
         hold'[CheckoutOf[p[1]]][p[2]] =
            IF CheckoutOf[p[1]] = c THEN "active" ELSE hold[CheckoutOf[p[1]]][p[2]]
  BY <1>1, PlacesMove, PlaceKnown
<1>3. \A st : PlacesWith(st)' = {p \in Ledger!Place : hold'[CheckoutOf[p[1]]][p[2]] = st}
  BY DEF PlacesWith, Ledger!Place
<1>4. CASE status[c] = "completed"
  <2>1. \A s \in Cart(c) : hold[c][s] = "converted"
    BY <1>4 DEF SeatsInv, ConfirmedTogether
  <2>2. \A p \in Ledger!PlacesOf(c) :
          p \in Ledger!Place /\ hold[CheckoutOf[p[1]]][p[2]] = "converted"
    BY <2>1, PlaceKnown DEF Ledger!PlacesOf
  <2>3. /\ Ledger!PlacesOf(c) \subseteq PlacesWith("converted")
        /\ PlacesWith("converted")' = PlacesWith("converted") \ Ledger!PlacesOf(c)
        /\ PlacesWith("active")' = PlacesWith("active") \cup Ledger!PlacesOf(c)
        /\ PlacesWith("released")' = PlacesWith("released")
    BY <1>2, <1>3, <2>2, InView DEF Ledger!PlacesOf
  <2> QED BY <1>1, <2>3 DEF Ledger!HoldAgain
<1>5. CASE status[c] # "completed"
  <2>1. \A s \in Cart(c) : hold[c][s] = "active"
    BY <1>1, <1>5 DEF SeatsInv, ConfirmedTogether
  <2>2. \A p \in Ledger!Place :
           CheckoutOf[p[1]] = c => hold[CheckoutOf[p[1]]][p[2]] = "active"
    BY <2>1, PlaceKnown
  <2>3. \A st : PlacesWith(st)' = PlacesWith(st)
    BY <1>2, <1>3, <2>2, InView
  <2> QED BY <1>1, <2>3 DEF LedgerView
<1> QED BY <1>4, <1>5

\* A released cart gives up the places it still holds.
LEMMA ReleaseGivesUp ==
    ASSUME SeatsInv, NEW c \in Checkouts, Release(c)
    PROVE  Ledger!GiveUp
<1> DEFINE back == {s \in Cart(c) : hold[c][s] = "active"}
           P == {p \in Ledger!PlacesOf(c) : hold[c][p[2]] = "active"}
<1>1. hold \in [Checkouts -> [Subjects -> HoldStatus]] /\ hold' = SetHolds(c, back, "released")
      /\ back \in SUBSET Subjects /\ capacity' = capacity
  BY CartAssumption DEF SeatsInv, TypeOK, Release, Cart
<1>2. \A p \in Ledger!Place :
         hold'[CheckoutOf[p[1]]][p[2]] =
            IF CheckoutOf[p[1]] = c /\ p[2] \in back
            THEN "released" ELSE hold[CheckoutOf[p[1]]][p[2]]
  BY ZenonT(60), <1>1, PlacesMove
<1>3. \A st : PlacesWith(st)' = {p \in Ledger!Place : hold'[CheckoutOf[p[1]]][p[2]] = st}
  BY DEF PlacesWith, Ledger!Place
<1>4. \A p \in Ledger!Place : p \in P <=> CheckoutOf[p[1]] = c /\ p[2] \in back
  BY PlaceKnown DEF Ledger!PlacesOf
<1>5. /\ P \subseteq PlacesWith("active")
      /\ PlacesWith("active")' = PlacesWith("active") \ P
      /\ PlacesWith("converted")' = PlacesWith("converted")
      /\ PlacesWith("released")' = PlacesWith("released") \cup P
  BY <1>2, <1>3, <1>4, InView DEF Ledger!PlacesOf
<1>6. PlacesWith("active") \ PlacesWith("active")' = P
  BY <1>5
<1> QED BY <1>1, <1>5, <1>6 DEF Ledger!GiveUp

\* A job batch gives up the places of its hold rows.
LEMMA BatchGivesUp ==
    ASSUME SeatsInv, NEW due \in SUBSET DueHolds, ReleaseExpiredHolds(due)
    PROVE  Ledger!GiveUp
<1> DEFINE P == {p \in Ledger!Place : <<CheckoutOf[p[1]], p[2]>> \in due}
<1>1. hold' = [c \in Checkouts |-> [s \in Subjects |->
                   IF <<c, s>> \in due THEN "released" ELSE hold[c][s]]]
      /\ capacity' = capacity
  BY DEF ReleaseExpiredHolds
<1>2. \A p \in Ledger!Place :
         hold'[CheckoutOf[p[1]]][p[2]] =
            IF p \in P THEN "released" ELSE hold[CheckoutOf[p[1]]][p[2]]
  BY <1>1, PlaceKnown
<1>3. \A p \in P : hold[CheckoutOf[p[1]]][p[2]] = "active"
  BY DEF DueHolds
<1>4. \A st : PlacesWith(st)' = {p \in Ledger!Place : hold'[CheckoutOf[p[1]]][p[2]] = st}
  BY DEF PlacesWith, Ledger!Place
<1>5. /\ P \subseteq PlacesWith("active")
      /\ PlacesWith("active")' = PlacesWith("active") \ P
      /\ PlacesWith("converted")' = PlacesWith("converted")
      /\ PlacesWith("released")' = PlacesWith("released") \cup P
  BY <1>2, <1>3, <1>4, InView
<1>6. PlacesWith("active") \ PlacesWith("active")' = P
  BY <1>5
<1> QED BY <1>1, <1>5, <1>6 DEF Ledger!GiveUp

\* Staff respect the places promised.
LEMMA CapacityChanges ==
    ASSUME SeatsInv, NEW s \in Subjects, NEW n \in Capacities, SetCapacity(s, n)
    PROVE  Ledger!SetCapacity(s, n)
<1>1. Ledger!Cardinality(Ledger!SeatsOf(PlacesWith("active") \cup PlacesWith("converted"), s))
        = confirmed[s] + held[s]
  BY PromisedCounted, SameSize DEF SeatsInv
<1>2. UNCHANGED <<PlacesWith("active"), PlacesWith("converted"), PlacesWith("released")>>
  BY DEF SetCapacity, PlacesWith
<1> HIDE DEF Ledger!SeatsOf, PlacesWith
<1> QED BY <1>1, <1>2 DEF SetCapacity, Ledger!SetCapacity

LEMMA LedgerRefined ==
    ASSUME SeatsInv, SeatsInv', [Next]_vars
    PROVE  LedgerStep
<1>1. ASSUME NEW c \in Checkouts, CartStep(c) PROVE LedgerStep
  <2>1. CASE StartCheckout(c) \/ Extend(c) \/ Freeze(c) \/ QuotePaid(c)
             \/ \E charge \in BOOLEAN : QuoteForApproval(c, charge)
    BY <2>1, ViewUnchanged
       DEF LedgerStep, StartCheckout, Extend, Freeze, QuotePaid, QuoteForApproval, counters
  <2>2. CASE Reserve(c)
    BY <2>2, ReserveHolds DEF LedgerStep, Ledger!Next
  <2>3. CASE QuoteFree(c) \/ \E honor_ \in BOOLEAN : Confirm(c, honor_)
    <3>1. capacity' = capacity /\ \E registered : ConfirmHolds(c, registered)
      BY <2>3 DEF QuoteFree, Confirm
    <3> QED BY <3>1, ConfirmTakes DEF LedgerStep, Ledger!Next
  <2>4. CASE KeepForFailedPayment(c)
    BY <2>4, KeepHoldsAgain DEF LedgerStep, Ledger!Next
  <2>5. CASE Release(c)
    BY <2>5, ReleaseGivesUp DEF LedgerStep, Ledger!Next
  <2> QED BY <1>1, <2>1, <2>2, <2>3, <2>4, <2>5 DEF CartStep
<1>2. ASSUME NEW due \in SUBSET DueHolds, ReleaseExpiredHolds(due) PROVE LedgerStep
  BY <1>2, BatchGivesUp DEF LedgerStep, Ledger!Next
<1>3. ASSUME NEW s \in Subjects \ Programs, NEW n \in Capacities, SetCapacity(s, n)
      PROVE  LedgerStep
  BY <1>3, CapacityChanges DEF LedgerStep, Ledger!Next
<1>4. CASE Tick \/ UNCHANGED vars
  BY <1>4, ViewUnchanged DEF LedgerStep, Tick, vars, counters
<1> QED BY <1>1, <1>2, <1>3, <1>4 DEF Next

LEMMA LedgerInitially == Init => Ledger!Init
<1> SUFFICES ASSUME Init PROVE Ledger!Init
  OBVIOUS
<1>1. \A st : PlacesWith(st) = {p \in Ledger!Place : hold[CheckoutOf[p[1]]][p[2]] = st}
  BY InView
<1>2. \A p \in Ledger!Place : hold[CheckoutOf[p[1]]][p[2]] = "none"
  BY PlaceKnown DEF Init
<1> QED BY <1>1, <1>2 DEF Init, Ledger!Init

\* Whatever carts, payments, deadlines and batches do, a family sees a ledger
\* of places: held whole, taken whole, lost for good, never overbooked.
THEOREM LedgerImplemented == Spec => ImplementsLedger
<1>1. IInv /\ IInv' /\ [Next]_vars => [Ledger!Next]_LedgerView
  BY LedgerRefined DEF LedgerStep, IInv, SeatsInv
<1> QED BY <1>1, LedgerInitially, Inductive, PTL
        DEF Spec, ImplementsLedger, Ledger!Spec, LedgerView

-----------------------------------------------------------------------------
(* CheckoutPayments: its steps are steps of CheckoutCapacity.              *)

\* What the seats need to know of the payments: an intent that exists, or is
\* being handled, pays for a cart whose registrations await payment or are
\* confirmed, that is, a cart the seat actions call Payable.
PaysForQuotedCart ==
    /\ \A i \in Intents : intent[i] # "absent" => Payable(CartOf[i])
    /\ \A e \in todo : intent[e[1]] # "absent"

\* A busy worker has an event of its own, one still to be processed, and has
\* fetched an intent that exists.
OwnEvent ==
    /\ \A w \in Workers : stage[w] # "idle" => job[w] \in todo /\ seen[w] # "absent"
    /\ \A v, w \in Workers :
          (v # w /\ stage[v] # "idle" /\ stage[w] # "idle") => job[v] # job[w]

-----------------------------------------------------------------------------
(* Refinement.                                                             *)

\* Handling steps leave seats alone or are steps of CheckoutCapacity.
LEMMA WorkerOnSeats ==
    ASSUME PaymentsTypeOK, OwnEvent, PaysForQuotedCart, NEW w \in Workers, WorkerStep(w)
    PROVE  [Next]_vars
<1> USE PaymentAssumption DEF seats
<1>1. stage[w] # "idle" => CartFor(w) \in Checkouts /\ Payable(CartFor(w))
  BY DEF PaymentsTypeOK, OwnEvent, PaysForQuotedCart, CartFor, IntentOf, Event
<1>2. UNCHANGED seats => UNCHANGED vars
  BY DEF vars
<1>3. CASE Settle(w)
  BY <1>2, <1>3 DEF Settle, Throw
<1>4. CASE Read(w)
  BY <1>2, <1>4 DEF Read, Throw
<1>5. CASE ConfirmSeats(w)
  <2>1. UNCHANGED seats \/ Confirm(CartFor(w), honor[w])
    BY <1>5 DEF ConfirmSeats
  <2>2. ASSUME Confirm(CartFor(w), honor[w]) PROVE Next
    <3>1. stage[w] # "idle"
      BY <1>5 DEF ConfirmSeats
    <3>2. \E b \in BOOLEAN : Payable(CartFor(w)) /\ Confirm(CartFor(w), b)
      <4>1. Confirm(CartFor(w), TRUE) \/ Confirm(CartFor(w), FALSE)
        BY <2>2 DEF Confirm
      <4> QED BY <1>1, <3>1, <4>1
    <3> QED BY <1>1, <3>1, <3>2 DEF Next, CartStep
  <2> QED BY <1>2, <2>1, <2>2
<1>6. CASE KeepSeats(w)
  <2>1. UNCHANGED seats \/ KeepForFailedPayment(CartFor(w))
    BY <1>6 DEF KeepSeats, Throw
  <2>2. stage[w] # "idle"
    BY <1>6 DEF KeepSeats
  <2>3. ASSUME KeepForFailedPayment(CartFor(w)) PROVE Next
    BY <1>1, <2>2, <2>3 DEF Next, CartStep
  <2> QED BY <1>2, <2>1, <2>3
<1>7. CASE ClaimRefund(w) \/ CreateRefund(w) \/ RecordRefund(w) \/ Complete(w)
  BY <1>2, <1>7 DEF ClaimRefund, CreateRefund, RecordRefund, Complete, Throw
<1> QED BY <1>3, <1>4, <1>5, <1>6, <1>7 DEF WorkerStep

\* Every step of the payments is a step of the seats or leaves them alone.
LEMMA SeatsRefined ==
    ASSUME PaymentsTypeOK, OwnEvent, PaysForQuotedCart, [PaymentsNext]_allVars
    PROVE  [Next]_vars
<1> USE DEF seats
<1>1. UNCHANGED seats => UNCHANGED vars
  BY DEF vars
<1>2. CASE \E i \in Intents : CreatePayment(i)
  BY <1>1, <1>2 DEF CreatePayment
<1>3. CASE \E i \in Intents, s \in IntentStatus : StripeChange(i, s)
  BY <1>1, <1>3 DEF StripeChange
<1>4. CASE \E w \in Workers, e \in todo : Fetch(w, e)
  BY <1>1, <1>4 DEF Fetch
<1>5. CASE \E w \in Workers : WorkerStep(w)
  BY <1>5, WorkerOnSeats
<1>6. CASE \E w \in Workers : GatewayError(w) \/ Stop(w)
  BY <1>1, <1>6 DEF GatewayError, Stop, Throw
<1>7. CASE SeatChange
  BY <1>7 DEF SeatChange, Next, CartStep
<1>8. CASE UNCHANGED allVars
  BY <1>1, <1>8 DEF allVars
<1> QED BY <1>2, <1>3, <1>4, <1>5, <1>6, <1>7, <1>8 DEF PaymentsNext

-----------------------------------------------------------------------------
(* Types.                                                                  *)

\* Only the first claim of an intent leads to its refund: an unclaimed one is
\* not refunded, and of an unrefunded one a single worker is about to call
\* Stripe.
RefundInv ==
    /\ \A i \in Intents : i \notin claimed => refundCalls[i] = 0
    /\ \A i \in Intents : refundCalls[i] <= 1
    /\ \A w \in Workers : stage[w] \in {"refund", "record"} => IntentOf(w) \in claimed
    /\ \A w \in Workers : stage[w] = "refund" => refundCalls[IntentOf(w)] = 0
    /\ \A v, w \in Workers :
          (v # w /\ stage[v] = "refund" /\ stage[w] = "refund") => IntentOf(v) # IntentOf(w)

\* The strengthening of RefundedOnce that every step of a worker preserves.
WorkerInv == PaymentsTypeOK /\ OwnEvent /\ RefundInv

\* A worker that throws.
LEMMA ThrowKeeps ==
    ASSUME WorkerInv, NEW w \in Workers, stage[w] # "idle", Throw(w)
    PROVE  WorkerInv'
<1> USE DEF WorkerInv, PaymentsTypeOK, OwnEvent, Throw, Forget, GoTo, stripe, money, refunds
<1>1. failed' \subseteq todo'
  OBVIOUS
<1>2. stage' \in [Workers -> Stage] /\ job' \in [Workers -> Event \cup {Nobody}]
  BY DEF Stage
<1>3. seen' \in [Workers -> IntentStatus] /\ honor' \in [Workers -> BOOLEAN]
  BY DEF IntentStatus
<1>4. OwnEvent'
  OBVIOUS
<1>5. RefundInv'
  BY DEF RefundInv, IntentOf, Stage
<1> QED BY <1>1, <1>2, <1>3, <1>4, <1>5 DEF Event

\* A worker that goes on to its next step with the same event, payments and
\* seats aside.
LEMMA MoveKeeps ==
    ASSUME WorkerInv, NEW w \in Workers, stage[w] # "idle",
           NEW next \in Stage \ {"idle", "refund", "record"}, GoTo(w, next),
           UNCHANGED <<stripe, queue, job, seen, refunds>>,
           payment' \in [Intents -> PaymentStatus],
           processingAt' \in [Intents -> Nat \cup {NoTime}], undone' \subseteq Intents,
           honor' \in [Workers -> BOOLEAN]
    PROVE  WorkerInv'
<1> USE DEF WorkerInv, PaymentsTypeOK, OwnEvent, GoTo, stripe, queue, refunds
<1>1. stage' \in [Workers -> Stage]
  OBVIOUS
<1>2. OwnEvent'
  OBVIOUS
<1>3. RefundInv'
  BY DEF RefundInv, IntentOf
<1> QED BY <1>1, <1>2, <1>3 DEF Event

\* A worker's step, whoever else is at work.
LEMMA WorkerKeeps ==
    ASSUME WorkerInv, TypeOK, NEW w \in Workers, WorkerStep(w)
    PROVE  WorkerInv'
<1> USE PaymentAssumption DEF GoTo, money
<1>1. stage[w] # "idle" =>
        /\ IntentOf(w) \in Intents
        /\ seen[w] \in IntentStatus \ {"absent"}
        /\ job[w] \in todo
  BY DEF WorkerInv, OwnEvent, IntentOf, PaymentsTypeOK, Event
<1>2. payment \in [Intents -> PaymentStatus] /\ processingAt \in [Intents -> Nat \cup {NoTime}]
      /\ undone \subseteq Intents /\ honor \in [Workers -> BOOLEAN]
  BY DEF WorkerInv, PaymentsTypeOK
<1>3. CASE Settle(w)
  <2>1. stage[w] # "idle"
    BY <1>3 DEF Settle
  <2>2. CASE Throw(w)
    BY <2>1, <2>2, ThrowKeeps
  <2>3. CASE ~Throw(w)
    <3>1. /\ payment' = [payment EXCEPT ![IntentOf(w)] = StoredStatus(seen[w])]
          /\ processingAt' \in {processingAt, [processingAt EXCEPT ![IntentOf(w)] = now]}
          /\ GoTo(w, "read")
          /\ UNCHANGED <<undone, stripe, queue, job, seen, honor, refunds>>
      BY <1>3, <2>3 DEF Settle
    <3>2. StoredStatus(seen[w]) \in PaymentStatus
      BY <1>1, <2>1 DEF StoredStatus, IntentStatus, PaymentStatus
    <3>3. payment' \in [Intents -> PaymentStatus]
      BY <1>2, <3>1, <3>2
    <3>4. processingAt' \in [Intents -> Nat \cup {NoTime}]
      BY <1>2, <3>1 DEF TypeOK
    <3>5. "read" \in Stage \ {"idle", "refund", "record"}
      BY DEF Stage
    <3> QED BY <1>2, <2>1, <3>1, <3>3, <3>4, <3>5, MoveKeeps
  <2> QED BY <2>2, <2>3
<1>4. CASE Read(w)
  <2>1. stage[w] # "idle"
    BY <1>4 DEF Read
  <2>2. CASE Throw(w)
    BY <2>1, <2>2, ThrowKeeps
  <2>3. CASE ~Throw(w)
    <3>1. PICK next \in {"confirm", "keep", "complete"} :
            /\ GoTo(w, next)
            /\ honor' = [honor EXCEPT ![w] =
                  /\ InTime(IntentOf(w))
                  /\ seen[w] = "succeeded" => status[CartOf[IntentOf(w)]] = "awaiting_payment"]
            /\ UNCHANGED <<stripe, money, queue, job, seen, refunds>>
      BY <1>4, <2>3 DEF Read
    <3>2. honor' \in [Workers -> BOOLEAN]
      BY <1>2, <3>1 DEF InTime
    <3>3. next \in Stage \ {"idle", "refund", "record"}
      BY DEF Stage
    <3> QED BY <1>2, <2>1, <3>1, <3>2, <3>3, MoveKeeps
  <2> QED BY <2>2, <2>3
<1>5. CASE ConfirmSeats(w)
  <2>1. PICK next \in {"claim", "complete"} : GoTo(w, next)
    BY <1>5 DEF ConfirmSeats
  <2>2. next \in Stage \ {"idle", "refund", "record"} /\ stage[w] # "idle"
    BY <1>5 DEF Stage, ConfirmSeats
  <2> QED BY <1>2, <1>5, <2>1, <2>2, MoveKeeps DEF ConfirmSeats
<1>6. CASE KeepSeats(w)
  <2>1. stage[w] # "idle" /\ "complete" \in Stage \ {"idle", "refund", "record"}
    BY <1>6 DEF KeepSeats, Stage
  <2>2. CASE Throw(w)
    BY <2>1, <2>2, ThrowKeeps
  <2>3. CASE ~Throw(w)
    <3>1. /\ GoTo(w, "complete") /\ undone' \in {undone, undone \cup TakenBack(CartFor(w))}
          /\ UNCHANGED <<stripe, payment, processingAt, queue, job, seen, honor, refunds>>
      BY <1>6, <2>3 DEF KeepSeats
    <3>2. undone' \subseteq Intents
      BY <1>2, <3>1 DEF TakenBack
    <3> QED BY <1>2, <2>1, <3>1, <3>2, MoveKeeps
  <2> QED BY <2>2, <2>3
<1>7. CASE ClaimRefund(w)
  <2>1. stage[w] # "idle" /\ stage[w] = "claim"
    BY <1>7 DEF ClaimRefund
  <2>2. CASE Throw(w)
    BY <2>1, <2>2, ThrowKeeps
  <2>3. CASE ~Throw(w)
    <3>1. /\ claimed' = claimed \cup {IntentOf(w)}
          /\ stage' = [stage EXCEPT ![w] = IF IntentOf(w) \in claimed THEN "complete" ELSE "refund"]
          /\ UNCHANGED <<stripe, money, queue, job, seen, honor, refundCalls, recorded>>
      BY <1>7, <2>3 DEF ClaimRefund
    <3>2. stage' \in [Workers -> Stage] /\ claimed' \subseteq Intents /\ recorded' \subseteq claimed'
      BY <1>1, <2>1, <3>1 DEF WorkerInv, PaymentsTypeOK, Stage
    <3>3. PaymentsTypeOK'
      BY <3>1, <3>2 DEF WorkerInv, PaymentsTypeOK, stripe, queue, Event
    <3>4. OwnEvent'
      BY <2>1, <3>1 DEF WorkerInv, PaymentsTypeOK, OwnEvent, queue
    <3>5. RefundInv'
      BY <1>1, <2>1, <3>1 DEF WorkerInv, PaymentsTypeOK, RefundInv, IntentOf
    <3> QED BY <3>3, <3>4, <3>5 DEF WorkerInv
  <2> QED BY <2>2, <2>3
<1>8. CASE CreateRefund(w)
  <2>1. /\ stage[w] = "refund"
        /\ refundCalls' = [refundCalls EXCEPT ![IntentOf(w)] = @ + 1]
        /\ stage' = [stage EXCEPT ![w] = "record"]
        /\ UNCHANGED <<stripe, money, queue, job, seen, honor, claimed, recorded>>
    BY <1>8 DEF CreateRefund
  <2>2. stage' \in [Workers -> Stage] /\ refundCalls' \in [Intents -> Nat]
    BY <1>1, <2>1 DEF WorkerInv, PaymentsTypeOK, Stage
  <2>3. PaymentsTypeOK'
    BY <2>1, <2>2 DEF WorkerInv, PaymentsTypeOK, stripe, queue, Event
  <2>4. OwnEvent'
    BY <2>1 DEF WorkerInv, PaymentsTypeOK, OwnEvent, queue
  <2>5. RefundInv'
    BY <1>1, <2>1 DEF WorkerInv, PaymentsTypeOK, RefundInv, IntentOf
  <2> QED BY <2>3, <2>4, <2>5 DEF WorkerInv
<1>9. CASE RecordRefund(w)
  <2>1. /\ stage[w] = "record"
        /\ recorded' = recorded \cup {IntentOf(w)}
        /\ stage' = [stage EXCEPT ![w] = "complete"]
        /\ UNCHANGED <<stripe, money, queue, job, seen, honor, claimed, refundCalls>>
    BY <1>9 DEF RecordRefund
  <2>2. stage' \in [Workers -> Stage] /\ recorded' \subseteq claimed'
    BY <1>1, <2>1 DEF WorkerInv, PaymentsTypeOK, Stage, RefundInv
  <2>3. PaymentsTypeOK'
    BY <2>1, <2>2 DEF WorkerInv, PaymentsTypeOK, stripe, queue, Event
  <2>4. OwnEvent'
    BY <2>1 DEF WorkerInv, PaymentsTypeOK, OwnEvent, queue
  <2>5. RefundInv'
    BY <1>1, <2>1 DEF WorkerInv, PaymentsTypeOK, RefundInv, IntentOf
  <2> QED BY <2>3, <2>4, <2>5 DEF WorkerInv
<1>10. CASE Complete(w)
  <2>1. /\ stage[w] = "complete"
        /\ todo' = todo \ {job[w]} /\ failed' = failed \ {job[w]}
        /\ stage' = [stage EXCEPT ![w] = "idle"]
        /\ job' = [job EXCEPT ![w] = Nobody]
        /\ seen' = [seen EXCEPT ![w] = "absent"]
        /\ honor' = [honor EXCEPT ![w] = FALSE]
        /\ UNCHANGED <<stripe, money, refunds>>
    BY <1>10 DEF Complete, Forget
  <2>2. stage' \in [Workers -> Stage] /\ seen' \in [Workers -> IntentStatus]
        /\ job' \in [Workers -> Event \cup {Nobody}] /\ honor' \in [Workers -> BOOLEAN]
    BY <2>1 DEF WorkerInv, PaymentsTypeOK, Stage, IntentStatus
  <2>3. PaymentsTypeOK'
    BY <2>1, <2>2 DEF WorkerInv, PaymentsTypeOK, stripe, refunds, Event
  <2>4. OwnEvent'
    BY <2>1 DEF WorkerInv, PaymentsTypeOK, OwnEvent
  <2>5. RefundInv'
    BY <2>1 DEF WorkerInv, PaymentsTypeOK, RefundInv, IntentOf, refunds
  <2> QED BY <2>3, <2>4, <2>5 DEF WorkerInv
<1> QED BY <1>3, <1>4, <1>5, <1>6, <1>7, <1>8, <1>9, <1>10 DEF WorkerStep

\* The payer, Stripe, the queue and the faults keep it too.
LEMMA OthersKeep ==
    ASSUME WorkerInv, PaysForQuotedCart, PaymentsNext,
           ~ \E w \in Workers : WorkerStep(w)
    PROVE  WorkerInv'
<1> USE DEF PaymentsTypeOK, queue, stripe, worker, refunds, money, Event
<1>1. WorkerInv
  OBVIOUS
<1>2. ASSUME NEW i \in Intents, CreatePayment(i) PROVE WorkerInv'
  <2> USE <1>1, <1>2 DEF WorkerInv, CreatePayment
  <2>1. intent' \in [Intents -> IntentStatus] /\ payment' \in [Intents -> PaymentStatus]
    BY DEF IntentStatus, PaymentStatus
  <2>2. PaymentsTypeOK'
    BY <2>1
  <2>3. OwnEvent' /\ RefundInv'
    BY DEF OwnEvent, RefundInv, IntentOf
  <2> QED BY <2>2, <2>3
<1>3. ASSUME NEW i \in Intents, NEW s \in IntentStatus, StripeChange(i, s) PROVE WorkerInv'
  <2> USE <1>1, <1>3 DEF WorkerInv, StripeChange
  <2>1. /\ intent' \in [Intents -> IntentStatus]
        /\ changes' \in [Intents -> 0 .. MaxChanges]
        /\ changes'[i] \in 1 .. MaxChanges
    BY PaymentAssumption
  <2>2. todo' \subseteq Event /\ failed' \subseteq todo'
    BY <2>1
  <2>3. PaymentsTypeOK'
    BY <2>1, <2>2
  <2>4. OwnEvent' /\ RefundInv'
    BY DEF OwnEvent, RefundInv, IntentOf
  <2> QED BY <2>3, <2>4
<1>4. ASSUME NEW w \in Workers, NEW e \in todo, Fetch(w, e) PROVE WorkerInv'
  <2> USE <1>1, <1>4 DEF WorkerInv, Fetch, GoTo
  <2>1. e \in Event /\ e[1] \in Intents /\ intent[e[1]] # "absent"
    BY DEF PaysForQuotedCart
  <2>2. /\ stage' \in [Workers -> Stage]
        /\ job' \in [Workers -> Event \cup {Nobody}]
        /\ seen' \in [Workers -> IntentStatus]
    BY <2>1 DEF Stage
  <2>3. PaymentsTypeOK'
    BY <2>2
  <2>4. OwnEvent'
    BY <2>1 DEF OwnEvent
  <2>5. RefundInv'
    BY DEF RefundInv, IntentOf
  <2> QED BY <2>3, <2>4, <2>5
<1>5. ASSUME NEW w \in Workers, GatewayError(w) PROVE WorkerInv'
  BY <1>1, <1>5, ThrowKeeps DEF GatewayError
<1>6. ASSUME NEW w \in Workers, Stop(w) PROVE WorkerInv'
  <2> USE <1>1, <1>6 DEF WorkerInv, Stop, Forget, GoTo
  <2>1. /\ stage' \in [Workers -> Stage] /\ seen' \in [Workers -> IntentStatus]
        /\ job' \in [Workers -> Event \cup {Nobody}] /\ honor' \in [Workers -> BOOLEAN]
    BY DEF Stage, IntentStatus
  <2>2. PaymentsTypeOK'
    BY <2>1
  <2>3. OwnEvent' /\ RefundInv'
    BY DEF OwnEvent, RefundInv, IntentOf
  <2> QED BY <2>2, <2>3
<1>7. ASSUME UNCHANGED <<stripe, money, queue, worker, refunds>> PROVE WorkerInv'
  BY <1>1, <1>7 DEF WorkerInv, OwnEvent, RefundInv, IntentOf
<1> QED BY <1>2, <1>3, <1>4, <1>5, <1>6, <1>7 DEF PaymentsNext

\* No step of the seats makes a payable cart unpayable.
LEMMA PayableStays ==
    ASSUME TypeOK, [Next]_vars, NEW c \in Checkouts, Payable(c)
    PROVE  Payable(c)'
<1> USE DEF TypeOK, Payable
<1>1. ASSUME NEW d \in Checkouts, CartStep(d) PROVE Payable(c)'
  <2>1. CASE UNCHANGED registration
    BY <2>1
  <2>2. CASE QuotePaid(d) \/ QuoteFree(d) \/ \E charge \in BOOLEAN : QuoteForApproval(d, charge)
    <3>1. registration[d] = "none" /\ registration' = [registration EXCEPT ![d] = registration'[d]]
      BY <2>2 DEF QuotePaid, QuoteFree, QuoteForApproval, Quotable, ConfirmHolds
    <3> QED BY <3>1
  <2>3. CASE KeepForFailedPayment(d) \/ \E honor_ \in BOOLEAN : Confirm(d, honor_)
    <3>1. /\ registration' = [registration EXCEPT ![d] = registration'[d]]
          /\ registration[d] \in {"pending_payment", "confirmed"} =>
                registration'[d] \in {"pending_payment", "confirmed"}
      BY <2>3 DEF KeepForFailedPayment, Confirm, ConfirmHolds
    <3> QED BY <3>1
  <2> QED BY <1>1, <2>1, <2>2, <2>3
          DEF CartStep, StartCheckout, Reserve, Extend, Freeze, Release
<1>2. CASE UNCHANGED registration
  BY <1>2
<1> QED BY <1>1, <1>2 DEF Next, ReleaseExpiredHolds, SetCapacity, Tick, vars

\* Payments are only ever created for quoted carts.
LEMMA QuotedKept ==
    ASSUME TypeOK, WorkerInv, PaysForQuotedCart, [PaymentsNext]_allVars
    PROVE  PaysForQuotedCart'
<1> USE PaymentAssumption DEF WorkerInv, PaymentsTypeOK
<1>1. \A c \in Checkouts : Payable(c) => Payable(c)'
  BY SeatsRefined, PayableStays
<1>2. ASSUME NEW i \in Intents, intent'[i] # "absent" PROVE Payable(CartOf[i])'
  <2>1. CASE intent[i] # "absent"
    BY <1>1, <2>1 DEF PaysForQuotedCart
  <2>2. CASE intent[i] = "absent"
    <3>1. CreatePayment(i)
      BY ZenonT(60), <1>2, <2>2 DEF PaymentsNext, CreatePayment, StripeChange, StripeMoves, Fetch,
            GatewayError, Stop, Throw, WorkerStep, Settle, Read, ConfirmSeats, KeepSeats, ClaimRefund,
            CreateRefund, RecordRefund, Complete, stripe, allVars
    <3> QED BY <1>1, <3>1 DEF CreatePayment, Payable
  <2> QED BY <2>1, <2>2
<1>3. ASSUME NEW e \in todo' PROVE intent'[e[1]] # "absent"
  <2>1. CASE e \in todo
    <3>1. intent[e[1]] # "absent"
      BY <2>1 DEF PaysForQuotedCart
    <3> QED BY <2>1, <3>1 DEF Event, PaymentsNext, CreatePayment, StripeChange, StripeMoves, Fetch,
            GatewayError, Stop, Throw, WorkerStep, Settle, Read, ConfirmSeats, KeepSeats,
            ClaimRefund, CreateRefund, RecordRefund, Complete, stripe, allVars
  <2>2. CASE e \notin todo
    <3>1. PICK i \in Intents, s \in IntentStatus : StripeChange(i, s)
      BY <1>3, <2>2 DEF PaymentsNext, CreatePayment, StripeChange, Fetch,
            GatewayError, Stop, Throw, WorkerStep, Settle, Read, ConfirmSeats, KeepSeats,
            ClaimRefund, CreateRefund, RecordRefund, Complete, queue, allVars
    <3>2. e = <<i, changes'[i]>> /\ e[1] = i
      BY <1>3, <2>2, <3>1 DEF StripeChange
    <3>3. intent'[i] = s /\ s # "absent"
      BY <3>1 DEF StripeChange, StripeMoves
    <3> QED BY <3>2, <3>3
  <2> QED BY <2>1, <2>2
<1> QED BY <1>2, <1>3 DEF PaysForQuotedCart

-----------------------------------------------------------------------------
(* Theorems.                                                               *)

PaymentsInv == WorkerInv /\ PaysForQuotedCart

LEMMA PaymentsInitially ==
    ASSUME PaymentsInit
    PROVE  PaymentsInv
<1> USE PaymentAssumption DEF PaymentsInit
<1>1. PaymentsTypeOK
  BY DEF PaymentsTypeOK, IntentStatus, PaymentStatus, Stage, Event
<1>2. OwnEvent /\ RefundInv /\ PaysForQuotedCart
  BY DEF OwnEvent, RefundInv, PaysForQuotedCart
<1> QED BY <1>1, <1>2 DEF PaymentsInv, WorkerInv

LEMMA PaymentsInvStep ==
    ASSUME TypeOK, PaymentsInv, [PaymentsNext]_allVars
    PROVE  PaymentsInv'
<1> USE DEF PaymentsInv
<1>1. WorkerInv'
  <2>1. CASE \E w \in Workers : WorkerStep(w)
    BY <2>1, WorkerKeeps
  <2>2. CASE PaymentsNext /\ ~ \E w \in Workers : WorkerStep(w)
    BY <2>2, OthersKeep
  <2>3. CASE UNCHANGED allVars
    BY <2>3 DEF WorkerInv, PaymentsTypeOK, OwnEvent, RefundInv, IntentOf, Event, allVars,
                stripe, money, queue, worker, refunds
  <2> QED BY <2>1, <2>2, <2>3
<1>2. PaysForQuotedCart'
  BY QuotedKept
<1> QED BY <1>1, <1>2

\* Whatever the interleaving of payers, Stripe, workers, retries and faults,
\* the seats behave as CheckoutCapacity says.
THEOREM CapacityImplemented == PaymentsSpec => ImplementsCapacity
<1>1. PaymentsInit => Init /\ IInv /\ PaymentsInv
  BY InitIInv, PaymentsInitially DEF PaymentsInit
<1>2. IInv /\ PaymentsInv /\ [PaymentsNext]_allVars => IInv' /\ PaymentsInv' /\ [Next]_vars
  BY SeatsRefined, IInvStep, PaymentsInvStep DEF IInv, PaymentsInv, WorkerInv
<1> QED BY <1>1, <1>2, PTL DEF PaymentsSpec, ImplementsCapacity, Spec

\* The payment rows, workers and claims stay well-typed, and their invariant
\* holds in every state.
THEOREM PaymentsInductive == PaymentsSpec => []PaymentsInv
<1>1. PaymentsInit => IInv /\ PaymentsInv
  BY InitIInv, PaymentsInitially DEF PaymentsInit
<1>2. IInv /\ PaymentsInv /\ [PaymentsNext]_allVars => IInv' /\ PaymentsInv'
  BY SeatsRefined, IInvStep, PaymentsInvStep DEF IInv, PaymentsInv, WorkerInv
<1> QED BY <1>1, <1>2, PTL DEF PaymentsSpec

THEOREM PaymentsTypeCorrect == PaymentsSpec => []PaymentsTypeOK
<1>1. PaymentsInv => PaymentsTypeOK
  BY DEF PaymentsInv, WorkerInv
<1> QED BY <1>1, PaymentsInductive, PTL

\* No payment is refunded twice: of all the workers that find the seats of a
\* payment lost, and all the retries of its events, one calls Stripe.
THEOREM NeverRefundedTwice == PaymentsSpec => []RefundedOnce
<1>1. PaymentsInv => RefundedOnce
  BY DEF PaymentsInv, WorkerInv, RefundInv, RefundedOnce
<1> QED BY <1>1, PaymentsInductive, PTL

\* The counters agree with the holds, no subject is oversold and carts are
\* confirmed whole, with payments as without them.
THEOREM SeatsSafe == PaymentsSpec => [](Reconciled /\ NoOversell /\ ConfirmedTogether)
<1> QED BY CapacityImplemented, CountersReconcile, NeverOversold, AllOrNothing, PTL
           DEF ImplementsCapacity

-----------------------------------------------------------------------------
(* CheckoutPayments: events handled in order, without faults.              *)

\* Worker w is at one of the stages S of an event of intent i.
At(w, S, i) == stage[w] \in S /\ IntentOf(w) = i
Busy(S, i) == \E w \in Workers : At(w, S, i)

\* A failed payment of cart c changes its places no more.
Spent(c) == failedOnce[c] \/ Lost(c)

\* A quoted cart is in payment or paid, and has all its hold rows.
QuotedCarts ==
    \A c \in Checkouts : Payable(c) =>
        /\ status[c] \in {"awaiting_payment", "completed"}
        /\ \A s \in Cart(c) : hold[c][s] # "none"

\* What Stripe knows, what the payment rows say and what is still in the
\* queue: a row that does not mirror its intent has its last event waiting.
Mirrored ==
    /\ \A i \in Intents :
          /\ (payment[i] = "none") <=> (intent[i] = "absent")
          /\ processingAt[i] # NoTime => intent[i] # "absent"
          /\ intent[i] = "processing" => i \in AchIntents
          /\ intent[i] \notin {"absent", "requires_payment_method"} => changes[i] > 0
          /\ changes[i] > 0 => <<i, changes[i]>> \in todo \/ payment[i] = StoredStatus(intent[i])
    /\ \A e \in todo : e[2] <= changes[e[1]]

\* What a worker has fetched is true still, or a later event waits; from the
\* settlement on the payment row says it too.
Fetched ==
    \A w \in Workers : stage[w] # "idle" =>
        LET i == IntentOf(w) IN
        /\ seen[w] = "processing" => i \in AchIntents
        /\ seen[w] = intent[i] \/ <<i, changes[i]>> \in todo \ {job[w]}
        /\ stage[w] # "settle" => payment[i] = StoredStatus(seen[w])
        /\ stage[w] = "keep" => seen[w] \in {"requires_payment_method", "canceled"}
        /\ stage[w] = "confirm" => seen[w] \in {"succeeded", "processing"}
        /\ stage[w] \in {"claim", "refund", "record"} => seen[w] = "succeeded"
        /\ stage[w] = "confirm" /\ seen[w] = "processing" /\ InTime(i) => honor[w]

\* A worker is about to keep the places of cart c after a failed payment.
Keeping(c) ==
    \E w \in Workers :
        /\ stage[w] \in {"read", "keep"}
        /\ CartFor(w) = c
        /\ seen[w] \in {"requires_payment_method", "canceled"}

\* A second intent of a cart exists only when the first one has failed, and
\* pays or processes only when the places were kept for that failure or lost.
Chances ==
    /\ \A i \in Intents : payment[i] \in {"failed", "canceled"} =>
          Spent(CartOf[i]) \/ Busy({"read", "keep"}, i)
    /\ \A i, j \in Intents :
          (i # j /\ CartOf[i] = CartOf[j] /\ payment[i] # "none" /\ payment[j] # "none") =>
              /\ Spent(CartOf[i]) \/ Keeping(CartOf[i])
              /\ payment[i] \in {"succeeded", "processing"} => Spent(CartOf[i])

\* A payment that succeeded has its seat or its refund, or a worker that is
\* on the way to one of them.
Resolved ==
    /\ \A i \in Intents : payment[i] = "succeeded" =>
          \/ status[CartOf[i]] = "completed" \/ refundCalls[i] > 0
          \/ Busy({"read", "confirm", "claim", "refund"}, i)
    /\ \A i \in claimed : refundCalls[i] > 0 \/ Busy({"refund"}, i)

\* A bank payment that is processing, begun in time, has its seat unless a
\* place is lost or a worker is on the way to confirm it.
Seated ==
    \A i \in Intents : (payment[i] = "processing" /\ InTime(i)) =>
        \/ status[CartOf[i]] = "completed"
        \/ Lost(CartOf[i])
        \/ Busy({"read", "confirm"}, i)

\* Before the first failure nothing is lost of a cart whose bank payment
\* began in time, and its worker confirms it before the clock moves.
OnTime ==
    \A i \in Intents : (InTime(i) /\ ~failedOnce[CartOf[i]]) =>
        /\ ~Lost(CartOf[i])
        /\ \/ status[CartOf[i]] = "completed"
           \/ /\ processingAt[i] = now
              /\ \E w \in Workers : At(w, {"read", "confirm"}, i) /\ seen[w] = "processing"

\* One worker handles the events.
OneWorker == \A v, w \in Workers : v = w

\* The state in which the events are handled in order, without faults.
OrderInv == QuotedCarts /\ Mirrored /\ Fetched /\ Chances /\ Resolved

-----------------------------------------------------------------------------
(* What a step does to the cart of a payment.                              *)

Rests(c) ==
    /\ status'[c] = status[c] /\ failedOnce'[c] = failedOnce[c]
    /\ holdExpires'[c] = holdExpires[c] /\ hold'[c] = hold[c]

Loses(c) ==
    /\ status[c] = "awaiting_payment" /\ status'[c] = "awaiting_payment"
    /\ failedOnce'[c] = failedOnce[c] /\ holdExpires'[c] = holdExpires[c]
    /\ holdExpires[c] + Grace <= now
    /\ \A s \in Cart(c) : hold'[c][s] \in {hold[c][s], "released"}

Confirms(c) ==
    /\ status[c] = "awaiting_payment" /\ status'[c] = "completed"
    /\ failedOnce'[c] = failedOnce[c] /\ holdExpires'[c] = holdExpires[c]
    /\ AllActive(c) /\ \A s \in Cart(c) : hold'[c][s] = "converted"

Keeps(c) ==
    /\ ~Spent(c) /\ failedOnce'[c] /\ status'[c] = "awaiting_payment"
    /\ \A s \in Cart(c) : hold'[c][s] = "active"

LEMMA CartSubjects == \A c \in Checkouts : Cart(c) \subseteq Subjects
  BY CartAssumption DEF Cart

\* The family, the job and the clock: the job takes places only from a cart
\* whose deadline and grace are over.
LEMMA SeatChangeOnCart ==
    ASSUME TypeOK, QuotedCarts, SeatChange, NEW c \in Checkouts, Payable(c)
    PROVE  Rests(c) \/ Loses(c)
<1> USE DEF TypeOK
<1>1. status[c] \in {"awaiting_payment", "completed"} /\ registration[c] # "none"
      /\ \A s \in Cart(c) : hold[c][s] # "none"
  BY DEF QuotedCarts, Payable
<1>2. \E s \in Cart(c) : TRUE
  BY CartAssumption DEF Cart
<1>3. ASSUME NEW d \in Checkouts, StartCheckout(d) \/ Reserve(d) \/ Freeze(d) \/ QuotePaid(d)
      PROVE  Rests(c)
  <2>1. CASE StartCheckout(d)
    BY <1>1, <2>1 DEF StartCheckout, Rests, counters
  <2>2. CASE Reserve(d)
    <3>1. d # c
      BY <1>1, <1>2, <2>2 DEF Reserve
    <3> QED BY <2>2, <3>1 DEF Reserve, Rests, checkout, SetHolds
  <2>3. CASE Freeze(d)
    BY <1>1, <2>3 DEF Freeze, Rests
  <2>4. CASE QuotePaid(d)
    BY <2>4 DEF QuotePaid, Rests, checkout
  <2> QED BY <1>3, <2>1, <2>2, <2>3, <2>4
<1>4. ASSUME NEW rows \in SUBSET DueHolds, ReleaseExpiredHolds(rows)
      PROVE  Rests(c) \/ Loses(c)
  <2>1. status'[c] = status[c] /\ failedOnce'[c] = failedOnce[c] /\ holdExpires'[c] = holdExpires[c]
    BY <1>1, <1>4 DEF ReleaseExpiredHolds
  <2>2. \A s \in Subjects : hold'[c][s] = IF <<c, s>> \in rows THEN "released" ELSE hold[c][s]
    BY <1>4 DEF ReleaseExpiredHolds
  <2>3. CASE \E s \in Subjects : <<c, s>> \in rows
    <3>1. PICK s \in Subjects : <<c, s>> \in DueHolds
      BY <1>4, <2>3
    <3>2. status[c] = "awaiting_payment" /\ holdExpires[c] + Grace <= now
      BY <1>1, <3>1 DEF DueHolds
    <3> QED BY <2>1, <2>2, <3>2, CartSubjects DEF Loses
  <2>4. CASE ~ \E s \in Subjects : <<c, s>> \in rows
    <3>1. hold'[c] = [s \in Subjects |-> hold[c][s]]
      BY <1>4, <2>4 DEF ReleaseExpiredHolds
    <3>2. hold'[c] = hold[c]
      BY <3>1
    <3> QED BY <2>1, <3>2 DEF Rests
  <2> QED BY <2>3, <2>4
<1>5. CASE Tick
  BY <1>5 DEF Tick, Rests, checkout
<1> QED BY <1>3, <1>4, <1>5 DEF SeatChange

\* A worker confirms or keeps the cart it works for, and touches no other.
LEMMA ConfirmOnCart ==
    ASSUME TypeOK, NEW d \in Checkouts, NEW b, Confirm(d, b), NEW c \in Checkouts
    PROVE  IF c = d THEN Confirms(c) ELSE Rests(c)
  BY CartSubjects DEF TypeOK, Confirm, ConfirmHolds, SetHolds, Confirms, Rests, AllActive

LEMMA KeepOnCart ==
    ASSUME TypeOK, NEW d \in Checkouts, KeepForFailedPayment(d), NEW c \in Checkouts
    PROVE  IF c = d THEN Keeps(c) ELSE Rests(c)
  BY CartSubjects DEF TypeOK, KeepForFailedPayment, SetHolds, Keeps, Rests, Spent, Lost

LEMMA UntouchedOnCart ==
    ASSUME UNCHANGED seats, NEW c
    PROVE  Rests(c)
  BY DEF seats, checkout, Rests

\* What does not go back.
LEMMA CartGoesOn ==
    ASSUME NEW c, Rests(c) \/ Loses(c) \/ Confirms(c) \/ Keeps(c)
    PROVE  /\ Spent(c) => Spent(c)'
           /\ ~Keeps(c) => (Lost(c) => Lost(c)')
           /\ ~Keeps(c) => (status[c] = "completed" => status'[c] = "completed")
           /\ ~Keeps(c) => failedOnce'[c] = failedOnce[c] /\ holdExpires'[c] = holdExpires[c]
  BY DEF Rests, Loses, Confirms, Keeps, Spent, Lost, AllActive

\* Quoted carts stay in payment or paid, with all their hold rows.
LEMMA QuotedCartsStep ==
    ASSUME TypeOK, PaymentsInv, QuotedCarts, [PaymentsNext]_allVars
    PROVE  QuotedCarts'
<1>1. ASSUME NEW c \in Checkouts, Payable(c), Rests(c) \/ Loses(c) \/ Confirms(c) \/ Keeps(c)
      PROVE  /\ status'[c] \in {"awaiting_payment", "completed"}
             /\ \A s \in Cart(c) : hold'[c][s] # "none"
  BY <1>1 DEF QuotedCarts, Rests, Loses, Confirms, Keeps
<1>2. CASE UNCHANGED seats
  BY <1>2 DEF QuotedCarts, Payable, seats, checkout
<1>3. ASSUME SeatChange PROVE QuotedCarts'
  <2>1. ASSUME NEW c \in Checkouts, Payable(c)', ~Payable(c) PROVE QuotePaid(c)
    BY <1>3, <2>1 DEF SeatChange, TypeOK, Payable, StartCheckout, Reserve, Freeze, QuotePaid,
                      ReleaseExpiredHolds, Tick
  <2>2. ASSUME NEW c \in Checkouts, QuotePaid(c)
        PROVE  status'[c] = "awaiting_payment" /\ \A s \in Cart(c) : hold'[c][s] # "none"
    BY <2>2 DEF QuotePaid, Quotable, AllActive, checkout
  <2>3. \A c \in Checkouts : Payable(c) => Rests(c) \/ Loses(c)
    BY <1>3, SeatChangeOnCart
  <2>4. \A c \in Checkouts : Payable(c)' =>
            /\ status'[c] \in {"awaiting_payment", "completed"}
            /\ \A s \in Cart(c) : hold'[c][s] # "none"
    BY <1>1, <2>1, <2>2, <2>3
  <2> QED BY <2>4 DEF QuotedCarts
<1>4. ASSUME NEW d \in Checkouts, NEW b \in BOOLEAN, Payable(d), Confirm(d, b) \/ KeepForFailedPayment(d)
      PROVE  QuotedCarts'
  <2>1. \A c \in Checkouts : Rests(c) \/ Confirms(c) \/ Keeps(c)
    BY <1>4, ConfirmOnCart, KeepOnCart
  <2>2. \A c \in Checkouts : Payable(c)' => Payable(c)
    BY <1>4 DEF TypeOK, Payable, Confirm, ConfirmHolds, KeepForFailedPayment
  <2>3. \A c \in Checkouts : Payable(c)' =>
            /\ status'[c] \in {"awaiting_payment", "completed"}
            /\ \A s \in Cart(c) : hold'[c][s] # "none"
    BY <1>1, <2>1, <2>2
  <2> QED BY <2>3 DEF QuotedCarts
<1>5. ASSUME NEW w \in Workers, ConfirmSeats(w) \/ KeepSeats(w) PROVE QuotedCarts'
  <2>1. CartFor(w) \in Checkouts /\ Payable(CartFor(w)) /\ honor[w] \in BOOLEAN
    BY <1>5, PaymentAssumption DEF PaymentsInv, WorkerInv, PaymentsTypeOK, OwnEvent, PaysForQuotedCart,
       CartFor, IntentOf, Event, ConfirmSeats, KeepSeats
  <2>2. \/ UNCHANGED seats \/ Confirm(CartFor(w), honor[w]) \/ KeepForFailedPayment(CartFor(w))
    BY <1>5 DEF ConfirmSeats, KeepSeats, Throw
  <2> QED BY <1>2, <1>4, <2>1, <2>2
<1>6. \/ UNCHANGED seats \/ SeatChange \/ \E w \in Workers : ConfirmSeats(w) \/ KeepSeats(w)
  BY DEF PaymentsNext, CreatePayment, StripeChange, Fetch, WorkerStep, Settle, Read, ClaimRefund,
         CreateRefund, RecordRefund, Complete, GatewayError, Stop, Throw, allVars
<1> QED BY <1>2, <1>3, <1>5, <1>6

-----------------------------------------------------------------------------
(* Stripe, the payment rows and the queue.                                 *)

\* The worker that is at work.
LEMMA AtWorkOn ==
    ASSUME PaymentsInv, NEW w \in Workers, stage[w] # "idle"
    PROVE  /\ IntentOf(w) \in Intents /\ CartFor(w) = CartOf[IntentOf(w)] /\ CartFor(w) \in Checkouts
           /\ Payable(CartFor(w)) /\ intent[IntentOf(w)] # "absent"
           /\ job[w] \in todo /\ job[w] = <<IntentOf(w), job[w][2]>>
           /\ job[w][1] = IntentOf(w) /\ job[w][2] \in Nat
           /\ seen[w] \in IntentStatus \ {"absent"}
  BY PaymentAssumption DEF PaymentsInv, WorkerInv, PaymentsTypeOK, OwnEvent, PaysForQuotedCart,
     CartFor, IntentOf, Event

LEMMA StatusStored ==
    /\ \A s \in IntentStatus \ {"absent"} : StoredStatus(s) # "none" /\ StoredStatus(s) \in PaymentStatus
    /\ \A s \in IntentStatus \ {"absent"} :
          /\ StoredStatus(s) = "succeeded" <=> s = "succeeded"
          /\ StoredStatus(s) = "processing" <=> s = "processing"
          /\ StoredStatus(s) \in {"failed", "canceled"} <=> s \in {"requires_payment_method", "canceled"}
    /\ StoredStatus("absent") \notin PaymentStatus
  BY DEF StoredStatus, IntentStatus, PaymentStatus

\* An intent that does not exist has sent nothing.
LEMMA AbsentIsSilent ==
    ASSUME PaymentsInv, Mirrored, NEW i \in Intents, intent[i] = "absent"
    PROVE  changes[i] = 0 /\ payment[i] = "none" /\ processingAt[i] = NoTime
           /\ \A e \in todo : e[1] # i
<1>1. payment[i] = "none" /\ processingAt[i] = NoTime
  BY DEF Mirrored
<1>2. \A e \in todo : e[1] # i
  BY DEF PaymentsInv, PaysForQuotedCart
<1>3. ~(<<i, changes[i]>> \in todo)
  BY <1>2
<1>4. payment[i] # StoredStatus(intent[i])
  BY StatusStored DEF PaymentsInv, WorkerInv, PaymentsTypeOK
<1>5. ~(changes[i] > 0)
  BY <1>3, <1>4 DEF Mirrored
<1>6. changes[i] \in Nat
  BY DEF PaymentsInv, WorkerInv, PaymentsTypeOK
<1> QED BY <1>1, <1>2, <1>5, <1>6

LEMMA MirroredStep ==
    ASSUME PaymentsInv, TypeOK, Mirrored, Fetched, ~Faults, [PaymentsNext]_allVars
    PROVE  Mirrored'
<1> USE DEF PaymentsInv, WorkerInv, PaymentsTypeOK
<1>1. ASSUME NEW i \in Intents, CreatePayment(i) PROVE Mirrored'
  <2>1. changes[i] = 0 /\ processingAt[i] = NoTime
    BY <1>1, AbsentIsSilent DEF CreatePayment
  <2> QED BY <1>1, <2>1 DEF CreatePayment, Mirrored, queue
<1>2. ASSUME NEW i \in Intents, NEW s \in IntentStatus, StripeChange(i, s) PROVE Mirrored'
  <2>1. /\ intent[i] # "absent" /\ s # "absent"
        /\ s = "processing" => i \in AchIntents
    BY <1>2 DEF StripeChange, StripeMoves
  <2>2. /\ intent' = [intent EXCEPT ![i] = s] /\ changes' = [changes EXCEPT ![i] = @ + 1]
        /\ todo' = todo \cup {<<i, changes'[i]>>} /\ UNCHANGED money
    BY <1>2 DEF StripeChange
  <2>3. \A e \in todo' : e[2] <= changes'[e[1]]
    <3>1. \A e \in todo : e \in Event /\ e[2] <= changes[e[1]] /\ e[1] \in Intents
      BY DEF Mirrored, Event
    <3>2. \A j \in Intents : changes[j] \in Nat /\ changes[j] <= changes'[j]
      BY <2>2
    <3>3. \A e \in todo : e[2] <= changes'[e[1]]
      <4> TAKE e \in todo
      <4>1. e[2] \in Nat /\ e[2] <= changes[e[1]] /\ changes[e[1]] \in Nat
            /\ changes[e[1]] <= changes'[e[1]] /\ changes'[e[1]] \in Nat
        BY <2>2, <3>1, <3>2 DEF Event
      <4> QED BY <4>1
    <3>4. <<i, changes'[i]>>[2] <= changes'[<<i, changes'[i]>>[1]]
      BY <2>2
    <3> QED BY <2>2, <3>3, <3>4
  <2>4. \A j \in Intents : changes'[j] > 0 => <<j, changes'[j]>> \in todo' \/ payment'[j] = StoredStatus(intent'[j])
    BY <2>2 DEF Mirrored, money
  <2>5. changes'[i] > 0 /\ \A j \in Intents : j # i => changes'[j] = changes[j] /\ intent'[j] = intent[j]
    BY <2>2
  <2>6. \A j \in Intents :
          /\ (payment'[j] = "none") <=> (intent'[j] = "absent")
          /\ processingAt'[j] # NoTime => intent'[j] # "absent"
          /\ intent'[j] = "processing" => j \in AchIntents
    BY <2>1, <2>2 DEF Mirrored, money
  <2>7. \A j \in Intents : intent'[j] \notin {"absent", "requires_payment_method"} => changes'[j] > 0
    BY <2>5 DEF Mirrored
  <2> QED BY <2>3, <2>4, <2>6, <2>7 DEF Mirrored
<1>3. ASSUME NEW w \in Workers, Settle(w) PROVE Mirrored'
  <2>1. stage[w] # "idle"
    BY <1>3 DEF Settle
  <2>2. CASE Throw(w)
    BY <2>2 DEF Throw, Mirrored, stripe, money
  <2>3. CASE ~Throw(w)
    <3>1. /\ payment' = [payment EXCEPT ![IntentOf(w)] = StoredStatus(seen[w])]
          /\ processingAt' \in {processingAt, [processingAt EXCEPT ![IntentOf(w)] = now]}
          /\ UNCHANGED <<stripe, queue>>
      BY <1>3, <2>3 DEF Settle
    <3>2. StoredStatus(seen[w]) # "none" /\ intent[IntentOf(w)] # "absent" /\ IntentOf(w) \in Intents
      BY <2>1, AtWorkOn, StatusStored
    <3>3. seen[w] = intent[IntentOf(w)] \/ <<IntentOf(w), changes[IntentOf(w)]>> \in todo
      BY <2>1 DEF Fetched
    <3> QED BY <3>1, <3>2, <3>3 DEF Mirrored, stripe, queue
  <2> QED BY <2>2, <2>3
<1>4. ASSUME NEW w \in Workers, Complete(w) PROVE Mirrored'
  <2>1. stage[w] = "complete" /\ stage[w] # "idle" /\ stage[w] # "settle"
    BY <1>4 DEF Complete
  <2>2. /\ seen[w] = intent[IntentOf(w)] \/ <<IntentOf(w), changes[IntentOf(w)]>> \in todo \ {job[w]}
        /\ payment[IntentOf(w)] = StoredStatus(seen[w])
    BY <2>1 DEF Fetched
  <2>3. /\ todo' = todo \ {job[w]} /\ UNCHANGED <<stripe, money>>
    BY <1>4 DEF Complete
  <2>4. job[w][1] = IntentOf(w)
    BY DEF IntentOf
  <2>5. \A i \in Intents : changes[i] > 0 => <<i, changes[i]>> \in todo' \/ payment[i] = StoredStatus(intent[i])
    BY <2>2, <2>3, <2>4 DEF Mirrored
  <2> QED BY <2>3, <2>5 DEF Mirrored, stripe, money
<1>5. CASE UNCHANGED <<stripe, payment, processingAt, todo>>
  BY <1>5 DEF Mirrored, stripe
<1> QED BY <1>1, <1>2, <1>3, <1>4, <1>5
        DEF PaymentsNext, Fetch, WorkerStep, Read, ConfirmSeats, KeepSeats, ClaimRefund, CreateRefund,
            RecordRefund, GatewayError, Throw, Stop, allVars, queue, money

\* What is fetched of worker w, at the level of the one worker there is.
FetchedBy(w) ==
    LET i == IntentOf(w) IN
    /\ seen[w] = "processing" => i \in AchIntents
    /\ seen[w] = intent[i] \/ <<i, changes[i]>> \in todo \ {job[w]}
    /\ stage[w] # "settle" => payment[i] = StoredStatus(seen[w])
    /\ stage[w] = "keep" => seen[w] \in {"requires_payment_method", "canceled"}
    /\ stage[w] = "confirm" => seen[w] \in {"succeeded", "processing"}
    /\ stage[w] \in {"claim", "refund", "record"} => seen[w] = "succeeded"
    /\ stage[w] = "confirm" /\ seen[w] = "processing" /\ InTime(i) => honor[w]

LEMMA FetchedByAll == Fetched <=> \A w \in Workers : stage[w] # "idle" => FetchedBy(w)
  BY DEF Fetched, FetchedBy

\* Whoever throws or completes is idle.
LEMMA IdleFetched ==
    ASSUME OneWorker, PaymentsInv, NEW w \in Workers, Forget(w)
    PROVE  Fetched' /\ \A v \in Workers : stage'[v] = "idle"
  BY DEF OneWorker, PaymentsInv, WorkerInv, PaymentsTypeOK, Forget, GoTo, Fetched

\* A step that is not a worker's leaves what is fetched as it is.
LEMMA FetchedAside ==
    ASSUME PaymentsInv, TypeOK, QuotedCarts, Mirrored, Fetched, NEW w \in Workers, stage[w] # "idle",
           UNCHANGED worker, NEW i, i = IntentOf(w),
           payment'[i] = payment[i], processingAt'[i] = processingAt[i],
           holdExpires'[CartOf[i]] = holdExpires[CartOf[i]],
           \/ intent'[i] = intent[i] /\ changes'[i] = changes[i] /\ todo \subseteq todo'
           \/ <<i, changes'[i]>> \in todo' \ {job[w]}
    PROVE  FetchedBy(w)'
<1>1. FetchedBy(w)
  BY FetchedByAll
<1>2. IntentOf(w)' = i /\ InTime(i)' = InTime(i)
  BY DEF IntentOf, worker, InTime
<1> QED BY <1>1, <1>2 DEF FetchedBy, worker

LEMMA FetchedStep ==
    ASSUME OneWorker, PaymentsInv, TypeOK, QuotedCarts, Mirrored, Fetched, ~Faults,
           [PaymentsNext]_allVars
    PROVE  Fetched'
<1>0. ASSUME NEW w \in Workers, stage'[w] # "idle" => FetchedBy(w)' PROVE Fetched'
  BY <1>0, FetchedByAll DEF OneWorker, Fetched, FetchedBy
<1>1. ASSUME NEW i \in Intents, CreatePayment(i) PROVE Fetched'
  <2>1. ASSUME NEW w \in Workers, stage[w] # "idle" PROVE FetchedBy(w)'
    <3>1. IntentOf(w) # i /\ IntentOf(w) \in Intents
      BY <1>1, <2>1, AtWorkOn DEF CreatePayment
    <3>2. /\ payment'[IntentOf(w)] = payment[IntentOf(w)] /\ intent'[IntentOf(w)] = intent[IntentOf(w)]
          /\ UNCHANGED <<processingAt, holdExpires, changes, todo, worker>>
      BY <1>1, <3>1 DEF CreatePayment, PaymentsInv, WorkerInv, PaymentsTypeOK, seats, queue
    <3> QED BY <2>1, <3>2, FetchedAside
  <2> QED BY <1>0, <1>1, <2>1 DEF CreatePayment, worker, Fetched, FetchedBy
<1>2. ASSUME NEW i \in Intents, NEW s \in IntentStatus, StripeChange(i, s) PROVE Fetched'
  <2>1. ASSUME NEW w \in Workers, stage[w] # "idle" PROVE FetchedBy(w)'
    <3>1. UNCHANGED <<payment, processingAt, holdExpires, worker>> /\ todo \subseteq todo'
      BY <1>2 DEF StripeChange, seats, money
    <3>2. CASE IntentOf(w) = i
      <4>1. changes'[i] = changes[i] + 1 /\ <<i, changes'[i]>> \in todo' /\ changes[i] \in Nat
        BY <1>2 DEF StripeChange, PaymentsInv, WorkerInv, PaymentsTypeOK
      <4>2. job[w][2] <= changes[i] /\ job[w][2] \in Nat
        BY <2>1, <3>2, AtWorkOn DEF Mirrored
      <4>3. <<i, changes'[i]>>[2] # job[w][2]
        BY <4>1, <4>2
      <4> QED BY <2>1, <3>1, <3>2, <4>1, <4>3, FetchedAside
    <3>3. CASE IntentOf(w) # i
      <4>1. intent'[IntentOf(w)] = intent[IntentOf(w)] /\ changes'[IntentOf(w)] = changes[IntentOf(w)]
        BY <1>2, <2>1, <3>3, AtWorkOn DEF StripeChange, PaymentsInv, WorkerInv, PaymentsTypeOK
      <4> QED BY <2>1, <3>1, <4>1, FetchedAside
    <3> QED BY <3>2, <3>3
  <2> QED BY <1>2, <2>1, FetchedByAll DEF StripeChange, worker, Fetched, FetchedBy
<1>3. ASSUME NEW w \in Workers, NEW e \in todo, Fetch(w, e) PROVE Fetched'
  <2>1. e \in Event /\ intent[e[1]] # "absent" /\ e[1] \in Intents
    BY DEF PaymentsInv, WorkerInv, PaymentsTypeOK, PaysForQuotedCart, Event
  <2>2. stage'[w] = "settle" /\ job'[w] = e /\ seen'[w] = intent[e[1]] /\ UNCHANGED <<intent, todo>>
    BY <1>3 DEF Fetch, GoTo, PaymentsInv, WorkerInv, PaymentsTypeOK, stripe, queue
  <2>3. intent[e[1]] = "processing" => e[1] \in AchIntents
    BY <2>1 DEF Mirrored
  <2>4. IntentOf(w)' = e[1]
    BY <2>2 DEF IntentOf
  <2>5. FetchedBy(w)'
    BY <2>2, <2>3, <2>4 DEF FetchedBy
  <2> QED BY <1>0, <2>5
<1>4. ASSUME NEW w \in Workers, Settle(w) PROVE Fetched'
  <2>1. stage[w] # "idle"
    BY <1>4 DEF Settle
  <2>2. CASE Throw(w)
    BY <2>2, IdleFetched DEF Throw
  <2>3. CASE ~Throw(w)
    <3>1. payment' = [payment EXCEPT ![IntentOf(w)] = StoredStatus(seen[w])] /\ stage'[w] = "read"
          /\ UNCHANGED <<stripe, queue, job, seen>>
      BY <1>4, <2>3 DEF Settle, GoTo, PaymentsInv, WorkerInv, PaymentsTypeOK
    <3>2. payment'[IntentOf(w)] = StoredStatus(seen[w]) /\ IntentOf(w)' = IntentOf(w)
      BY <2>1, <3>1, AtWorkOn DEF IntentOf, PaymentsInv, WorkerInv, PaymentsTypeOK
    <3>3. FetchedBy(w)
      BY <2>1, FetchedByAll
    <3> QED BY <1>0, <3>1, <3>2, <3>3 DEF FetchedBy, stripe, queue
  <2> QED BY <2>2, <2>3
<1>5. ASSUME NEW w \in Workers, Read(w) PROVE Fetched'
  <2>1. stage[w] # "idle" /\ stage[w] # "settle"
    BY <1>5 DEF Read
  <2>2. CASE Throw(w)
    BY <2>2, IdleFetched DEF Throw
  <2>3. CASE ~Throw(w)
    <3>1. /\ stage'[w] \in {"confirm", "keep", "complete"}
          /\ stage'[w] = "confirm" => seen[w] \in {"succeeded", "processing"}
          /\ stage'[w] = "keep" => seen[w] \in {"requires_payment_method", "canceled"}
          /\ seen[w] = "processing" => (honor'[w] <=> InTime(IntentOf(w)))
          /\ UNCHANGED <<seats, stripe, money, queue, job, seen>>
      <4>1. /\ UNCHANGED <<seats, stripe, money, queue, job, seen>>
            /\ honor' = [honor EXCEPT ![w] =
                  /\ InTime(IntentOf(w))
                  /\ seen[w] = "succeeded" => status[CartOf[IntentOf(w)]] = "awaiting_payment"]
        BY <1>5, <2>3 DEF Read
      <4>2. honor \in [Workers -> BOOLEAN] /\ stage \in [Workers -> Stage]
        BY DEF PaymentsInv, WorkerInv, PaymentsTypeOK
      <4>3. seen[w] = "processing" => (honor'[w] <=> InTime(IntentOf(w)))
        <5>1. honor'[w] = (/\ InTime(IntentOf(w))
                           /\ seen[w] = "succeeded" => status[CartOf[IntentOf(w)]] = "awaiting_payment")
          BY Zenon, <4>1, <4>2
        <5>2. ASSUME seen[w] = "processing" PROVE seen[w] # "succeeded"
          BY <5>2
        <5> QED BY Zenon, <5>1, <5>2
      <4>4. \/ GoTo(w, "confirm") /\ seen[w] \in {"succeeded", "processing"}
            \/ GoTo(w, "keep") /\ seen[w] \in {"requires_payment_method", "canceled"}
            \/ GoTo(w, "complete")
        BY <1>5, <2>3 DEF Read
      <4>5. \A next : GoTo(w, next) => stage'[w] = next
        BY <4>2 DEF GoTo
      <4> QED BY <4>1, <4>3, <4>4, <4>5
    <3>2. IntentOf(w)' = IntentOf(w) /\ InTime(IntentOf(w))' = InTime(IntentOf(w))
      BY <3>1 DEF IntentOf, InTime, seats, money
    <3>3. FetchedBy(w)
      BY <2>1, FetchedByAll
    <3> QED BY <1>0, <2>1, <3>1, <3>2, <3>3 DEF FetchedBy, stripe, queue, money
  <2> QED BY <2>2, <2>3
<1>6. ASSUME NEW w \in Workers,
             ConfirmSeats(w) \/ KeepSeats(w) \/ ClaimRefund(w) \/ CreateRefund(w) \/ RecordRefund(w)
      PROVE  Fetched'
  <2>1. stage[w] \notin {"idle", "settle"}
    BY <1>6 DEF ConfirmSeats, KeepSeats, ClaimRefund, CreateRefund, RecordRefund
  <2>2. CASE Throw(w)
    BY <2>2, IdleFetched DEF Throw
  <2>3. CASE ~Throw(w)
    <3>1. /\ stage'[w] \in {"claim", "refund", "record", "complete"}
          /\ stage'[w] # "complete" => seen[w] = "succeeded"
          /\ UNCHANGED <<stripe, payment, processingAt, queue, job, seen, honor>>
      <4>1. stage[w] \in {"claim", "refund", "record"} => seen[w] = "succeeded"
        BY <2>1 DEF Fetched
      <4>2. \A next : GoTo(w, next) => stage'[w] = next
        BY DEF GoTo, PaymentsInv, WorkerInv, PaymentsTypeOK
      <4> QED BY <1>6, <2>3, <4>1, <4>2
              DEF ConfirmSeats, KeepSeats, ClaimRefund, CreateRefund, RecordRefund, money
    <3>2. IntentOf(w)' = IntentOf(w)
      BY <3>1 DEF IntentOf
    <3>3. FetchedBy(w)
      BY <2>1, FetchedByAll
    <3>4. FetchedBy(w)'
      BY <2>1, <3>1, <3>2, <3>3 DEF FetchedBy, stripe, queue, money
    <3> QED BY <1>0, <3>4
  <2> QED BY <2>2, <2>3
<1>7. ASSUME NEW w \in Workers, Complete(w) PROVE Fetched'
  BY <1>7, IdleFetched DEF Complete
<1>8. ASSUME SeatChange \/ UNCHANGED seats, UNCHANGED <<stripe, money, queue, worker>> PROVE Fetched'
  <2>1. ASSUME NEW w \in Workers, stage[w] # "idle" PROVE FetchedBy(w)'
    <3>1. Payable(CartOf[IntentOf(w)]) /\ CartOf[IntentOf(w)] \in Checkouts
      BY <2>1, AtWorkOn
    <3>2. holdExpires'[CartOf[IntentOf(w)]] = holdExpires[CartOf[IntentOf(w)]]
      BY <1>8, <3>1, SeatChangeOnCart, UntouchedOnCart DEF Rests, Loses
    <3> QED BY <1>8, <2>1, <3>2, FetchedAside DEF stripe, money, queue
  <2> QED BY <1>8, <2>1 DEF worker, Fetched, FetchedBy
<1> QED BY <1>1, <1>2, <1>3, <1>4, <1>5, <1>6, <1>7, <1>8
        DEF PaymentsNext, WorkerStep, GatewayError, Stop, allVars

-----------------------------------------------------------------------------
(* Seats while payments are handled.                                       *)

\* What happens to a cart in payment, and by whom.
LEMMA CartMoved ==
    ASSUME TypeOK, PaymentsInv, QuotedCarts, [PaymentsNext]_allVars,
           NEW c \in Checkouts, Payable(c)
    PROVE  \/ Rests(c)
           \/ SeatChange /\ UNCHANGED <<stripe, money, queue, worker, refunds>> /\ Loses(c)
           \/ \E w \in Workers : ConfirmSeats(w) /\ CartFor(w) = c /\ Confirms(c)
           \/ \E w \in Workers : KeepSeats(w) /\ CartFor(w) = c /\ Keeps(c)
<1>1. CASE UNCHANGED seats
  BY <1>1, UntouchedOnCart
<1>2. CASE SeatChange /\ UNCHANGED <<stripe, money, queue, worker, refunds>>
  BY <1>2, SeatChangeOnCart
<1>3. ASSUME NEW w \in Workers, ConfirmSeats(w), ~UNCHANGED seats
      PROVE  Rests(c) \/ (CartFor(w) = c /\ Confirms(c))
  <2>1. Confirm(CartFor(w), honor[w]) /\ stage[w] # "idle"
    BY <1>3 DEF ConfirmSeats
  <2> QED BY <2>1, AtWorkOn, ConfirmOnCart
<1>4. ASSUME NEW w \in Workers, KeepSeats(w), ~UNCHANGED seats
      PROVE  Rests(c) \/ (CartFor(w) = c /\ Keeps(c))
  <2>1. KeepForFailedPayment(CartFor(w)) /\ stage[w] # "idle"
    BY <1>4 DEF KeepSeats, Throw
  <2> QED BY <2>1, AtWorkOn, KeepOnCart
<1>5. \/ UNCHANGED seats
      \/ SeatChange /\ UNCHANGED <<stripe, money, queue, worker, refunds>>
      \/ \E w \in Workers : ConfirmSeats(w) \/ KeepSeats(w)
  BY DEF PaymentsNext, CreatePayment, StripeChange, Fetch, WorkerStep, Settle, Read, ClaimRefund,
         CreateRefund, RecordRefund, Complete, GatewayError, Stop, Throw, allVars
<1> QED BY <1>1, <1>2, <1>3, <1>4, <1>5

\* The cart of a payment row is a cart in payment.
LEMMA CartOfPayment ==
    ASSUME PaymentsInv, Mirrored, NEW i \in Intents,
           payment[i] # "none" \/ intent[i] # "absent" \/ processingAt[i] # NoTime
    PROVE  CartOf[i] \in Checkouts /\ Payable(CartOf[i]) /\ intent[i] # "absent" /\ payment[i] # "none"
  BY PaymentAssumption DEF PaymentsInv, PaysForQuotedCart, Mirrored

LEMMA SpentStays ==
    ASSUME TypeOK, PaymentsInv, QuotedCarts, Mirrored, [PaymentsNext]_allVars,
           NEW i \in Intents, payment[i] # "none", Spent(CartOf[i])
    PROVE  Spent(CartOf[i])'
  BY CartMoved, CartOfPayment, CartGoesOn

-----------------------------------------------------------------------------
(* Failed payments.                                                        *)

\* Nobody is keeping places after a failure.
NobodyKeeps == \A w \in Workers : stage[w] \notin {"read", "keep"}

\* The payment rows stay, and whoever was keeping places goes on or has spent
\* the cart's chance.
LEMMA ChancesKept ==
    ASSUME Chances, UNCHANGED payment,
           \A i \in Intents : payment[i] # "none" /\ Spent(CartOf[i]) => Spent(CartOf[i])',
           \A i \in Intents : payment[i] \in {"failed", "canceled"} /\ Busy({"read", "keep"}, i) =>
              Spent(CartOf[i])' \/ Busy({"read", "keep"}, i)',
           \A i \in Intents : payment[i] # "none" /\ Keeping(CartOf[i]) =>
              Spent(CartOf[i])' \/ Keeping(CartOf[i])'
    PROVE  Chances'
  BY DEF Chances

LEMMA ChancesStep ==
    ASSUME OneWorker, TypeOK, PaymentsInv, QuotedCarts, Mirrored, Fetched, Chances, ~Faults,
           [PaymentsNext]_allVars
    PROVE  Chances'
<1>0. \A i \in Intents : payment[i] # "none" /\ Spent(CartOf[i]) => Spent(CartOf[i])'
  BY SpentStays
<1>1. ASSUME NEW i \in Intents, CreatePayment(i) PROVE Chances'
  <2>1. /\ payment' = [payment EXCEPT ![i] = "requires_action"] /\ UNCHANGED <<seats, worker>>
        /\ \A j \in Intents : CartOf[j] = CartOf[i] =>
              payment[j] \notin {"requires_action", "processing", "succeeded"}
        /\ payment[i] = "none"
    BY <1>1, AbsentIsSilent DEF CreatePayment
  <2>2. \A j \in Intents : payment'[j] = IF j = i THEN "requires_action" ELSE payment[j]
    BY <2>1 DEF PaymentsInv, WorkerInv, PaymentsTypeOK
  <2>3. \A c : (Spent(c)' <=> Spent(c)) /\ (Keeping(c)' <=> Keeping(c))
    BY <2>1 DEF Spent, Lost, Keeping, CartFor, IntentOf, seats, checkout, worker
  <2>4. \A j : Busy({"read", "keep"}, j)' <=> Busy({"read", "keep"}, j)
    BY <2>1 DEF Busy, At, IntentOf, worker
  <2>5. ASSUME NEW j \in Intents, CartOf[j] = CartOf[i], payment[j] # "none"
        PROVE  Spent(CartOf[i]) \/ Keeping(CartOf[i])
    <3>1. payment[j] \in {"failed", "canceled"}
      BY <2>1, <2>5 DEF PaymentsInv, WorkerInv, PaymentsTypeOK, PaymentStatus
    <3>2. CASE Busy({"read", "keep"}, j)
      <4>1. PICK w \in Workers : stage[w] \in {"read", "keep"} /\ IntentOf(w) = j
        BY <3>2 DEF Busy, At
      <4>2. StoredStatus(seen[w]) = payment[j] /\ stage[w] # "idle"
        BY <4>1 DEF Fetched
      <4>3. seen[w] \in {"requires_payment_method", "canceled"}
        BY <3>1, <4>2, AtWorkOn, StatusStored
      <4> QED BY <2>5, <4>1, <4>3 DEF Keeping, CartFor
    <3> QED BY <2>5, <3>1, <3>2 DEF Chances
  <2> QED BY <2>1, <2>2, <2>3, <2>4, <2>5 DEF Chances
<1>2. ASSUME UNCHANGED <<payment, worker>> PROVE Chances'
  <2>1. \A j : Busy({"read", "keep"}, j)' <=> Busy({"read", "keep"}, j)
    BY <1>2 DEF Busy, At, IntentOf, worker
  <2>2. \A c : Keeping(c)' <=> Keeping(c)
    BY <1>2 DEF Keeping, CartFor, IntentOf, worker
  <2> QED BY <1>0, <1>2, <2>1, <2>2, ChancesKept
<1>3. ASSUME NobodyKeeps, UNCHANGED payment PROVE Chances'
  <2>1. \A j : ~Busy({"read", "keep"}, j) /\ \A c : ~Keeping(c)
    BY <1>3 DEF NobodyKeeps, Busy, At, Keeping
  <2> QED BY <1>0, <1>3, <2>1, ChancesKept
<1>4. ASSUME NEW w \in Workers, stage[w] \notin {"read", "keep"} PROVE NobodyKeeps
  BY <1>4 DEF OneWorker, NobodyKeeps
<1>5. ASSUME NEW w \in Workers, Settle(w) PROVE Chances'
  <2>1. stage[w] = "settle" /\ NobodyKeeps
    BY <1>4, <1>5 DEF Settle
  <2>2. CASE Throw(w)
    BY <1>3, <2>1, <2>2 DEF Throw, money
  <2>3. CASE ~Throw(w)
    <3> DEFINE i == IntentOf(w)
    <3>1. i \in Intents /\ payment[i] # "none"
      BY <2>1, AtWorkOn, CartOfPayment
    <3>2. /\ payment' = [payment EXCEPT ![i] = StoredStatus(seen[w])]
          /\ UNCHANGED <<seats, job>> /\ stage'[w] = "read"
      BY <1>5, <2>3 DEF Settle, GoTo, PaymentsInv, WorkerInv, PaymentsTypeOK
    <3>3. \A j \in Intents : j # i => payment'[j] = payment[j]
      BY <3>2 DEF PaymentsInv, WorkerInv, PaymentsTypeOK
    <3>4. \A j : j = i => Busy({"read", "keep"}, j)'
      BY <3>2 DEF Busy, At, IntentOf
    <3>5. \A j : ~Busy({"read", "keep"}, j) /\ \A c : ~Keeping(c)
      BY <2>1 DEF NobodyKeeps, Busy, At, Keeping
    <3>6. \A j, k \in Intents :
             (j # k /\ CartOf[j] = CartOf[k] /\ payment[j] # "none" /\ payment[k] # "none") =>
                Spent(CartOf[j])'
      BY <1>0, <3>5 DEF Chances
    <3>7. \A j \in Intents : payment'[j] # "none" => payment[j] # "none"
      BY <3>1, <3>3
    <3>8. \A j \in Intents : payment'[j] \in {"failed", "canceled"} =>
             Spent(CartOf[j])' \/ Busy({"read", "keep"}, j)'
      BY <1>0, <3>3, <3>4, <3>5 DEF Chances
    <3> HIDE DEF i
    <3> QED BY <3>6, <3>7, <3>8 DEF Chances
  <2> QED BY <2>2, <2>3
<1>6. ASSUME NEW w \in Workers, Read(w) PROVE Chances'
  <2>1. stage[w] = "read" /\ payment[IntentOf(w)] = StoredStatus(seen[w])
    BY <1>6 DEF Read, Fetched
  <2>2. /\ UNCHANGED <<payment, job, seen>>
        /\ seen[w] \in {"requires_payment_method", "canceled"} => GoTo(w, "keep")
    BY <1>6, <2>1 DEF Read, money
  <2>3. ASSUME seen[w] \in {"requires_payment_method", "canceled"} PROVE Chances'
    <3>1. stage'[w] = "keep"
      BY <2>2, <2>3 DEF GoTo, PaymentsInv, WorkerInv, PaymentsTypeOK
    <3>2. \A j : Busy({"read", "keep"}, j) => Busy({"read", "keep"}, j)'
      BY <2>2, <3>1 DEF OneWorker, Busy, At, IntentOf
    <3>3. \A c : Keeping(c) => Keeping(c)'
      BY <2>2, <3>1 DEF OneWorker, Keeping, CartFor, IntentOf
    <3> QED BY <1>0, <2>2, <3>2, <3>3, ChancesKept
  <2>4. ASSUME seen[w] \notin {"requires_payment_method", "canceled"} PROVE Chances'
    <3>1. payment[IntentOf(w)] \notin {"failed", "canceled"}
      BY <2>1, <2>4, AtWorkOn, StatusStored
    <3>2. \A j : payment[j] \in {"failed", "canceled"} => ~Busy({"read", "keep"}, j)
      BY <3>1 DEF OneWorker, Busy, At
    <3>3. \A c : ~Keeping(c)
      BY <2>4 DEF OneWorker, Keeping
    <3> QED BY <1>0, <2>2, <3>2, <3>3, ChancesKept
  <2> QED BY <2>3, <2>4
<1>7. ASSUME NEW w \in Workers, KeepSeats(w) PROVE Chances'
  <2>1. stage[w] = "keep" /\ stage[w] # "idle"
    BY <1>7 DEF KeepSeats
  <2>2. /\ CartFor(w) \in Checkouts /\ Payable(CartFor(w)) /\ IntentOf(w) \in Intents
        /\ payment[IntentOf(w)] # "none" /\ CartFor(w) = CartOf[IntentOf(w)]
    BY <2>1, AtWorkOn, CartOfPayment
  <2>3. UNCHANGED payment
    BY <1>7 DEF KeepSeats, Throw, money
  <2>4. Spent(CartFor(w)) \/ KeepForFailedPayment(CartFor(w))
    BY <1>7, <2>2 DEF KeepSeats, Spent, Lost, QuotedCarts
  <2>5. ASSUME NEW j \in Intents, CartOf[j] = CartOf[IntentOf(w)] PROVE Spent(CartOf[j])'
    <3>2. CartOf[j] = CartFor(w) /\ CartOf[j] \in Checkouts
      BY <2>2, <2>5
    <3>3. ASSUME KeepForFailedPayment(CartOf[j]) PROVE Spent(CartOf[j])'
      <4>1. Keeps(CartOf[j])
        BY <3>2, <3>3, KeepOnCart
      <4> QED BY <4>1 DEF Keeps, Spent
    <3>4. ASSUME Spent(CartOf[j]) PROVE Spent(CartOf[j])'
      BY <2>2, <3>2, <3>4, CartMoved, CartGoesOn
    <3> QED BY <2>4, <3>2, <3>3, <3>4
  <2>6. \A j : Busy({"read", "keep"}, j) => j = IntentOf(w)
    BY DEF OneWorker, Busy, At
  <2>7. \A c : Keeping(c) => c = CartOf[IntentOf(w)]
    BY <2>2 DEF OneWorker, Keeping
  <2>8. \A j \in Intents : payment[j] # "none" /\ Keeping(CartOf[j]) => Spent(CartOf[j])'
    BY <2>5, <2>7
  <2>9. \A j \in Intents : Busy({"read", "keep"}, j) => Spent(CartOf[j])'
    BY <2>5, <2>6
  <2> QED BY <1>0, <2>3, <2>8, <2>9, ChancesKept
<1>8. ASSUME NEW w \in Workers,
             \/ ConfirmSeats(w) \/ ClaimRefund(w) \/ CreateRefund(w) \/ RecordRefund(w) \/ Complete(w)
             \/ \E e \in todo : Fetch(w, e)
      PROVE  Chances'
  <2>1. stage[w] \notin {"read", "keep"}
    BY <1>8 DEF ConfirmSeats, ClaimRefund, CreateRefund, RecordRefund, Complete, Fetch
  <2>2. UNCHANGED payment
    BY <1>8 DEF ConfirmSeats, ClaimRefund, CreateRefund, RecordRefund, Complete, Fetch, Throw, money
  <2> QED BY <1>3, <1>4, <2>1, <2>2
<1>9. ASSUME NEW i \in Intents, NEW s \in IntentStatus, StripeChange(i, s) PROVE Chances'
  BY <1>2, <1>9 DEF StripeChange, money
<1> QED BY <1>1, <1>2, <1>5, <1>6, <1>7, <1>8, <1>9
        DEF PaymentsNext, WorkerStep, GatewayError, Stop, money, allVars

-----------------------------------------------------------------------------
(* Payments that succeed, and those that process.                          *)

\* No failure takes the places of a cart from a payment that succeeded or
\* processes.
LEMMA PaidCartStays ==
    ASSUME OneWorker, TypeOK, PaymentsInv, QuotedCarts, Mirrored, Fetched, Chances, [PaymentsNext]_allVars,
           NEW i \in Intents, payment[i] \in {"succeeded", "processing"}
    PROVE  /\ Lost(CartOf[i]) => Lost(CartOf[i])'
           /\ status[CartOf[i]] = "completed" => status'[CartOf[i]] = "completed"
           /\ holdExpires'[CartOf[i]] = holdExpires[CartOf[i]]
<1>1. CartOf[i] \in Checkouts /\ Payable(CartOf[i])
  BY CartOfPayment
<1>2. ASSUME NEW w \in Workers, KeepSeats(w), CartFor(w) = CartOf[i] PROVE ~Keeps(CartOf[i])
  <2>1. stage[w] = "keep" /\ stage[w] # "idle" /\ stage[w] # "settle"
    BY <1>2 DEF KeepSeats
  <2>2. /\ IntentOf(w) \in Intents /\ CartOf[IntentOf(w)] = CartOf[i] /\ payment[IntentOf(w)] # "none"
        /\ seen[w] \in {"requires_payment_method", "canceled"} /\ seen[w] \in IntentStatus \ {"absent"}
        /\ payment[IntentOf(w)] = StoredStatus(seen[w])
    BY <1>2, <2>1, AtWorkOn, CartOfPayment DEF Fetched
  <2>3. IntentOf(w) # i
    BY <2>2, StatusStored
  <2>4. Spent(CartOf[i])
    BY <2>2, <2>3 DEF Chances
  <2> QED BY <2>4 DEF Keeps
<1>3. Rests(CartOf[i]) \/ Loses(CartOf[i]) \/ Confirms(CartOf[i])
  BY <1>1, <1>2, CartMoved
<1> QED BY <1>3 DEF Rests, Loses, Confirms, Lost, AllActive

\* A worker at another stage than those in S is busy there for no intent.
LEMMA NotBusy ==
    ASSUME OneWorker, NEW w \in Workers, NEW S, stage[w] \notin S
    PROVE  \A i : ~Busy(S, i)
  BY DEF OneWorker, Busy, At

LEMMA BusyFor ==
    ASSUME OneWorker, NEW w \in Workers, NEW S, NEW i, IntentOf(w) # i
    PROVE  ~Busy(S, i)
  BY DEF OneWorker, Busy, At

LEMMA BusyStays ==
    ASSUME NEW w \in Workers, NEW S, stage'[w] \in S, UNCHANGED job, NEW i, i = IntentOf(w)
    PROVE  Busy(S, i)'
  BY DEF Busy, At, IntentOf

\* A successful payment and its refund.
ResolvedFor(i) ==
    /\ payment[i] = "succeeded" =>
          \/ status[CartOf[i]] = "completed" \/ refundCalls[i] > 0
          \/ Busy({"read", "confirm", "claim", "refund"}, i)
    /\ i \in claimed => refundCalls[i] > 0 \/ Busy({"refund"}, i)

LEMMA ResolvedForAll ==
    ASSUME PaymentsInv
    PROVE  Resolved <=> \A i \in Intents : ResolvedFor(i)
  BY DEF Resolved, ResolvedFor, PaymentsInv, WorkerInv, PaymentsTypeOK

\* What an intent that nobody is handling keeps.
LEMMA ResolvedAside ==
    ASSUME PaymentsInv, NEW i \in Intents, ResolvedFor(i),
           ~Busy({"read", "confirm", "claim", "refund"}, i),
           payment'[i] = "succeeded" => payment[i] = "succeeded",
           payment[i] = "succeeded" /\ status[CartOf[i]] = "completed" => status'[CartOf[i]] = "completed",
           refundCalls'[i] = refundCalls[i], i \in claimed' => i \in claimed
    PROVE  ResolvedFor(i)'
<1>1. ~Busy({"refund"}, i)
  BY DEF Busy, At
<1> QED BY <1>1 DEF ResolvedFor

LEMMA ResolvedStep ==
    ASSUME OneWorker, TypeOK, PaymentsInv, QuotedCarts, Mirrored, Fetched, Chances, Resolved, ~Faults,
           [PaymentsNext]_allVars, NEW i \in Intents
    PROVE  ResolvedFor(i)'
<1>0. /\ ResolvedFor(i)
      /\ payment[i] = "succeeded" /\ status[CartOf[i]] = "completed" => status'[CartOf[i]] = "completed"
  BY ResolvedForAll, PaidCartStays
<1>1. ASSUME UNCHANGED <<worker, refunds>>, payment'[i] = "succeeded" => payment[i] = "succeeded"
      PROVE  ResolvedFor(i)'
  <2>1. \A S : Busy(S, i)' <=> Busy(S, i)
    BY <1>1 DEF Busy, At, IntentOf, worker
  <2> QED BY <1>0, <1>1, <2>1 DEF ResolvedFor, refunds
<1>2. CASE UNCHANGED <<worker, refunds, payment>>
  BY <1>1, <1>2
<1>3. ASSUME NEW j \in Intents, CreatePayment(j) PROVE ResolvedFor(i)'
  BY <1>1, <1>3 DEF CreatePayment, PaymentsInv, WorkerInv, PaymentsTypeOK
<1>4. ASSUME NEW w \in Workers, stage[w] \notin {"read", "confirm", "claim", "refund"},
             UNCHANGED <<payment, refunds>>
      PROVE  ResolvedFor(i)'
  BY <1>0, <1>4, NotBusy, ResolvedAside DEF refunds
<1>5. ASSUME NEW w \in Workers, Fetch(w, job'[w]) \/ KeepSeats(w) \/ Complete(w) PROVE ResolvedFor(i)'
  BY <1>4, <1>5 DEF Fetch, KeepSeats, Complete, Throw, money
<1>6. ASSUME NEW w \in Workers, RecordRefund(w) PROVE ResolvedFor(i)'
  <2>1. stage[w] = "record" /\ UNCHANGED <<money, claimed, refundCalls>>
    BY <1>6 DEF RecordRefund
  <2> QED BY <1>0, <2>1, NotBusy, ResolvedAside DEF money
<1>7. ASSUME NEW w \in Workers, stage[w] \notin {"idle", "settle"}
      PROVE  /\ payment[IntentOf(w)] = StoredStatus(seen[w]) /\ IntentOf(w) \in Intents
             /\ payment[IntentOf(w)] = "succeeded" <=> seen[w] = "succeeded"
  BY <1>7, AtWorkOn, StatusStored DEF Fetched
<1>8. ASSUME NEW w \in Workers, IntentOf(w) # i,
             \/ Settle(w) \/ Read(w) \/ ConfirmSeats(w) \/ ClaimRefund(w) \/ CreateRefund(w)
      PROVE  ResolvedFor(i)'
  <2>1. payment'[i] = payment[i] /\ refundCalls'[i] = refundCalls[i] /\ (i \in claimed' => i \in claimed)
    BY <1>8 DEF Settle, Read, ConfirmSeats, ClaimRefund, CreateRefund, Throw, money, refunds,
                PaymentsInv, WorkerInv, PaymentsTypeOK
  <2> QED BY <1>0, <1>8, <2>1, BusyFor, ResolvedAside
<1>9. ASSUME NEW w \in Workers, IntentOf(w) = i, Settle(w) PROVE ResolvedFor(i)'
  <2>1. stage[w] = "settle"
    BY <1>9 DEF Settle
  <2>2. CASE Throw(w)
    BY <1>4, <2>1, <2>2 DEF Throw, money
  <2>3. CASE ~Throw(w)
    <3>1. stage'[w] = "read" /\ UNCHANGED <<job, refunds>>
      BY <1>9, <2>3 DEF Settle, GoTo, PaymentsInv, WorkerInv, PaymentsTypeOK
    <3>2. Busy({"read", "confirm", "claim", "refund"}, i)'
      BY <1>9, <3>1, BusyStays
    <3>3. i \in claimed => refundCalls[i] > 0
      BY <1>0, <2>1, NotBusy DEF ResolvedFor
    <3> QED BY <3>1, <3>2, <3>3 DEF ResolvedFor, refunds
  <2> QED BY <2>2, <2>3
<1>10. ASSUME NEW w \in Workers, IntentOf(w) = i, Read(w) \/ ConfirmSeats(w), payment[i] = "succeeded"
       PROVE  \/ stage'[w] \in {"confirm", "claim"} /\ UNCHANGED job
              \/ status'[CartOf[i]] = "completed"
  <2>1. stage[w] \notin {"idle", "settle"}
    BY <1>10 DEF Read, ConfirmSeats
  <2>2. seen[w] = "succeeded" /\ payment[i] = StoredStatus(seen[w])
    BY <1>7, <1>10, <2>1
  <2>3. \A next : GoTo(w, next) => stage'[w] = next
    BY DEF GoTo, PaymentsInv, WorkerInv, PaymentsTypeOK
  <2>4. CASE Read(w)
    BY <1>10, <2>2, <2>3, <2>4 DEF Read
  <2>5. CASE ConfirmSeats(w)
    <3>1. CartFor(w) = CartOf[i] /\ CartOf[i] \in Checkouts
      BY <1>10, <2>1, AtWorkOn
    <3>2. ASSUME Confirm(CartFor(w), honor[w]) PROVE status'[CartOf[i]] = "completed"
      BY <3>1, <3>2, ConfirmOnCart DEF Confirms
    <3>3. ASSUME UNCHANGED seats, status[CartFor(w)] = "completed" PROVE status'[CartOf[i]] = "completed"
      BY <3>1, <3>3 DEF seats, checkout
    <3> QED BY <2>2, <2>3, <2>5, <3>2, <3>3 DEF ConfirmSeats
  <2> QED BY <1>10, <2>4, <2>5
<1>11. ASSUME NEW w \in Workers, IntentOf(w) = i, Read(w) \/ ConfirmSeats(w) PROVE ResolvedFor(i)'
  <2>1. UNCHANGED <<payment, refunds>> /\ stage[w] # "refund"
    BY <1>11 DEF Read, ConfirmSeats, Throw, money
  <2>2. i \in claimed => refundCalls[i] > 0
    BY <1>0, <2>1, NotBusy DEF ResolvedFor
  <2>3. payment[i] = "succeeded" =>
            status'[CartOf[i]] = "completed" \/ Busy({"read", "confirm", "claim", "refund"}, i)'
    BY <1>10, <1>11, BusyStays
  <2> QED BY <2>1, <2>2, <2>3 DEF ResolvedFor, refunds
<1>12. ASSUME NEW w \in Workers, IntentOf(w) = i, ClaimRefund(w) PROVE ResolvedFor(i)'
  <2>1. stage[w] = "claim"
    BY <1>12 DEF ClaimRefund
  <2>2. payment[i] = "succeeded"
    BY <1>7, <1>12, <2>1 DEF Fetched
  <2>3. /\ claimed' = claimed \cup {i} /\ UNCHANGED <<payment, job, refundCalls>>
        /\ stage'[w] = IF i \in claimed THEN "complete" ELSE "refund"
    BY <1>12, <2>2 DEF ClaimRefund, GoTo, money, PaymentsInv, WorkerInv, PaymentsTypeOK
  <2>4. i \in claimed => refundCalls[i] > 0
    BY <1>0, <2>1, NotBusy DEF ResolvedFor
  <2>5. i \notin claimed =>
            Busy({"refund"}, i)' /\ Busy({"read", "confirm", "claim", "refund"}, i)'
    BY <1>12, <2>3, BusyStays
  <2> QED BY <2>3, <2>4, <2>5 DEF ResolvedFor
<1>13. ASSUME NEW w \in Workers, IntentOf(w) = i, CreateRefund(w) PROVE ResolvedFor(i)'
  <2>1. refundCalls'[i] = refundCalls[i] + 1 /\ refundCalls[i] \in Nat
    BY <1>13 DEF CreateRefund, PaymentsInv, WorkerInv, PaymentsTypeOK
  <2> QED BY <2>1 DEF ResolvedFor
<1>14. ASSUME NEW j \in Intents, NEW s \in IntentStatus, StripeChange(j, s) PROVE ResolvedFor(i)'
  BY <1>2, <1>14 DEF StripeChange, money
<1>15. ASSUME NEW w \in Workers, NEW e \in todo, Fetch(w, e) PROVE ResolvedFor(i)'
  BY <1>4, <1>15 DEF Fetch, money
<1> QED BY <1>2, <1>3, <1>5, <1>6, <1>8, <1>9, <1>11, <1>12, <1>13, <1>14, <1>15
        DEF PaymentsNext, WorkerStep, GatewayError, Stop, money, allVars

-----------------------------------------------------------------------------
(* SeatedOrRefunded.                                                       *)

LEMMA OrderInitially ==
    ASSUME PaymentsInit
    PROVE  OrderInv
  BY TimeAssumption DEF PaymentsInit, Init, OrderInv, QuotedCarts, Payable, Mirrored, Fetched, Chances, Resolved

LEMMA OrderStep ==
    ASSUME OneWorker, ~Faults, TypeOK, PaymentsInv, OrderInv, [PaymentsNext]_allVars
    PROVE  OrderInv'
<1>1. QuotedCarts' /\ Mirrored' /\ Fetched' /\ Chances'
  BY QuotedCartsStep, MirroredStep, FetchedStep, ChancesStep DEF OrderInv
<1>2. PaymentsInv'
  BY PaymentsInvStep
<1>3. Resolved'
  <2>1. \A i \in Intents : ResolvedFor(i)'
    BY ResolvedStep DEF OrderInv
  <2>2. Resolved' <=> \A i \in Intents : ResolvedFor(i)'
    BY <1>2 DEF Resolved, ResolvedFor, PaymentsInv, WorkerInv, PaymentsTypeOK
  <2> QED BY <2>1, <2>2
<1> QED BY <1>1, <1>3 DEF OrderInv

\* A payment that succeeded, once the events of its cart are handled in order.
LEMMA ResolvedInOrder ==
    ASSUME OrderInv, NEW i \in Intents, payment[i] = "succeeded", HandledCart(CartOf[i])
    PROVE  status[CartOf[i]] = "completed" \/ refundCalls[i] > 0
<1>1. ~Busy({"read", "confirm", "claim", "refund"}, i)
  BY DEF Busy, At, HandledCart, Handled
<1> QED BY <1>1 DEF OrderInv, Resolved

-----------------------------------------------------------------------------
(* ProcessingKeepsPlace.                                                   *)

\* Without faults a worker reads what it has settled, so a bank payment that
\* processes goes to its confirmation.
LEMMA ReadProcessing ==
    ASSUME PaymentsInv, Fetched, ConfirmOnAch, NEW w \in Workers, Read(w), seen[w] = "processing"
    PROVE  stage'[w] = "confirm" /\ UNCHANGED <<seats, money, job, seen>>
<1>1. stage[w] = "read" /\ stage[w] # "idle" /\ stage[w] # "settle"
  BY DEF Read
<1>2. payment[IntentOf(w)] = StoredStatus(seen[w]) /\ IntentOf(w) \in AchIntents
  BY <1>1 DEF Fetched
<1> QED BY <1>2 DEF Read, GoTo, PaymentsInv, WorkerInv, PaymentsTypeOK

\* A cart in payment that has lost no place has them all.
LEMMA AllActiveUnlessLost ==
    ASSUME IInv, QuotedCarts, NEW c \in Checkouts, Payable(c), ~Lost(c), status[c] # "completed"
    PROVE  status[c] = "awaiting_payment" /\ AllActive(c)
<1>1. \A s \in Cart(c) : hold[c][s] \notin {"none", "released", "converted"} /\ s \in Subjects
  BY CartSubjects DEF QuotedCarts, Lost, IInv, ConfirmedTogether
<1> QED BY <1>1 DEF IInv, TypeOK, HoldStatus, AllActive, QuotedCarts

\* The confirmation of a bank payment that began in time succeeds, unless a
\* place is lost.
LEMMA ConfirmProcessing ==
    ASSUME IInv, PaymentsInv, QuotedCarts, Fetched, NEW w \in Workers, ConfirmSeats(w),
           seen[w] = "processing", InTime(IntentOf(w)), ~Lost(CartFor(w))
    PROVE  status'[CartFor(w)] = "completed" /\ ~Keeps(CartFor(w))
<1>1. stage[w] = "confirm" /\ stage[w] # "idle"
  BY DEF ConfirmSeats
<1>2. honor[w] /\ CartFor(w) \in Checkouts /\ Payable(CartFor(w))
  BY <1>1, AtWorkOn DEF Fetched
<1>3. CASE status[CartFor(w)] = "completed"
  <2>1. UNCHANGED seats
    BY <1>3 DEF ConfirmSeats
  <2> QED BY <1>3, <2>1 DEF seats, checkout, Keeps
<1>4. CASE status[CartFor(w)] # "completed"
  <2>1. Confirm(CartFor(w), honor[w])
    BY <1>2, <1>4, AllActiveUnlessLost DEF ConfirmSeats
  <2> QED BY <1>2, <2>1, ConfirmOnCart DEF Confirms, Keeps, IInv
<1> QED BY <1>3, <1>4

SeatedFor(i) ==
    (payment[i] = "processing" /\ InTime(i)) =>
        status[CartOf[i]] = "completed" \/ Lost(CartOf[i]) \/ Busy({"read", "confirm"}, i)

LEMMA SeatedAside ==
    ASSUME OneWorker, IInv, PaymentsInv, OrderInv, [PaymentsNext]_allVars, NEW i \in Intents,
           SeatedFor(i), payment'[i] = "processing" => payment[i] = "processing",
           processingAt'[i] = processingAt[i],
           payment[i] = "processing" /\ InTime(i) /\ Busy({"read", "confirm"}, i) =>
              Busy({"read", "confirm"}, i)' \/ status'[CartOf[i]] = "completed" \/ Lost(CartOf[i])
    PROVE  SeatedFor(i)'
<1> SUFFICES ASSUME payment'[i] = "processing", InTime(i)'
             PROVE  (status[CartOf[i]] = "completed" \/ Lost(CartOf[i]) \/ Busy({"read", "confirm"}, i))'
  BY DEF SeatedFor
<1>1. payment[i] = "processing"
  OBVIOUS
<1>2. /\ Lost(CartOf[i]) => Lost(CartOf[i])'
      /\ status[CartOf[i]] = "completed" => status'[CartOf[i]] = "completed"
      /\ holdExpires'[CartOf[i]] = holdExpires[CartOf[i]]
  BY <1>1, PaidCartStays DEF IInv, OrderInv
<1>3. InTime(i)
  BY <1>2 DEF InTime
<1> QED BY <1>1, <1>2, <1>3 DEF SeatedFor

LEMMA SeatedStep ==
    ASSUME OneWorker, ~Faults, ConfirmOnAch, IInv, PaymentsInv, OrderInv, Seated,
           [PaymentsNext]_allVars, NEW i \in Intents
    PROVE  SeatedFor(i)'
<1>0. SeatedFor(i)
  BY DEF Seated, SeatedFor
<1>1. ASSUME UNCHANGED <<money, worker>> PROVE SeatedFor(i)'
  <2>1. Busy({"read", "confirm"}, i)' <=> Busy({"read", "confirm"}, i)
    BY <1>1 DEF Busy, At, IntentOf, worker
  <2> QED BY <1>0, <1>1, <2>1, SeatedAside DEF money
<1>2. ASSUME NEW j \in Intents, CreatePayment(j) PROVE SeatedFor(i)'
  <2>1. Busy({"read", "confirm"}, i)' <=> Busy({"read", "confirm"}, i)
    BY <1>2 DEF CreatePayment, Busy, At, IntentOf, worker
  <2>2. (payment'[i] = "processing" => payment[i] = "processing") /\ processingAt' = processingAt
    BY <1>2 DEF CreatePayment, PaymentsInv, WorkerInv, PaymentsTypeOK
  <2> QED BY <1>0, <2>1, <2>2, SeatedAside
<1>3. ASSUME NEW w \in Workers, stage[w] \notin {"read", "confirm"},
             UNCHANGED <<payment, processingAt>>
      PROVE  SeatedFor(i)'
  BY <1>0, <1>3, NotBusy, SeatedAside
<1>4. ASSUME NEW w \in Workers, IntentOf(w) # i, WorkerStep(w) PROVE SeatedFor(i)'
  <2>1. payment'[i] = payment[i] /\ processingAt'[i] = processingAt[i]
    BY <1>4 DEF WorkerStep, Settle, Read, ConfirmSeats, KeepSeats, ClaimRefund, CreateRefund,
                RecordRefund, Complete, Throw, money, PaymentsInv, WorkerInv, PaymentsTypeOK
  <2> QED BY <1>0, <1>4, <2>1, BusyFor, SeatedAside
<1>5. ASSUME NEW w \in Workers, IntentOf(w) = i, Settle(w) PROVE SeatedFor(i)'
  <2>1. stage[w] = "settle"
    BY <1>5 DEF Settle
  <2>2. CASE Throw(w)
    BY <1>3, <2>1, <2>2 DEF Throw, money
  <2>3. CASE ~Throw(w)
    <3>1. stage'[w] = "read" /\ UNCHANGED job
      BY <1>5, <2>3 DEF Settle, GoTo, PaymentsInv, WorkerInv, PaymentsTypeOK
    <3> QED BY <1>5, <3>1, BusyStays DEF SeatedFor
  <2> QED BY <2>2, <2>3
<1>6. ASSUME NEW w \in Workers, IntentOf(w) = i, Read(w) \/ ConfirmSeats(w),
             payment[i] = "processing", InTime(i), ~Lost(CartOf[i])
      PROVE  Busy({"read", "confirm"}, i)' \/ status'[CartOf[i]] = "completed"
  <2>1. stage[w] \notin {"idle", "settle"}
    BY <1>6 DEF Read, ConfirmSeats
  <2>2. payment[i] = StoredStatus(seen[w]) /\ seen[w] \in IntentStatus \ {"absent"} /\ CartFor(w) = CartOf[i]
    BY <1>6, <2>1, AtWorkOn DEF Fetched, OrderInv
  <2>3. seen[w] = "processing"
    BY <1>6, <2>2, StatusStored
  <2>4. CASE Read(w)
    BY <1>6, <2>3, <2>4, ReadProcessing, BusyStays DEF OrderInv
  <2>5. CASE ConfirmSeats(w)
    BY <1>6, <2>2, <2>3, <2>5, ConfirmProcessing DEF OrderInv
  <2> QED BY <1>6, <2>4, <2>5
<1>7. ASSUME NEW w \in Workers, IntentOf(w) = i, Read(w) \/ ConfirmSeats(w) PROVE SeatedFor(i)'
  <2>1. UNCHANGED money
    BY <1>7 DEF Read, ConfirmSeats, Throw
  <2> QED BY <1>0, <1>6, <1>7, <2>1, SeatedAside DEF money
<1>8. ASSUME NEW w \in Workers, NEW e \in todo, Fetch(w, e) PROVE SeatedFor(i)'
  BY <1>3, <1>8 DEF Fetch, money
<1>9. ASSUME NEW w \in Workers, WorkerStep(w), ~Settle(w), ~Read(w), ~ConfirmSeats(w)
      PROVE  SeatedFor(i)'
  BY <1>3, <1>9 DEF WorkerStep, KeepSeats, ClaimRefund, CreateRefund, RecordRefund, Complete, Throw, money
<1>10. ASSUME NEW j \in Intents, NEW s \in IntentStatus, StripeChange(j, s) PROVE SeatedFor(i)'
  BY <1>1, <1>10 DEF StripeChange
<1> QED BY <1>1, <1>2, <1>4, <1>5, <1>7, <1>8, <1>9, <1>10
        DEF PaymentsNext, GatewayError, Stop, allVars

\* The worker that is about to confirm intent i, and settled it just now.
Confirming(i) ==
    /\ processingAt[i] = now
    /\ \E w \in Workers : At(w, {"read", "confirm"}, i) /\ seen[w] = "processing"

OnTimeFor(i) ==
    (InTime(i) /\ ~failedOnce[CartOf[i]]) =>
        ~Lost(CartOf[i]) /\ (status[CartOf[i]] = "completed" \/ Confirming(i))

\* A completed cart has lost no place, and a cart in payment only a day after
\* its deadline.
LEMMA LostIsLate ==
    ASSUME IInv, QuotedCarts, NEW c \in Checkouts, Payable(c), Lost(c)
    PROVE  status[c] = "awaiting_payment" /\ now >= holdExpires[c] + Grace
<1>1. \A s \in Cart(c) : status[c] = "completed" => hold[c][s] = "converted"
  BY DEF IInv, ConfirmedTogether
<1>2. status[c] = "awaiting_payment"
  BY <1>1 DEF QuotedCarts, Lost
<1>3. ~(now < holdExpires[c] + Grace)
  BY <1>2 DEF IInv, InFlightKeepsPlace, Lost
<1>4. now \in Nat /\ holdExpires[c] \in Nat
  BY DEF IInv, TypeOK
<1> QED BY <1>2, <1>3, <1>4, TimeAssumption

\* What becomes of an intent whose own row does not change.
LEMMA OnTimeAside ==
    ASSUME IInv, PaymentsInv, OrderInv, Grace > 0, [PaymentsNext]_allVars,
           NEW i \in Intents, OnTimeFor(i), processingAt'[i] = processingAt[i],
           InTime(i) /\ Confirming(i) => Confirming(i)' \/ status'[CartOf[i]] = "completed"
    PROVE  OnTimeFor(i)'
<1> SUFFICES ASSUME InTime(i)', ~failedOnce'[CartOf[i]]
             PROVE  (~Lost(CartOf[i]) /\ (status[CartOf[i]] = "completed" \/ Confirming(i)))'
  BY DEF OnTimeFor
<1>1. processingAt[i] # NoTime
  BY DEF InTime
<1>2. CartOf[i] \in Checkouts /\ Payable(CartOf[i])
  BY <1>1, CartOfPayment DEF OrderInv
<1>3. Rests(CartOf[i]) \/ Loses(CartOf[i]) \/ Confirms(CartOf[i])
  BY <1>2, CartMoved DEF Keeps, IInv, OrderInv
<1>4. holdExpires'[CartOf[i]] = holdExpires[CartOf[i]] /\ failedOnce'[CartOf[i]] = failedOnce[CartOf[i]]
  BY <1>3 DEF Rests, Loses, Confirms
<1>5. InTime(i) /\ ~failedOnce[CartOf[i]]
  BY <1>4 DEF InTime
<1>6. ~Lost(CartOf[i]) /\ (status[CartOf[i]] = "completed" \/ Confirming(i))
  BY <1>5 DEF OnTimeFor
<1>7. ~Loses(CartOf[i])
  <2>1. now \in Nat /\ holdExpires[CartOf[i]] \in Nat /\ processingAt[i] \in Nat /\ Grace \in Nat
    BY <1>1, <1>2, TimeAssumption DEF IInv, TypeOK, PaymentsInv, WorkerInv, PaymentsTypeOK
  <2>2. Confirming(i) => now <= holdExpires[CartOf[i]]
    BY <1>5 DEF Confirming, InTime
  <2>3. Confirming(i) => ~(holdExpires[CartOf[i]] + Grace <= now)
    BY <2>1, <2>2
  <2> QED BY <1>6, <2>3 DEF Loses
<1>8. CASE Confirms(CartOf[i])
  BY <1>8 DEF Confirms, Lost
<1>9. CASE Rests(CartOf[i])
  BY <1>5, <1>6, <1>9 DEF Rests, Lost
<1> QED BY <1>3, <1>7, <1>8, <1>9

LEMMA OnTimeStep ==
    ASSUME OneWorker, ~Faults, Prompt, ConfirmOnAch, Grace > 0,
           IInv, PaymentsInv, OrderInv, OnTime, [PaymentsNext]_allVars, NEW i \in Intents
    PROVE  OnTimeFor(i)'
<1>0. OnTimeFor(i)
  BY DEF OnTime, OnTimeFor, Confirming
<1>1. ASSUME UNCHANGED <<now, processingAt, worker>> PROVE OnTimeFor(i)'
  <2>1. Confirming(i)' <=> Confirming(i)
    BY <1>1 DEF Confirming, At, IntentOf, worker
  <2> QED BY <1>0, <1>1, <2>1, OnTimeAside
<1>2. ASSUME NEW w \in Workers, stage[w] \notin {"read", "confirm"}, processingAt'[i] = processingAt[i]
      PROVE  OnTimeFor(i)'
  <2>1. ~Confirming(i)
    BY <1>2 DEF OneWorker, Confirming, At
  <2> QED BY <1>0, <1>2, <2>1, OnTimeAside
<1>3. CASE Tick /\ QueueKeepsUp /\ UNCHANGED <<stripe, money, queue, worker, refunds>>
  <2>1. ~Confirming(i)
    BY <1>3 DEF QueueKeepsUp, Confirming, At
  <2> QED BY <1>0, <1>3, <2>1, OnTimeAside DEF money
<1>4. ASSUME NEW w \in Workers, IntentOf(w) # i, WorkerStep(w) PROVE OnTimeFor(i)'
  <2>1. processingAt'[i] = processingAt[i]
    BY <1>4 DEF WorkerStep, Settle, Read, ConfirmSeats, KeepSeats, ClaimRefund, CreateRefund,
                RecordRefund, Complete, Throw, money, PaymentsInv, WorkerInv, PaymentsTypeOK
  <2>2. ~Confirming(i)
    BY <1>4 DEF OneWorker, Confirming, At
  <2> QED BY <1>0, <2>1, <2>2, OnTimeAside
<1>5. ASSUME NEW w \in Workers, IntentOf(w) = i, Settle(w) PROVE OnTimeFor(i)'
  <2>1. stage[w] = "settle" /\ stage[w] # "idle"
    BY <1>5 DEF Settle
  <2>2. CASE processingAt'[i] = processingAt[i]
    BY <1>2, <2>1, <2>2
  <2>3. CASE processingAt'[i] # processingAt[i]
    <3>1. /\ StoredStatus(seen[w]) = "processing" /\ processingAt'[i] = now
          /\ UNCHANGED <<seats, job, seen>> /\ stage'[w] = "read"
      BY <1>5, <2>3 DEF Settle, Throw, GoTo, money, PaymentsInv, WorkerInv, PaymentsTypeOK
    <3>2. seen[w] = "processing" /\ CartOf[i] \in Checkouts /\ Payable(CartOf[i])
      BY <1>5, <2>1, <3>1, AtWorkOn, StatusStored
    <3>3. Confirming(i)'
      BY <1>5, <3>1, <3>2 DEF Confirming, At, IntentOf, seats
    <3>4. InTime(i)' => now <= holdExpires[CartOf[i]]
      BY <3>1 DEF InTime, seats
    <3>5. now <= holdExpires[CartOf[i]] => ~Lost(CartOf[i])
      <4>1. now \in Nat /\ holdExpires[CartOf[i]] \in Nat /\ Grace \in Nat
        BY <3>2, TimeAssumption DEF IInv, TypeOK
      <4>2. Lost(CartOf[i]) => now >= holdExpires[CartOf[i]] + Grace
        BY <3>2, LostIsLate DEF OrderInv
      <4> QED BY <4>1, <4>2
    <3>6. Lost(CartOf[i])' <=> Lost(CartOf[i])
      BY <3>1 DEF Lost, seats
    <3> QED BY <3>3, <3>4, <3>5, <3>6 DEF OnTimeFor
  <2> QED BY <2>2, <2>3
<1>6. ASSUME NEW w \in Workers, IntentOf(w) = i, Read(w) \/ ConfirmSeats(w),
             InTime(i), Confirming(i), ~failedOnce[CartOf[i]]
      PROVE  Confirming(i)' \/ status'[CartOf[i]] = "completed"
  <2>1. seen[w] = "processing" /\ ~Lost(CartOf[i]) /\ CartFor(w) = CartOf[i]
    BY <1>0, <1>6 DEF OneWorker, Confirming, OnTimeFor, CartFor
  <2>2. CASE Read(w)
    BY <1>6, <2>1, <2>2, ReadProcessing DEF OrderInv, Confirming, At, IntentOf, seats, money
  <2>3. CASE ConfirmSeats(w)
    BY <1>6, <2>1, <2>3, ConfirmProcessing DEF OrderInv
  <2> QED BY <1>6, <2>2, <2>3
<1>7. ASSUME NEW w \in Workers, IntentOf(w) = i, Read(w) \/ ConfirmSeats(w) PROVE OnTimeFor(i)'
  <2>1. processingAt' = processingAt
    BY <1>7 DEF Read, ConfirmSeats, Throw, money
  <2>2. CASE ~failedOnce[CartOf[i]]
    BY <1>0, <1>6, <1>7, <2>1, <2>2, OnTimeAside
  <2>3. CASE failedOnce[CartOf[i]] /\ processingAt[i] # NoTime
    <3>1. failedOnce'[CartOf[i]]
      BY <2>3, CartMoved, CartOfPayment DEF OrderInv, IInv, Rests, Loses, Confirms, Keeps
    <3> QED BY <3>1 DEF OnTimeFor
  <2>4. CASE processingAt[i] = NoTime
    BY <2>1, <2>4 DEF OnTimeFor, InTime
  <2> QED BY <2>2, <2>3, <2>4
<1>8. ASSUME NEW w \in Workers, WorkerStep(w), ~Settle(w), ~Read(w), ~ConfirmSeats(w)
      PROVE  OnTimeFor(i)'
  <2>1. stage[w] \notin {"read", "confirm"} /\ UNCHANGED processingAt
    BY <1>8 DEF WorkerStep, KeepSeats, ClaimRefund, CreateRefund, RecordRefund, Complete, Throw, money
  <2> QED BY <1>2, <2>1
<1>9. ASSUME NEW w \in Workers, NEW e \in todo, Fetch(w, e) PROVE OnTimeFor(i)'
  BY <1>2, <1>9 DEF Fetch, money
<1>10. ASSUME NEW j \in Intents,
              CreatePayment(j) \/ \E s \in IntentStatus : StripeChange(j, s)
       PROVE  OnTimeFor(i)'
  BY <1>1, <1>10 DEF CreatePayment, StripeChange, money, seats
<1>11. ASSUME SeatChange, UNCHANGED <<stripe, money, queue, worker, refunds>>, ~Tick
       PROVE  OnTimeFor(i)'
  <2>1. UNCHANGED now
    BY <1>11 DEF SeatChange, StartCheckout, Reserve, Freeze, QuotePaid, ReleaseExpiredHolds
  <2> QED BY <1>1, <1>11, <2>1 DEF money
<1>12. CASE UNCHANGED allVars
  BY <1>1, <1>12 DEF allVars, seats, money
<1>13. ASSUME SeatChange, Tick PROVE QueueKeepsUp
  BY <1>13 DEF SeatChange, Tick, StartCheckout, Reserve, Freeze, QuotePaid, ReleaseExpiredHolds,
               IInv, TypeOK
<1> QED BY <1>3, <1>4, <1>5, <1>7, <1>8, <1>9, <1>10, <1>11, <1>12, <1>13
        DEF PaymentsNext, GatewayError, Stop

SeatedInv == OrderInv /\ Seated /\ OnTime

LEMMA SeatedInitially ==
    ASSUME PaymentsInit
    PROVE  SeatedInv
  BY OrderInitially DEF PaymentsInit, SeatedInv, Seated, OnTime, InTime

LEMMA SeatedInvStep ==
    ASSUME OneWorker, ~Faults, Prompt, ConfirmOnAch, Grace > 0,
           IInv, PaymentsInv, SeatedInv, [PaymentsNext]_allVars
    PROVE  SeatedInv'
<1>1. OrderInv'
  BY OrderStep DEF SeatedInv, IInv
<1>2. Seated'
  <2>1. \A i \in Intents : SeatedFor(i)'
    BY SeatedStep DEF SeatedInv
  <2> QED BY <2>1 DEF Seated, SeatedFor
<1>3. OnTime'
  <2>1. \A i \in Intents : OnTimeFor(i)'
    BY OnTimeStep DEF SeatedInv
  <2> QED BY <2>1 DEF OnTime, OnTimeFor, Confirming
<1> QED BY <1>1, <1>2, <1>3 DEF SeatedInv

\* A bank payment that processes, once its events are handled in order.
LEMMA SeatedInOrder ==
    ASSUME SeatedInv, NEW i \in Intents, intent[i] = "processing", InTime(i), Handled(i)
    PROVE  status[CartOf[i]] = "completed" \/ (failedOnce[CartOf[i]] /\ Lost(CartOf[i]))
<1>1. changes[i] > 0 /\ ~(<<i, changes[i]>> \in todo)
  BY DEF SeatedInv, OrderInv, Mirrored, Handled
<1>2. payment[i] = "processing"
  BY <1>1 DEF SeatedInv, OrderInv, Mirrored, StoredStatus
<1>3. ~Busy({"read", "confirm"}, i)
  BY DEF Busy, At, Handled
<1>4. status[CartOf[i]] = "completed" \/ Lost(CartOf[i])
  BY <1>2, <1>3 DEF SeatedInv, Seated
<1>5. Lost(CartOf[i]) => failedOnce[CartOf[i]]
  BY DEF SeatedInv, OnTime
<1> QED BY <1>4, <1>5

-----------------------------------------------------------------------------
(* Events handled in any order, by any workers, with faults.               *)

\* What the rows and intents say of each other whoever handles the events.
Rows ==
    /\ \A i \in Intents :
          /\ (payment[i] = "none") <=> (intent[i] = "absent")
          /\ processingAt[i] # NoTime => intent[i] # "absent"
          /\ i \in AchIntents => intent[i] # "requires_action"
          /\ i \notin AchIntents => intent[i] # "processing"
          /\ payment[i] = "succeeded" => intent[i] = "succeeded"
    /\ \A e \in todo : e[2] <= changes[e[1]]

\* What a busy worker has fetched may be out of date, unless it is the final
\* success; what it acts upon has been settled at some time.
ActedBy(w) ==
    LET i == IntentOf(w) IN
    /\ seen[w] = "succeeded" => intent[i] = "succeeded"
    /\ i \in AchIntents => seen[w] # "requires_action"
    /\ i \notin AchIntents => seen[w] # "processing"
    /\ stage[w] = "confirm" => seen[w] \in {"succeeded", "processing"}
    /\ (stage[w] # "settle" /\ seen[w] = "succeeded") => payment[i] = "succeeded"
    /\ (stage[w] # "settle" /\ seen[w] = "processing") =>
          payment[i] \notin {"none", "requires_action"} /\ processingAt[i] # NoTime
    /\ (stage[w] = "confirm" /\ seen[w] = "processing" /\ InTime(i) /\ ~failedOnce[CartOf[i]])
          => honor[w]

Acted == \A w \in Workers : stage[w] # "idle" => ActedBy(w)

\* An event of intent i waits to be handled, or its worker is at one of the
\* stages S, having fetched one of the statuses T.
Pending(i, S, T) ==
    \E e \in todo :
        /\ e[1] = i
        /\ \A w \in Workers :
              (stage[w] # "idle" /\ job[w] = e) => stage[w] \in S /\ seen[w] \in T

SuccessStages == {"settle", "read", "confirm", "claim"}
FailureStages == {"settle", "read", "keep"}
ProcessingStages == {"settle", "read", "confirm"}

\* A payment that succeeded is seated, claimed, undone, or still has the event
\* that settled it.
SuccessFor(i) ==
    payment[i] = "succeeded" =>
        \/ status[CartOf[i]] = "completed" \/ i \in claimed \/ i \in undone
        \/ Pending(i, SuccessStages, {"succeeded"})

\* A claim leads to its refund unless a fault comes between.
ClaimFor(i) == i \in claimed => Faults \/ refundCalls[i] > 0 \/ Busy({"refund"}, i)

\* A payment that failed has had its cart's 72 hours, or still has the event
\* that settled it.
FailureFor(i) ==
    payment[i] \in {"failed", "canceled"} =>
        failedOnce[CartOf[i]] \/ Pending(i, FailureStages, IntentStatus)

\* A completed cart was paid for, or its bank payment processed once.
PaidFor(c) ==
    status[c] = "completed" =>
        \E i \in Intents :
            /\ CartOf[i] = c
            /\ \/ payment[i] = "succeeded"
               \/ i \in AchIntents /\ payment[i] \notin {"none", "requires_action"}

\* A bank payment that processes has its seat, has failed or lost a place
\* before, began too late, or still has an event to be handled.
ProcessingFor(i) ==
    (ConfirmOnAch /\ intent[i] = "processing") =>
        \/ status[CartOf[i]] = "completed" \/ failedOnce[CartOf[i]] \/ Lost(CartOf[i])
        \/ processingAt[i] # NoTime /\ ~InTime(i)
        \/ Pending(i, ProcessingStages, {"processing"})

\* The state in which events are handled in any order, with faults.
AnyInv ==
    /\ QuotedCarts /\ Rows /\ Acted
    /\ \A i \in Intents : SuccessFor(i) /\ ClaimFor(i) /\ FailureFor(i) /\ ProcessingFor(i)
    /\ \A c \in Checkouts : PaidFor(c)

\* The cart of a payment row is a cart in payment.
LEMMA CartOfRow ==
    ASSUME PaymentsInv, Rows, NEW i \in Intents,
           payment[i] # "none" \/ intent[i] # "absent" \/ processingAt[i] # NoTime
    PROVE  CartOf[i] \in Checkouts /\ Payable(CartOf[i]) /\ intent[i] # "absent" /\ payment[i] # "none"
  BY PaymentAssumption DEF PaymentsInv, PaysForQuotedCart, Rows

\* The shapes of a worker's step: it drops its event, goes on with it, or is
\* done with it.
Drops(w) == Forget(w) /\ UNCHANGED <<seats, stripe, money, todo, refunds>>
GoesOn(w) == stage[w] # "idle" /\ stage'[w] # "idle" /\ GoTo(w, stage'[w])
             /\ UNCHANGED <<stripe, queue, job, seen>>

LEMMA WorkerShapes ==
    ASSUME PaymentsInv, NEW w \in Workers, WorkerStep(w) \/ GatewayError(w) \/ Stop(w)
    PROVE  \/ Drops(w) /\ stage[w] # "idle"
           \/ GoesOn(w)
           \/ Complete(w)
<1>1. \A next : GoTo(w, next) => stage'[w] = next
  BY DEF GoTo, PaymentsInv, WorkerInv, PaymentsTypeOK
<1>2. CASE Throw(w) \/ Stop(w)
  <2>1. stage[w] # "idle"
    BY DEF WorkerStep, GatewayError, Stop, Settle, Read, ConfirmSeats, KeepSeats, ClaimRefund,
           CreateRefund, RecordRefund, Complete
  <2> QED BY <1>2, <2>1 DEF Throw, Stop, Drops, queue
<1>3. CASE Settle(w) /\ ~Throw(w)
  BY <1>1, <1>3 DEF Settle, GoesOn
<1>4. CASE Read(w) /\ ~Throw(w)
  BY <1>1, <1>4 DEF Read, GoesOn
<1>5. CASE ConfirmSeats(w)
  BY <1>1, <1>5 DEF ConfirmSeats, GoesOn
<1>6. CASE KeepSeats(w) /\ ~Throw(w)
  BY <1>1, <1>6 DEF KeepSeats, GoesOn
<1>7. CASE ClaimRefund(w) /\ ~Throw(w)
  BY <1>1, <1>7 DEF ClaimRefund, GoesOn
<1>8. CASE CreateRefund(w) \/ RecordRefund(w)
  BY <1>1, <1>8 DEF CreateRefund, RecordRefund, GoesOn
<1> QED BY <1>2, <1>3, <1>4, <1>5, <1>6, <1>7, <1>8 DEF WorkerStep, GatewayError

\* A step that is nobody's.
Nobodys ==
    \/ \E j \in Intents : CreatePayment(j)
    \/ \E j \in Intents, s \in IntentStatus : StripeChange(j, s)
    \/ SeatChange /\ UNCHANGED <<stripe, money, queue, worker, refunds>>
    \/ UNCHANGED allVars

LEMMA AnySteps ==
    ASSUME PaymentsNext \/ UNCHANGED allVars
    PROVE  \/ Nobodys
           \/ \E w \in Workers, e \in todo : Fetch(w, e)
           \/ \E w \in Workers : WorkerStep(w) \/ GatewayError(w) \/ Stop(w)
  BY DEF PaymentsNext, Nobodys

-----------------------------------------------------------------------------
(* Events that wait.                                                       *)

\* A step of nobody's leaves an event waiting.
LEMMA PendingAside ==
    ASSUME NEW i, NEW S, NEW T, Pending(i, S, T), UNCHANGED worker, todo \subseteq todo'
    PROVE  Pending(i, S, T)'
  BY DEF Pending, worker

\* So does a worker that fetches an event: of intent i it sees what is.
LEMMA PendingFetched ==
    ASSUME PaymentsInv, NEW i, NEW S, NEW T, Pending(i, S, T), NEW w \in Workers, NEW e \in todo,
           Fetch(w, e), "settle" \in S, intent[i] \in T
    PROVE  Pending(i, S, T)'
<1>1. /\ todo' = todo
      /\ job' = [job EXCEPT ![w] = e] /\ seen' = [seen EXCEPT ![w] = intent[e[1]]]
      /\ stage' = [stage EXCEPT ![w] = "settle"]
  BY DEF Fetch, GoTo, queue
<1>2. PICK d \in todo :
        /\ d[1] = i
        /\ \A v \in Workers : (stage[v] # "idle" /\ job[v] = d) => stage[v] \in S /\ seen[v] \in T
  BY DEF Pending
<1>3. \A v \in Workers : (stage'[v] # "idle" /\ job'[v] = d) => stage'[v] \in S /\ seen'[v] \in T
  BY <1>1, <1>2 DEF PaymentsInv, WorkerInv, PaymentsTypeOK
<1> QED BY <1>1, <1>2, <1>3 DEF Pending

\* A worker that drops or completes an event leaves the others, and one that
\* is past the stages S is done with another event.
LEMMA PendingForgotten ==
    ASSUME PaymentsInv, NEW i, NEW S, NEW T, Pending(i, S, T), NEW w \in Workers, stage[w] # "idle",
           Forget(w), todo' = todo \/ (todo' = todo \ {job[w]} /\ stage[w] \notin S)
    PROVE  Pending(i, S, T)'
<1>1. /\ job' = [job EXCEPT ![w] = Nobody] /\ seen' = [seen EXCEPT ![w] = "absent"]
      /\ stage' = [stage EXCEPT ![w] = "idle"]
  BY DEF Forget, GoTo
<1>2. PICK d \in todo :
        /\ d[1] = i
        /\ \A v \in Workers : (stage[v] # "idle" /\ job[v] = d) => stage[v] \in S /\ seen[v] \in T
  BY DEF Pending
<1>3. \A v \in Workers : (stage'[v] # "idle" /\ job'[v] = d) => stage'[v] \in S /\ seen'[v] \in T
  BY <1>1, <1>2 DEF PaymentsInv, WorkerInv, PaymentsTypeOK
<1>4. d \in todo'
  BY <1>2
<1> QED BY <1>2, <1>3, <1>4 DEF Pending

\* A worker that goes on keeps the event it has within S, or has another one.
LEMMA PendingGoesOn ==
    ASSUME PaymentsInv, NEW i, NEW S, NEW T, Pending(i, S, T), NEW w \in Workers, GoesOn(w),
           \/ stage'[w] \in S
           \/ ~(stage[w] \in S /\ seen[w] \in T /\ IntentOf(w) = i)
    PROVE  Pending(i, S, T)'
<1>1. /\ todo' = todo /\ job' = job /\ seen' = seen /\ stage[w] # "idle"
      /\ \A v \in Workers : v # w => stage'[v] = stage[v]
  BY DEF GoesOn, GoTo, queue, PaymentsInv, WorkerInv, PaymentsTypeOK
<1>2. PICK d \in todo :
        /\ d[1] = i
        /\ \A v \in Workers : (stage[v] # "idle" /\ job[v] = d) => stage[v] \in S /\ seen[v] \in T
  BY DEF Pending
<1>3. job[w] = d => IntentOf(w) = i
  BY <1>2 DEF IntentOf
<1>4. \A v \in Workers : (stage'[v] # "idle" /\ job'[v] = d) => stage'[v] \in S /\ seen'[v] \in T
  BY <1>1, <1>2, <1>3
<1> QED BY <1>1, <1>2, <1>4 DEF Pending

\* The event of a worker at one of the stages S waits for that worker only.
LEMMA PendingOwn ==
    ASSUME PaymentsInv, NEW w \in Workers, GoesOn(w), NEW S, NEW T, stage'[w] \in S, seen[w] \in T,
           NEW i, i = IntentOf(w)
    PROVE  Pending(i, S, T)'
<1>1. /\ todo' = todo /\ job' = job /\ seen' = seen /\ stage[w] # "idle"
      /\ \A v \in Workers : v # w => stage'[v] = stage[v]
  BY DEF GoesOn, GoTo, queue, PaymentsInv, WorkerInv, PaymentsTypeOK
<1>2. job[w] \in todo /\ \A v \in Workers : v # w /\ stage[v] # "idle" => job[v] # job[w]
  BY <1>1 DEF PaymentsInv, WorkerInv, OwnEvent
<1>3. job[w][1] = i
  BY DEF IntentOf
<1> QED BY <1>1, <1>2, <1>3 DEF Pending

-----------------------------------------------------------------------------
(* Rows and workers.                                                       *)

LEMMA RowsStep ==
    ASSUME PaymentsInv, Rows, Acted, [PaymentsNext]_allVars
    PROVE  Rows'
<1> USE DEF PaymentsInv, WorkerInv, PaymentsTypeOK
<1>1. ASSUME NEW i \in Intents, CreatePayment(i) PROVE Rows'
  BY <1>1 DEF CreatePayment, Rows, queue
<1>2. ASSUME NEW i \in Intents, NEW s \in IntentStatus, StripeChange(i, s) PROVE Rows'
  <2>1. /\ intent[i] \notin {"absent", "succeeded"} /\ s # "absent"
        /\ i \in AchIntents => s # "requires_action"
        /\ i \notin AchIntents => s # "processing"
    BY <1>2 DEF StripeChange, StripeMoves
  <2>2. /\ intent' = [intent EXCEPT ![i] = s] /\ changes' = [changes EXCEPT ![i] = @ + 1]
        /\ todo' = todo \cup {<<i, changes'[i]>>} /\ UNCHANGED money
    BY <1>2 DEF StripeChange
  <2>3. \A e \in todo' : e[2] <= changes'[e[1]]
    <3>1. \A e \in todo : e[2] \in Nat /\ e[1] \in Intents /\ e[2] <= changes[e[1]]
      BY DEF Rows, Event
    <3>2. \A j \in Intents : changes[j] \in Nat /\ changes'[j] \in Nat /\ changes[j] <= changes'[j]
      BY <2>2
    <3>3. ASSUME NEW e \in todo PROVE e[2] <= changes'[e[1]]
      <4>1. e[2] \in Nat /\ changes[e[1]] \in Nat /\ changes'[e[1]] \in Nat
            /\ e[2] <= changes[e[1]] /\ changes[e[1]] <= changes'[e[1]]
        BY <3>1, <3>2
      <4> QED BY <4>1
    <3>4. <<i, changes'[i]>>[2] <= changes'[<<i, changes'[i]>>[1]]
      BY <3>2
    <3> QED BY <2>2, <3>3, <3>4
  <2>4. \A j \in Intents :
          /\ (payment'[j] = "none") <=> (intent'[j] = "absent")
          /\ processingAt'[j] # NoTime => intent'[j] # "absent"
          /\ j \in AchIntents => intent'[j] # "requires_action"
          /\ j \notin AchIntents => intent'[j] # "processing"
          /\ payment'[j] = "succeeded" => intent'[j] = "succeeded"
    BY <2>1, <2>2 DEF Rows, money
  <2> QED BY <2>3, <2>4 DEF Rows
<1>3. ASSUME NEW w \in Workers, Settle(w), ~Throw(w) PROVE Rows'
  <2>1. stage[w] # "idle"
    BY <1>3 DEF Settle
  <2>2. /\ payment' = [payment EXCEPT ![IntentOf(w)] = StoredStatus(seen[w])]
        /\ processingAt' \in {processingAt, [processingAt EXCEPT ![IntentOf(w)] = now]}
        /\ UNCHANGED <<stripe, queue>>
    BY <1>3 DEF Settle
  <2>3. /\ StoredStatus(seen[w]) # "none" /\ intent[IntentOf(w)] # "absent" /\ IntentOf(w) \in Intents
        /\ StoredStatus(seen[w]) = "succeeded" => intent[IntentOf(w)] = "succeeded"
    BY <2>1, AtWorkOn, StatusStored DEF Acted, ActedBy
  <2> QED BY <2>2, <2>3 DEF Rows, stripe, queue
<1>4. ASSUME UNCHANGED <<stripe, payment, processingAt>>, todo' \subseteq todo PROVE Rows'
  BY <1>4 DEF Rows, stripe
<1>5. CASE \E w \in Workers, e \in todo : Fetch(w, e)
  BY <1>4, <1>5 DEF Fetch, money, queue
<1>6. ASSUME NEW w \in Workers, WorkerStep(w) \/ GatewayError(w) \/ Stop(w), ~(Settle(w) /\ ~Throw(w))
      PROVE  Rows'
  BY <1>4, <1>6 DEF WorkerStep, Settle, Read, ConfirmSeats, KeepSeats, ClaimRefund, CreateRefund,
                    RecordRefund, Complete, GatewayError, Throw, Stop, queue, money
<1>7. CASE Nobodys
  BY <1>1, <1>2, <1>4, <1>7 DEF Nobodys, allVars, queue, money
<1>8. ASSUME NEW w \in Workers, WorkerStep(w) \/ GatewayError(w) \/ Stop(w) PROVE Rows'
  BY <1>3, <1>6, <1>8
<1> QED BY <1>5, <1>7, <1>8, AnySteps

\* What no step takes back.
LEMMA MoneyGoesOn ==
    ASSUME PaymentsInv, Rows, Acted, [PaymentsNext]_allVars, NEW i \in Intents
    PROVE  /\ payment[i] = "succeeded" => payment'[i] = "succeeded"
           /\ (i \in AchIntents /\ payment[i] \notin {"none", "requires_action"}) =>
                 payment'[i] \notin {"none", "requires_action"}
           /\ intent[i] = "succeeded" => intent'[i] = "succeeded"
           /\ processingAt[i] # NoTime => processingAt'[i] = processingAt[i]
<1> USE DEF PaymentsInv, WorkerInv, PaymentsTypeOK
<1>1. ASSUME NEW j \in Intents, CreatePayment(j)
      PROVE  /\ payment'[i] = payment[i] \/ payment[i] = "none"
             /\ intent'[i] = intent[i] \/ intent[i] = "absent"
             /\ processingAt' = processingAt
  BY <1>1 DEF CreatePayment, Rows
<1>2. ASSUME NEW j \in Intents, NEW s \in IntentStatus, StripeChange(j, s)
      PROVE  (intent[i] = "succeeded" => intent'[i] = "succeeded") /\ UNCHANGED money
  BY <1>2 DEF StripeChange, StripeMoves
<1>3. ASSUME NEW w \in Workers, Settle(w), ~Throw(w)
      PROVE  /\ payment[i] = "succeeded" => payment'[i] = "succeeded"
             /\ (i \in AchIntents /\ payment[i] \notin {"none", "requires_action"}) =>
                   payment'[i] \notin {"none", "requires_action"}
             /\ UNCHANGED intent
             /\ processingAt[i] # NoTime => processingAt'[i] = processingAt[i]
  <2>1. stage[w] # "idle"
    BY <1>3 DEF Settle
  <2>2. /\ payment' = [payment EXCEPT ![IntentOf(w)] = StoredStatus(seen[w])]
        /\ ~Refused(IntentOf(w), StoredStatus(seen[w])) /\ UNCHANGED <<intent, changes>>
        /\ processingAt' = processingAt \/
             (processingAt[IntentOf(w)] = NoTime /\ processingAt' = [processingAt EXCEPT ![IntentOf(w)] = now])
    BY <1>3 DEF Settle, stripe
  <2>3. IntentOf(w) \in AchIntents => StoredStatus(seen[w]) \notin {"none", "requires_action"}
    BY <2>1, AtWorkOn, StatusStored DEF Acted, ActedBy, StoredStatus
  <2>4. payment[IntentOf(w)] = "succeeded" => StoredStatus(seen[w]) = "succeeded"
    BY <2>2 DEF Refused
  <2> QED BY <2>2, <2>3, <2>4
<1>4. CASE UNCHANGED <<intent, payment, processingAt>>
  BY <1>4
<1>5. CASE \E w \in Workers, e \in todo : Fetch(w, e)
  BY <1>4, <1>5 DEF Fetch, money, stripe
<1>6. ASSUME NEW w \in Workers, WorkerStep(w) \/ GatewayError(w) \/ Stop(w), ~(Settle(w) /\ ~Throw(w))
      PROVE  UNCHANGED <<intent, payment, processingAt>>
  BY <1>6 DEF WorkerStep, Settle, Read, ConfirmSeats, KeepSeats, ClaimRefund, CreateRefund,
              RecordRefund, Complete, GatewayError, Throw, Stop, stripe, money
<1> DEFINE Goal ==
              /\ payment[i] = "succeeded" => payment'[i] = "succeeded"
              /\ (i \in AchIntents /\ payment[i] \notin {"none", "requires_action"}) =>
                    payment'[i] \notin {"none", "requires_action"}
              /\ intent[i] = "succeeded" => intent'[i] = "succeeded"
              /\ processingAt[i] # NoTime => processingAt'[i] = processingAt[i]
<1>7. CASE Nobodys
  <2>1. ASSUME NEW j \in Intents, CreatePayment(j) PROVE Goal
    BY <1>1, <2>1
  <2>2. ASSUME NEW j \in Intents, NEW s \in IntentStatus, StripeChange(j, s) PROVE Goal
    BY <1>2, <2>2 DEF money
  <2>3. CASE UNCHANGED <<stripe, money>>
    BY <2>3 DEF stripe, money
  <2> QED BY <1>7, <2>1, <2>2, <2>3 DEF Nobodys, allVars
<1>8. ASSUME NEW w \in Workers, WorkerStep(w) \/ GatewayError(w) \/ Stop(w) PROVE Goal
  <2>1. CASE Settle(w) /\ ~Throw(w)
    BY <1>3, <2>1
  <2> QED BY <1>4, <1>6, <1>8, <2>1
<1> HIDE DEF Goal
<1>9. Goal
  BY <1>4, <1>5, <1>7, <1>8, AnySteps DEF Goal
<1> QED BY <1>9 DEF Goal

\* The deadline of a payable cart moves with its first failure only, which is
\* not forgotten; a completed cart stays so until then, and a lost place is
\* not found again but by it.
LEMMA CartAges ==
    ASSUME TypeOK, PaymentsInv, QuotedCarts, [PaymentsNext]_allVars, NEW c \in Checkouts, Payable(c)
    PROVE  \/ failedOnce'[c]
           \/ /\ ~failedOnce[c] /\ holdExpires'[c] = holdExpires[c]
              /\ status[c] = "completed" => status'[c] = "completed"
              /\ Lost(c) => Lost(c)'
<1>1. Rests(c) \/ Loses(c) \/ Confirms(c) \/ Keeps(c)
  BY CartMoved
<1>2. failedOnce[c] \in BOOLEAN
  BY DEF TypeOK
<1>3. CASE Keeps(c)
  BY <1>3 DEF Keeps
<1>4. CASE ~Keeps(c)
  BY <1>1, <1>2, <1>4, CartGoesOn
<1> QED BY <1>3, <1>4

LEMMA ActedStep ==
    ASSUME TypeOK, PaymentsInv, QuotedCarts, Rows, Acted, [PaymentsNext]_allVars
    PROVE  Acted'
<1>1. ASSUME NEW v \in Workers, stage[v] # "idle", stage'[v] = stage[v], job'[v] = job[v],
             seen'[v] = seen[v], honor'[v] = honor[v]
      PROVE  ActedBy(v)'
  <2>1. ActedBy(v) /\ IntentOf(v)' = IntentOf(v)
    BY <1>1 DEF Acted, IntentOf
  <2>2. IntentOf(v) \in Intents /\ CartOf[IntentOf(v)] \in Checkouts /\ Payable(CartOf[IntentOf(v)])
    BY <1>1, AtWorkOn
  <2>3. /\ payment[IntentOf(v)] = "succeeded" => payment'[IntentOf(v)] = "succeeded"
        /\ (IntentOf(v) \in AchIntents /\ payment[IntentOf(v)] \notin {"none", "requires_action"}) =>
                 payment'[IntentOf(v)] \notin {"none", "requires_action"}
        /\ intent[IntentOf(v)] = "succeeded" => intent'[IntentOf(v)] = "succeeded"
        /\ processingAt[IntentOf(v)] # NoTime => processingAt'[IntentOf(v)] = processingAt[IntentOf(v)]
    BY <2>2, MoneyGoesOn
  <2>4. (processingAt[IntentOf(v)] # NoTime /\ InTime(IntentOf(v))' /\ ~failedOnce'[CartOf[IntentOf(v)]]) =>
           InTime(IntentOf(v)) /\ ~failedOnce[CartOf[IntentOf(v)]]
    <3>1. CASE failedOnce'[CartOf[IntentOf(v)]]
      BY <3>1
    <3>2. CASE ~failedOnce[CartOf[IntentOf(v)]]
                /\ holdExpires'[CartOf[IntentOf(v)]] = holdExpires[CartOf[IntentOf(v)]]
      BY <2>1, <2>3, <3>2 DEF InTime
    <3> QED BY <2>2, <3>1, <3>2, CartAges
  <2> QED BY <1>1, <2>1, <2>3, <2>4 DEF ActedBy
<1>2. ASSUME NEW w \in Workers, NEW e \in todo, Fetch(w, e) PROVE ActedBy(w)'
  <2>1. /\ stage'[w] = "settle" /\ job'[w] = e /\ seen'[w] = intent[e[1]]
        /\ UNCHANGED <<intent, payment>>
    BY <1>2 DEF Fetch, GoTo, stripe, money, PaymentsInv, WorkerInv, PaymentsTypeOK
  <2>2. e[1] \in Intents /\ IntentOf(w)' = e[1]
    BY <2>1 DEF IntentOf, PaymentsInv, WorkerInv, PaymentsTypeOK, Event
  <2> QED BY <2>1, <2>2 DEF ActedBy, Rows
<1>3. ASSUME NEW w \in Workers, GoesOn(w), stage'[w] \notin {"idle", "settle", "confirm"},
             stage[w] # "settle"
      PROVE  ActedBy(w)'
  <2>1. ActedBy(w) /\ IntentOf(w)' = IntentOf(w) /\ IntentOf(w) \in Intents /\ seen'[w] = seen[w]
    BY <1>3, AtWorkOn DEF Acted, IntentOf, GoesOn
  <2>2. /\ payment[IntentOf(w)] = "succeeded" => payment'[IntentOf(w)] = "succeeded"
        /\ (IntentOf(w) \in AchIntents /\ payment[IntentOf(w)] \notin {"none", "requires_action"}) =>
                 payment'[IntentOf(w)] \notin {"none", "requires_action"}
        /\ intent[IntentOf(w)] = "succeeded" => intent'[IntentOf(w)] = "succeeded"
        /\ processingAt[IntentOf(w)] # NoTime => processingAt'[IntentOf(w)] = processingAt[IntentOf(w)]
    BY <2>1, MoneyGoesOn
  <2>3. processingAt[IntentOf(w)] # NoTime => processingAt'[IntentOf(w)] # NoTime
    BY <2>2
  <2> QED BY <1>3, <2>1, <2>2, <2>3 DEF ActedBy
<1>4. ASSUME NEW w \in Workers, Settle(w), ~Throw(w) PROVE ActedBy(w)'
  <2>1. stage[w] # "idle" /\ IntentOf(w) \in Intents /\ seen[w] \in IntentStatus \ {"absent"} /\ ActedBy(w)
    BY <1>4, AtWorkOn DEF Settle, Acted
  <2>2. /\ payment'[IntentOf(w)] = StoredStatus(seen[w])
        /\ stage'[w] = "read" /\ UNCHANGED <<stripe, job, seen>>
        /\ seen[w] = "processing" => processingAt'[IntentOf(w)] # NoTime
    <3>1. now # NoTime
      BY PaymentAssumption DEF TypeOK
    <3> QED BY <1>4, <2>1, <3>1, StatusStored
            DEF Settle, GoTo, PaymentsInv, WorkerInv, PaymentsTypeOK
  <2>3. IntentOf(w)' = IntentOf(w)
    BY <2>2 DEF IntentOf
  <2> QED BY <2>1, <2>2, <2>3, StatusStored DEF ActedBy, stripe, StoredStatus
<1>5. ASSUME NEW w \in Workers, Read(w), ~Throw(w) PROVE ActedBy(w)'
  <2>1. stage[w] # "idle" /\ stage[w] # "settle" /\ IntentOf(w) \in Intents /\ ActedBy(w)
    BY <1>5, AtWorkOn DEF Read, Acted
  <2>2. /\ stage'[w] \in {"confirm", "keep", "complete"}
        /\ stage'[w] = "confirm" => seen[w] \in {"succeeded", "processing"}
        /\ seen[w] = "processing" /\ InTime(IntentOf(w)) => honor'[w]
        /\ UNCHANGED <<seats, stripe, money, job, seen>>
    BY <1>5, Zenon DEF Read, GoTo, PaymentsInv, WorkerInv, PaymentsTypeOK
  <2>3. IntentOf(w)' = IntentOf(w) /\ InTime(IntentOf(w))' = InTime(IntentOf(w))
    BY <2>2 DEF IntentOf, InTime, seats, money
  <2> QED BY <2>1, <2>2, <2>3 DEF ActedBy, stripe, money
<1>6. ASSUME NEW w \in Workers, GoesOn(w), NEW v \in Workers, v # w, honor'[v] = honor[v], stage'[v] # "idle"
      PROVE  ActedBy(v)'
  <2>1. stage'[v] = stage[v] /\ job'[v] = job[v] /\ seen'[v] = seen[v]
    BY <1>6 DEF GoesOn, GoTo, PaymentsInv, WorkerInv, PaymentsTypeOK
  <2> QED BY <1>1, <1>6, <2>1
<1>7. ASSUME NEW w \in Workers, Forget(w), NEW v \in Workers, stage'[v] # "idle" PROVE ActedBy(v)'
  <2>1. v # w /\ stage'[v] = stage[v] /\ job'[v] = job[v] /\ seen'[v] = seen[v] /\ honor'[v] = honor[v]
    BY <1>7 DEF Forget, GoTo, PaymentsInv, WorkerInv, PaymentsTypeOK
  <2> QED BY <1>1, <1>7, <2>1
<1>8. ASSUME NEW w \in Workers, NEW e \in todo, Fetch(w, e), NEW v \in Workers, stage'[v] # "idle"
      PROVE  ActedBy(v)'
  <2>1. v # w => stage'[v] = stage[v] /\ job'[v] = job[v] /\ seen'[v] = seen[v] /\ honor'[v] = honor[v]
    BY <1>8 DEF Fetch, GoTo, PaymentsInv, WorkerInv, PaymentsTypeOK
  <2> QED BY <1>1, <1>2, <1>8, <2>1
<1>9. ASSUME NEW w \in Workers, WorkerStep(w) \/ GatewayError(w) \/ Stop(w),
             NEW v \in Workers, stage'[v] # "idle"
      PROVE  ActedBy(v)'
  <2>1. CASE Drops(w) \/ Complete(w)
    BY <1>7, <1>9, <2>1 DEF Drops, Complete
  <2>2. CASE GoesOn(w) /\ ~Drops(w) /\ ~Complete(w)
    <3>1. ~Throw(w) /\ WorkerStep(w)
      BY <1>9, <2>2 DEF Throw, Drops, queue, GatewayError, Stop
    <3>2. v # w => honor'[v] = honor[v]
      BY <3>1 DEF WorkerStep, Settle, Read, ConfirmSeats, KeepSeats, ClaimRefund, CreateRefund,
                  RecordRefund, Complete, Forget, PaymentsInv, WorkerInv, PaymentsTypeOK
    <3>3. CASE Settle(w) \/ Read(w)
      BY <1>4, <1>5, <1>6, <1>9, <2>2, <3>1, <3>2, <3>3
    <3>4. CASE ConfirmSeats(w) \/ KeepSeats(w) \/ ClaimRefund(w) \/ CreateRefund(w) \/ RecordRefund(w)
      <4>1. stage'[w] \in {"claim", "refund", "record", "complete"} /\ stage[w] # "settle"
        BY <3>1, <3>4 DEF ConfirmSeats, KeepSeats, ClaimRefund, CreateRefund, RecordRefund, GoTo,
                          PaymentsInv, WorkerInv, PaymentsTypeOK
      <4> QED BY <1>3, <1>6, <1>9, <2>2, <3>2, <4>1
    <3> QED BY <2>2, <3>1, <3>3, <3>4 DEF WorkerStep
  <2> QED BY <1>9, <2>1, <2>2, WorkerShapes
<1>10. ASSUME UNCHANGED worker, NEW v \in Workers, stage'[v] # "idle" PROVE ActedBy(v)'
  BY <1>1, <1>10 DEF worker
<1>11. ASSUME NEW v \in Workers, stage'[v] # "idle" PROVE ActedBy(v)'
  BY <1>8, <1>9, <1>10, <1>11 DEF PaymentsNext, CreatePayment, StripeChange, allVars
<1> QED BY <1>11 DEF Acted

-----------------------------------------------------------------------------
(* Payments and carts.                                                     *)

\* A worker's step from outside the stages S, or one about another intent or
\* another status, leaves the events of intent i that wait within S.
LEMMA PendingKept ==
    ASSUME PaymentsInv, NEW i, NEW S, NEW T, Pending(i, S, T), NEW w \in Workers,
           WorkerStep(w) \/ GatewayError(w) \/ Stop(w), "complete" \notin S,
           \/ stage[w] \notin S \/ seen[w] \notin T \/ IntentOf(w) # i
           \/ stage'[w] \in S
    PROVE  Pending(i, S, T)'
<1>1. CASE Drops(w) /\ stage[w] # "idle"
  BY <1>1, PendingForgotten DEF Drops
<1>2. CASE GoesOn(w)
  BY <1>2, PendingGoesOn
<1>3. CASE Complete(w)
  <2>1. stage[w] \notin S /\ stage[w] # "idle" /\ Forget(w) /\ todo' = todo \ {job[w]}
    BY <1>3 DEF Complete
  <2> QED BY <2>1, PendingForgotten
<1> QED BY <1>1, <1>2, <1>3, WorkerShapes

\* A worker that throws gives its event back.
LEMMA PendingThrown ==
    ASSUME PaymentsInv, NEW i, NEW S, NEW T, Pending(i, S, T), NEW w \in Workers, stage[w] # "idle",
           Throw(w) \/ Stop(w)
    PROVE  Pending(i, S, T)'
  BY PendingForgotten DEF Throw, Stop, queue

\* What nobody's step does to events and payments.
LEMMA NobodysPending ==
    ASSUME Nobodys
    PROVE  UNCHANGED <<worker, refunds>> /\ todo \subseteq todo'
  BY DEF Nobodys, CreatePayment, StripeChange, allVars, queue

LEMMA NobodysMoney ==
    ASSUME PaymentsInv, Nobodys, NEW i \in Intents
    PROVE  (payment'[i] = payment[i] \/ payment'[i] = "requires_action") /\ undone' = undone
  BY DEF Nobodys, CreatePayment, StripeChange, allVars, money, PaymentsInv, WorkerInv, PaymentsTypeOK

\* Only a worker that keeps places takes a completed cart back, and it knows
\* the payments it takes them from.
LEMMA CompletedStays ==
    ASSUME TypeOK, PaymentsInv, QuotedCarts, [PaymentsNext]_allVars,
           NEW i \in Intents, payment[i] = "succeeded", status[CartOf[i]] = "completed",
           CartOf[i] \in Checkouts, Payable(CartOf[i])
    PROVE  status'[CartOf[i]] = "completed" \/ i \in undone'
<1>1. CASE Rests(CartOf[i]) \/ Loses(CartOf[i]) \/ Confirms(CartOf[i])
  BY <1>1 DEF Rests, Loses, Confirms
<1>2. ASSUME NEW w \in Workers, KeepSeats(w), CartFor(w) = CartOf[i], Keeps(CartOf[i])
      PROVE  i \in undone'
  <2>1. CASE UNCHANGED seats
    BY <1>2, <2>1 DEF Keeps, seats, checkout
  <2>2. CASE undone' = undone \cup TakenBack(CartOf[i])
    BY <1>2, <2>2 DEF TakenBack
  <2> QED BY <1>2, <2>1, <2>2 DEF KeepSeats, Throw
<1> QED BY <1>1, <1>2, CartMoved

LEMMA SuccessStep ==
    ASSUME TypeOK, PaymentsInv, QuotedCarts, Rows, Acted, NEW i \in Intents, SuccessFor(i),
           [PaymentsNext]_allVars
    PROVE  SuccessFor(i)'
<1> DEFINE Done == status[CartOf[i]] = "completed" \/ i \in claimed \/ i \in undone
           S == SuccessStages
<1>1. ASSUME payment[i] = "succeeded", Done PROVE SuccessFor(i)'
  <2>1. claimed \subseteq claimed' /\ undone \subseteq undone'
    BY DEF PaymentsNext, Nobodys, CreatePayment, StripeChange, SeatChange, Fetch, WorkerStep, Settle,
           Read, ConfirmSeats, KeepSeats, ClaimRefund, CreateRefund, RecordRefund, Complete,
           GatewayError, Stop, Throw, allVars, money, refunds
  <2>2. CartOf[i] \in Checkouts /\ Payable(CartOf[i])
    BY <1>1, CartOfRow
  <2> QED BY <1>1, <2>1, <2>2, CompletedStays DEF SuccessFor
<1>2. SUFFICES ASSUME ~(payment[i] = "succeeded" /\ Done), payment'[i] = "succeeded"
               PROVE  \/ status'[CartOf[i]] = "completed" \/ i \in claimed'
                      \/ Pending(i, S, {"succeeded"})'
  BY <1>1 DEF SuccessFor
<1>3. payment[i] = "succeeded" => Pending(i, S, {"succeeded"}) /\ intent[i] = "succeeded"
  BY <1>2 DEF SuccessFor, Rows
<1>4. CASE Nobodys
  BY <1>2, <1>3, <1>4, NobodysPending, NobodysMoney, PendingAside
<1>5. ASSUME NEW w \in Workers, NEW e \in todo, Fetch(w, e) PROVE Pending(i, S, {"succeeded"})'
  BY <1>2, <1>3, <1>5, PendingFetched DEF Fetch, money, SuccessStages
<1>6. ASSUME NEW w \in Workers, WorkerStep(w) \/ GatewayError(w) \/ Stop(w), payment[i] = "succeeded",
             \/ stage[w] \notin S \/ seen[w] # "succeeded" \/ IntentOf(w) # i \/ stage'[w] \in S
      PROVE  Pending(i, S, {"succeeded"})'
  BY <1>3, <1>6, PendingKept DEF SuccessStages
<1>7. ASSUME NEW w \in Workers, stage[w] # "idle", Throw(w) \/ Stop(w)
      PROVE  Pending(i, S, {"succeeded"})'
  BY <1>2, <1>3, <1>7, PendingThrown DEF Throw, Stop, money
<1>8. ASSUME NEW w \in Workers, Settle(w), ~Throw(w) PROVE Pending(i, S, {"succeeded"})'
  <2>1. /\ stage'[w] = "read" /\ GoesOn(w) /\ stage[w] # "idle"
        /\ payment' = [payment EXCEPT ![IntentOf(w)] = StoredStatus(seen[w])]
    BY <1>8 DEF Settle, GoTo, GoesOn, PaymentsInv, WorkerInv, PaymentsTypeOK
  <2>2. CASE IntentOf(w) = i
    <3>1. seen[w] = "succeeded"
      BY <1>2, <2>1, <2>2, AtWorkOn, StatusStored DEF PaymentsInv, WorkerInv, PaymentsTypeOK
    <3> QED BY <2>1, <2>2, <3>1, PendingOwn DEF SuccessStages
  <2>3. CASE IntentOf(w) # i
    BY <1>2, <1>6, <1>8, <2>1, <2>3 DEF WorkerStep
  <2> QED BY <2>2, <2>3
<1>9. ASSUME NEW w \in Workers, WorkerStep(w) \/ GatewayError(w) \/ Stop(w), ~(Settle(w) /\ ~Throw(w))
      PROVE  payment' = payment
  BY <1>9 DEF WorkerStep, Settle, Read, ConfirmSeats, KeepSeats, ClaimRefund, CreateRefund,
              RecordRefund, Complete, GatewayError, Throw, Stop, money
<1>10. \A w \in Workers : \A next : GoTo(w, next) => stage'[w] = next
  BY DEF GoTo, PaymentsInv, WorkerInv, PaymentsTypeOK
<1>11. ASSUME NEW w \in Workers, Read(w), ~Throw(w) PROVE Pending(i, S, {"succeeded"})'
  <2>1. seen[w] = "succeeded" => stage'[w] = "confirm"
    BY <1>10, <1>11 DEF Read
  <2> QED BY <1>2, <1>6, <1>9, <1>11, <2>1 DEF WorkerStep, Read, SuccessStages, Settle
<1>12. ASSUME NEW w \in Workers, ConfirmSeats(w)
       PROVE  status'[CartOf[i]] = "completed" \/ Pending(i, S, {"succeeded"})'
  <2>1. CASE seen[w] = "succeeded" /\ IntentOf(w) = i
    <3>1. /\ CartFor(w) = CartOf[i] /\ CartOf[i] \in Checkouts /\ stage[w] # "idle"
          /\ status[CartOf[i]] # "completed"
      BY <1>2, <1>9, <1>12, <2>1, AtWorkOn DEF ConfirmSeats, WorkerStep, Settle
    <3>2. CASE Confirm(CartFor(w), honor[w])
      BY <3>1, <3>2, ConfirmOnCart DEF Confirms
    <3>3. CASE ~Confirm(CartFor(w), honor[w])
      <4>1. stage'[w] = "claim"
        BY <1>10, <1>12, <2>1, <3>1, <3>3 DEF ConfirmSeats
      <4> QED BY <1>2, <1>6, <1>9, <1>12, <4>1 DEF ConfirmSeats, WorkerStep, Settle, SuccessStages
    <3> QED BY <3>2, <3>3
  <2>2. CASE ~(seen[w] = "succeeded" /\ IntentOf(w) = i)
    BY <1>2, <1>6, <1>9, <1>12, <2>2 DEF ConfirmSeats, WorkerStep, Settle
  <2> QED BY <2>1, <2>2
<1>13. ASSUME NEW w \in Workers, ClaimRefund(w), ~Throw(w)
       PROVE  i \in claimed' \/ Pending(i, S, {"succeeded"})'
  <2>1. claimed' = claimed \cup {IntentOf(w)} /\ stage[w] = "claim"
    BY <1>13 DEF ClaimRefund
  <2> QED BY <1>2, <1>6, <1>9, <1>13, <2>1 DEF WorkerStep, Settle
<1>14. ASSUME NEW w \in Workers, KeepSeats(w) \/ CreateRefund(w) \/ RecordRefund(w) \/ Complete(w)
       PROVE  Pending(i, S, {"succeeded"})'
  <2>1. stage[w] \notin S /\ ~Settle(w)
    BY <1>14 DEF KeepSeats, CreateRefund, RecordRefund, Complete, Settle, SuccessStages
  <2> QED BY <1>2, <1>6, <1>9, <1>14, <2>1 DEF WorkerStep
<1>15. ASSUME NEW w \in Workers, WorkerStep(w) \/ GatewayError(w) \/ Stop(w)
       PROVE  \/ status'[CartOf[i]] = "completed" \/ i \in claimed'
              \/ Pending(i, S, {"succeeded"})'
  <2>1. stage[w] # "idle"
    BY <1>15 DEF WorkerStep, GatewayError, Stop, Settle, Read, ConfirmSeats, KeepSeats, ClaimRefund,
                 CreateRefund, RecordRefund, Complete
  <2> QED BY <1>7, <1>8, <1>11, <1>12, <1>13, <1>14, <1>15, <2>1 DEF WorkerStep, GatewayError
<1> QED BY <1>4, <1>5, <1>15, AnySteps

\* Where payment rows, intents and claims change.
LEMMA WorkerMoney ==
    ASSUME NEW w \in Workers, WorkerStep(w) \/ GatewayError(w) \/ Stop(w)
    PROVE  /\ stage[w] # "idle" /\ UNCHANGED stripe
           /\ ~(Settle(w) /\ ~Throw(w)) => UNCHANGED <<payment, processingAt>>
           /\ ~(ClaimRefund(w) /\ ~Throw(w)) => claimed' = claimed
           /\ ~CreateRefund(w) => refundCalls' = refundCalls
  BY DEF WorkerStep, Settle, Read, ConfirmSeats, KeepSeats, ClaimRefund, CreateRefund,
         RecordRefund, Complete, GatewayError, Throw, Stop, stripe, money, refunds

LEMMA ClaimStep ==
    ASSUME PaymentsInv, NEW i \in Intents, ClaimFor(i), [PaymentsNext]_allVars
    PROVE  ClaimFor(i)'
<1> SUFFICES ASSUME ~Faults, i \in claimed'
             PROVE  refundCalls'[i] > 0 \/ Busy({"refund"}, i)'
  BY DEF ClaimFor
<1> USE DEF PaymentsInv, WorkerInv, PaymentsTypeOK
<1>1. ASSUME NEW v \in Workers, stage[v] = "refund", IntentOf(v) = i,
             stage'[v] = stage[v], job'[v] = job[v]
      PROVE  Busy({"refund"}, i)'
  BY <1>1 DEF Busy, At, IntentOf
<1>2. i \in claimed => refundCalls[i] > 0 \/ \E v \in Workers : stage[v] = "refund" /\ IntentOf(v) = i
  BY DEF ClaimFor, Busy, At
<1>3. CASE Nobodys
  <2>1. UNCHANGED <<stage, job, claimed, refundCalls>>
    BY <1>3, NobodysPending DEF worker, refunds
  <2> QED BY <1>1, <1>2, <2>1
<1>4. ASSUME NEW w \in Workers, NEW e \in todo, Fetch(w, e)
      PROVE  refundCalls'[i] > 0 \/ Busy({"refund"}, i)'
  <2>1. /\ UNCHANGED refunds /\ stage[w] = "idle"
        /\ \A v \in Workers : v # w => stage'[v] = stage[v] /\ job'[v] = job[v]
    BY <1>4 DEF Fetch, GoTo
  <2> QED BY <1>1, <1>2, <2>1 DEF refunds
<1>5. ASSUME NEW w \in Workers, WorkerStep(w)
      PROVE  refundCalls'[i] > 0 \/ Busy({"refund"}, i)'
  <2>1. \A v \in Workers : v # w => stage'[v] = stage[v] /\ job'[v] = job[v]
    BY <1>5, WorkerShapes DEF Drops, GoesOn, Complete, Forget, GoTo
  <2>2. CASE CreateRefund(w)
    <3>1. claimed' = claimed /\ refundCalls' = [refundCalls EXCEPT ![IntentOf(w)] = @ + 1] /\ stage[w] # "idle"
      BY <2>2 DEF CreateRefund
    <3>2. IntentOf(w) \in Intents
      BY <3>1, AtWorkOn
    <3>3. refundCalls[i] > 0 => refundCalls'[i] > 0
      BY <3>1, <3>2
    <3>4. IntentOf(w) = i => refundCalls'[i] > 0
      BY <3>1, <3>2
    <3> QED BY <1>1, <1>2, <2>1, <3>1, <3>3, <3>4
  <2>3. CASE ClaimRefund(w) /\ ~Throw(w) /\ i \notin claimed
    <3>1. IntentOf(w) = i /\ stage'[w] = "refund" /\ UNCHANGED job
      BY <2>3 DEF ClaimRefund, GoTo
    <3> QED BY <3>1 DEF Busy, At, IntentOf
  <2>4. CASE ~CreateRefund(w) /\ ~(ClaimRefund(w) /\ ~Throw(w) /\ i \notin claimed)
    <3>1. i \in claimed /\ refundCalls' = refundCalls
      BY <1>5, <2>4, WorkerMoney
    <3>2. stage[w] # "refund"
      BY <1>5, <2>4 DEF WorkerStep, Settle, Read, ConfirmSeats, KeepSeats, ClaimRefund, RecordRefund, Complete
    <3> QED BY <1>1, <1>2, <2>1, <3>1, <3>2
  <2> QED BY <2>2, <2>3, <2>4
<1> QED BY <1>3, <1>4, <1>5, AnySteps DEF GatewayError, Stop

LEMMA FailureStep ==
    ASSUME TypeOK, PaymentsInv, QuotedCarts, Rows, NEW i \in Intents, FailureFor(i),
           [PaymentsNext]_allVars
    PROVE  FailureFor(i)'
<1> DEFINE S == FailureStages
<1> SUFFICES ASSUME payment'[i] \in {"failed", "canceled"}, ~failedOnce'[CartOf[i]]
             PROVE  Pending(i, S, IntentStatus)'
  BY DEF FailureFor
<1>1. payment[i] \in {"failed", "canceled"} => Pending(i, S, IntentStatus)
  <2> SUFFICES ASSUME payment[i] \in {"failed", "canceled"} PROVE Pending(i, S, IntentStatus)
    OBVIOUS
  <2>1. CartOf[i] \in Checkouts /\ Payable(CartOf[i])
    BY CartOfRow
  <2>2. ~failedOnce[CartOf[i]]
    BY <2>1, CartAges
  <2> QED BY <2>2 DEF FailureFor
<1>2. CASE Nobodys
  BY <1>1, <1>2, NobodysPending, NobodysMoney, PendingAside
<1>3. ASSUME NEW w \in Workers, NEW e \in todo, Fetch(w, e) PROVE Pending(i, S, IntentStatus)'
  <2>1. intent[i] \in IntentStatus
    BY DEF PaymentsInv, WorkerInv, PaymentsTypeOK
  <2> QED BY <1>1, <1>3, <2>1, PendingFetched DEF Fetch, money, FailureStages
<1>4. ASSUME NEW w \in Workers, WorkerStep(w) \/ GatewayError(w) \/ Stop(w), payment'[i] = payment[i],
             stage[w] \notin S \/ IntentOf(w) # i \/ stage'[w] \in S
      PROVE  Pending(i, S, IntentStatus)'
  BY <1>1, <1>4, PendingKept DEF FailureStages
<1>5. ASSUME NEW w \in Workers, WorkerStep(w) \/ GatewayError(w) \/ Stop(w), Throw(w) \/ Stop(w)
      PROVE  Pending(i, S, IntentStatus)'
  BY <1>1, <1>5, PendingThrown, WorkerMoney DEF Throw, Stop, money
<1>6. \A w \in Workers : \A next : GoTo(w, next) => stage'[w] = next
  BY DEF GoTo, PaymentsInv, WorkerInv, PaymentsTypeOK
<1>7. ASSUME NEW w \in Workers, Settle(w), ~Throw(w) PROVE Pending(i, S, IntentStatus)'
  <2>1. /\ stage'[w] = "read" /\ GoesOn(w) /\ stage[w] # "idle"
        /\ payment' = [payment EXCEPT ![IntentOf(w)] = StoredStatus(seen[w])]
    BY <1>7 DEF Settle, GoTo, GoesOn, PaymentsInv, WorkerInv, PaymentsTypeOK
  <2>2. CASE IntentOf(w) = i
    BY <2>1, <2>2, AtWorkOn, PendingOwn DEF FailureStages
  <2>3. CASE IntentOf(w) # i
    BY <1>4, <1>7, <2>1, <2>3 DEF WorkerStep, PaymentsInv, WorkerInv, PaymentsTypeOK
  <2> QED BY <2>2, <2>3
<1>8. ASSUME NEW w \in Workers, Read(w), ~Throw(w) PROVE Pending(i, S, IntentStatus)'
  <2>1. payment' = payment /\ payment[IntentOf(w)] = StoredStatus(seen[w]) /\ stage[w] # "idle"
    BY <1>8 DEF Read, money
  <2>2. IntentOf(w) = i => seen[w] \in {"requires_payment_method", "canceled"}
    BY <2>1, AtWorkOn, StatusStored
  <2>3. IntentOf(w) = i => stage'[w] = "keep"
    BY <1>6, <1>8, <2>2 DEF Read
  <2> QED BY <1>4, <1>8, <2>1, <2>3 DEF WorkerStep, FailureStages
<1>9. ASSUME NEW w \in Workers, KeepSeats(w), ~Throw(w) PROVE Pending(i, S, IntentStatus)'
  <2>1. payment' = payment /\ stage[w] # "idle" /\ ~Settle(w)
    BY <1>9 DEF KeepSeats, money, Settle
  <2>2. failedOnce'[CartFor(w)]
    <3>1. CartFor(w) \in Checkouts
      BY <2>1, AtWorkOn
    <3>2. failedOnce \in [Checkouts -> BOOLEAN]
      BY DEF TypeOK
    <3>3. CASE failedOnce[CartFor(w)] /\ UNCHANGED seats
      BY <3>3 DEF seats, checkout
    <3>4. CASE KeepForFailedPayment(CartFor(w))
      <4>1. failedOnce' = [failedOnce EXCEPT ![CartFor(w)] = TRUE]
        BY <3>4 DEF KeepForFailedPayment
      <4> QED BY <3>1, <3>2, <4>1
    <3> QED BY <1>9, <3>3, <3>4 DEF KeepSeats
  <2>3. IntentOf(w) # i
    BY <2>2 DEF CartFor
  <2> QED BY <1>4, <1>9, <2>1, <2>3 DEF WorkerStep
<1>10. ASSUME NEW w \in Workers, ConfirmSeats(w) \/ ClaimRefund(w) \/ CreateRefund(w) \/ RecordRefund(w)
                                 \/ Complete(w)
       PROVE  Pending(i, S, IntentStatus)'
  <2>1. stage[w] \notin S /\ ~Settle(w)
    BY <1>10 DEF ConfirmSeats, ClaimRefund, CreateRefund, RecordRefund, Complete, Settle, FailureStages
  <2>2. payment' = payment
    BY <1>10, <2>1, WorkerMoney DEF WorkerStep
  <2> QED BY <1>4, <1>10, <2>1, <2>2 DEF WorkerStep
<1>11. ASSUME NEW w \in Workers, WorkerStep(w) \/ GatewayError(w) \/ Stop(w)
       PROVE  Pending(i, S, IntentStatus)'
  BY <1>5, <1>7, <1>8, <1>9, <1>10, <1>11 DEF WorkerStep, GatewayError
<1> QED BY <1>2, <1>3, <1>11, AnySteps

LEMMA PaidStep ==
    ASSUME TypeOK, PaymentsInv, QuotedCarts, Rows, Acted, [PaymentsNext]_allVars,
           NEW c \in Checkouts, PaidFor(c)
    PROVE  PaidFor(c)'
<1>1. CASE status[c] = "completed"
  <2>1. PICK i \in Intents :
          /\ CartOf[i] = c
          /\ \/ payment[i] = "succeeded"
             \/ i \in AchIntents /\ payment[i] \notin {"none", "requires_action"}
    BY <1>1 DEF PaidFor
  <2> QED BY <2>1, MoneyGoesOn DEF PaidFor
<1>2. CASE status'[c] # "completed"
  BY <1>2 DEF PaidFor
<1>3. CASE status[c] # "completed" /\ status'[c] = "completed"
  <2>1. ~UNCHANGED seats
    BY <1>3 DEF seats, checkout
  <2>2. ~SeatChange
    BY <1>3 DEF SeatChange, StartCheckout, Reserve, Freeze, QuotePaid, ReleaseExpiredHolds, Tick,
                checkout, TypeOK
  <2>3. PICK w \in Workers : ConfirmSeats(w) \/ KeepSeats(w)
    BY <2>1, <2>2 DEF PaymentsNext, CreatePayment, StripeChange, Fetch, WorkerStep, Settle, Read,
       ClaimRefund, CreateRefund, RecordRefund, Complete, GatewayError, Stop, Throw, allVars
  <2>4. stage[w] # "idle"
    BY <2>3 DEF ConfirmSeats, KeepSeats
  <2>5. ~KeepSeats(w)
    <3>1. ASSUME KeepForFailedPayment(CartFor(w)) PROVE FALSE
      BY <1>3, <2>4, <3>1, AtWorkOn, KeepOnCart DEF Rests, Keeps
    <3> QED BY <2>1, <3>1 DEF KeepSeats, Throw
  <2>6. ConfirmSeats(w) /\ Confirm(CartFor(w), honor[w])
    BY <2>1, <2>3, <2>5 DEF ConfirmSeats
  <2>7. CartFor(w) = c
    BY <1>3, <2>4, <2>6, AtWorkOn, ConfirmOnCart DEF Rests
  <2>8. IntentOf(w) \in Intents /\ CartOf[IntentOf(w)] = c /\ payment' = payment
    BY <2>4, <2>6, <2>7, AtWorkOn DEF ConfirmSeats, money
  <2>9. \/ payment[IntentOf(w)] = "succeeded"
        \/ IntentOf(w) \in AchIntents /\ payment[IntentOf(w)] \notin {"none", "requires_action"}
    BY <2>4, <2>6 DEF Acted, ActedBy, ConfirmSeats
  <2> QED BY <2>8, <2>9 DEF PaidFor
<1> QED BY <1>1, <1>2, <1>3

\* A bank payment that begins to process sends an event that nobody has.
LEMMA ProcessingBegins ==
    ASSUME PaymentsInv, Rows, NEW i \in Intents, NEW s \in IntentStatus, StripeChange(i, s),
           NEW S, NEW T
    PROVE  Pending(i, S, T)'
<1> DEFINE e == <<i, changes[i] + 1>>
<1>1. /\ changes[i] \in Nat /\ e \in todo' /\ UNCHANGED <<stage, job>>
  BY DEF StripeChange, worker, PaymentsInv, WorkerInv, PaymentsTypeOK
<1>2. e \notin todo
  BY <1>1 DEF Rows
<1>3. \A w \in Workers : stage[w] # "idle" => job[w] # e
  BY <1>2 DEF PaymentsInv, WorkerInv, OwnEvent
<1> QED BY <1>1, <1>3 DEF Pending

LEMMA ProcessingStep ==
    ASSUME IInv, PaymentsInv, QuotedCarts, Rows, Acted, [PaymentsNext]_allVars,
           NEW i \in Intents, ProcessingFor(i)
    PROVE  ProcessingFor(i)'
<1> DEFINE S == ProcessingStages
           c == CartOf[i]
           late == processingAt[i] # NoTime /\ ~InTime(i)
           Waits == Pending(i, S, {"processing"})
           Settled == \/ status'[c] = "completed" \/ failedOnce'[c] \/ Lost(c)'
                      \/ processingAt'[i] # NoTime /\ ~InTime(i)'
                      \/ Pending(i, S, {"processing"})'
<1> SUFFICES ASSUME ConfirmOnAch, intent'[i] = "processing", ~failedOnce'[c]
             PROVE  Settled
  BY DEF ProcessingFor
<1>0. TypeOK
  BY DEF IInv
<1>1. ASSUME NEW s \in IntentStatus, StripeChange(i, s) PROVE Settled
  BY <1>1, ProcessingBegins
<1> SUFFICES ASSUME \A s \in IntentStatus : ~StripeChange(i, s) PROVE Settled
  BY <1>1
<1>2. intent[i] = "processing"
  <2>1. ASSUME NEW j \in Intents, CreatePayment(j) PROVE intent[i] = "processing"
    BY <2>1 DEF CreatePayment, PaymentsInv, WorkerInv, PaymentsTypeOK
  <2>2. ASSUME NEW j \in Intents, j # i, NEW s \in IntentStatus, StripeChange(j, s)
        PROVE  intent[i] = "processing"
    BY <2>2 DEF StripeChange, PaymentsInv, WorkerInv, PaymentsTypeOK
  <2>3. CASE UNCHANGED intent
    BY <2>3
  <2>4. CASE Nobodys
    BY <2>1, <2>2, <2>3, <2>4 DEF Nobodys, allVars, stripe
  <2> QED BY <2>3, <2>4, AnySteps, WorkerMoney DEF Fetch, stripe
<1>3. c \in Checkouts /\ Payable(c) /\ i \in AchIntents
  BY <1>2, CartOfRow DEF Rows
<1>4. /\ ~failedOnce[c] /\ holdExpires'[c] = holdExpires[c]
      /\ status[c] = "completed" => status'[c] = "completed"
      /\ Lost(c) => Lost(c)'
  BY <1>0, <1>3, CartAges
<1>5. late => processingAt'[i] # NoTime /\ ~InTime(i)'
  BY <1>4, MoneyGoesOn DEF InTime
<1> SUFFICES ASSUME status[c] # "completed", ~Lost(c), ~late PROVE Settled
  BY <1>4, <1>5
<1>6. Waits
  BY <1>2, <1>4 DEF ProcessingFor
<1>7. CASE Nobodys
  BY <1>6, <1>7, NobodysPending, PendingAside
<1>8. ASSUME NEW w \in Workers, NEW e \in todo, Fetch(w, e) PROVE Settled
  BY <1>2, <1>6, <1>8, PendingFetched DEF ProcessingStages
<1>9. ASSUME NEW w \in Workers, WorkerStep(w) \/ GatewayError(w) \/ Stop(w),
             stage[w] \notin S \/ seen[w] # "processing" \/ IntentOf(w) # i \/ stage'[w] \in S
      PROVE  Settled
  BY <1>6, <1>9, PendingKept DEF ProcessingStages
<1>10. ASSUME NEW w \in Workers, WorkerStep(w) \/ GatewayError(w) \/ Stop(w), Throw(w) \/ Stop(w)
       PROVE  Settled
  BY <1>6, <1>10, PendingThrown, WorkerMoney
<1>11. \A w \in Workers : \A next : GoTo(w, next) => stage'[w] = next
  BY DEF GoTo, PaymentsInv, WorkerInv, PaymentsTypeOK
<1>12. ASSUME NEW w \in Workers, Settle(w), ~Throw(w) PROVE Settled
  BY <1>9, <1>11, <1>12 DEF Settle, WorkerStep, ProcessingStages
<1>13. ASSUME NEW w \in Workers, Read(w), ~Throw(w) PROVE Settled
  <2>1. seen[w] = "processing" /\ IntentOf(w) = i => stage'[w] = "confirm"
    BY <1>3, <1>11, <1>13 DEF Read
  <2> QED BY <1>9, <1>13, <2>1 DEF WorkerStep, ProcessingStages
<1>14. ASSUME NEW w \in Workers, ConfirmSeats(w) PROVE Settled
  <2>1. CASE seen[w] = "processing" /\ IntentOf(w) = i
    <3>1. /\ CartFor(w) = c /\ stage[w] = "confirm" /\ stage[w] # "idle"
          /\ status[c] = "awaiting_payment" /\ AllActive(c)
      BY <1>3, <1>14, <2>1, AllActiveUnlessLost DEF ConfirmSeats, CartFor
    <3>2. honor[w]
      <4>1. processingAt[i] # NoTime
        BY <2>1, <3>1 DEF Acted, ActedBy
      <4>2. InTime(i)
        BY <4>1
      <4> QED BY <1>4, <2>1, <3>1, <4>2 DEF Acted, ActedBy
    <3>3. Confirm(c, honor[w])
      BY <1>14, <3>1, <3>2 DEF ConfirmSeats
    <3> QED BY <1>0, <1>3, <3>3, ConfirmOnCart DEF Confirms
  <2>2. CASE ~(seen[w] = "processing" /\ IntentOf(w) = i)
    BY <1>9, <1>14, <2>2 DEF WorkerStep
  <2> QED BY <2>1, <2>2
<1>15. ASSUME NEW w \in Workers, KeepSeats(w) \/ ClaimRefund(w) \/ CreateRefund(w) \/ RecordRefund(w)
                                 \/ Complete(w)
       PROVE  Settled
  <2>1. stage[w] \notin S
    BY <1>15 DEF KeepSeats, ClaimRefund, CreateRefund, RecordRefund, Complete, ProcessingStages
  <2> QED BY <1>9, <1>15, <2>1 DEF WorkerStep
<1>16. ASSUME NEW w \in Workers, WorkerStep(w) \/ GatewayError(w) \/ Stop(w) PROVE Settled
  <2> HIDE DEF Settled
  <2> QED BY <1>10, <1>12, <1>13, <1>14, <1>15, <1>16 DEF WorkerStep, GatewayError
<1> HIDE DEF Settled
<1>17. CASE Nobodys
  BY <1>7, <1>17 DEF Settled
<1> QED BY <1>8, <1>16, <1>17, AnySteps

LEMMA AnyInitially ==
    ASSUME PaymentsInit
    PROVE  AnyInv
  BY OrderInitially DEF OrderInv, PaymentsInit, Init, AnyInv, Rows, Acted, SuccessFor, ClaimFor,
     FailureFor, ProcessingFor, PaidFor

LEMMA AnyInvStep ==
    ASSUME IInv, PaymentsInv, AnyInv, [PaymentsNext]_allVars
    PROVE  AnyInv'
<1>1. TypeOK /\ QuotedCarts /\ Rows /\ Acted
  BY DEF IInv, AnyInv
<1>2. QuotedCarts' /\ Rows' /\ Acted'
  BY <1>1, QuotedCartsStep, RowsStep, ActedStep
<1>3. ASSUME NEW i \in Intents PROVE SuccessFor(i)' /\ ClaimFor(i)' /\ FailureFor(i)' /\ ProcessingFor(i)'
  <2>1. SuccessFor(i) /\ ClaimFor(i) /\ FailureFor(i) /\ ProcessingFor(i)
    BY DEF AnyInv
  <2> QED BY <1>1, <2>1, SuccessStep, ClaimStep, FailureStep, ProcessingStep
<1>4. ASSUME NEW c \in Checkouts PROVE PaidFor(c)'
  <2>1. PaidFor(c)
    BY DEF AnyInv
  <2> QED BY <1>1, <2>1, PaidStep
<1> QED BY <1>2, <1>3, <1>4 DEF AnyInv

\* Both invariants: the one of any order, and where events are handled in
\* order, and also in time, those that hold then.
MoneyInv ==
    /\ IInv /\ PaymentsInv /\ AnyInv
    /\ InOrder => OrderInv
    /\ (InOrder /\ Prompt /\ ConfirmOnAch) => SeatedInv

LEMMA MoneyInitially == PaymentsInit => MoneyInv
  BY InitIInv, PaymentsInitially, AnyInitially, OrderInitially, SeatedInitially
     DEF PaymentsInit, MoneyInv

LEMMA MoneyStep == MoneyInv /\ [PaymentsNext]_allVars => MoneyInv'
<1> SUFFICES ASSUME MoneyInv, [PaymentsNext]_allVars PROVE MoneyInv'
  OBVIOUS
<1>1. IInv /\ PaymentsInv /\ AnyInv /\ TypeOK
  BY DEF MoneyInv, IInv
<1>2. IInv' /\ PaymentsInv' /\ AnyInv'
  BY <1>1, SeatsRefined, IInvStep, PaymentsInvStep, AnyInvStep DEF PaymentsInv, WorkerInv
<1>3. InOrder => OrderInv'
  BY <1>1, OrderStep DEF MoneyInv, InOrder, OneWorker
<1>4. (InOrder /\ Prompt /\ ConfirmOnAch) => SeatedInv'
  BY <1>1, TimeAssumption, SeatedInvStep DEF MoneyInv, InOrder, OneWorker
<1> QED BY <1>2, <1>3, <1>4 DEF MoneyInv, InOrder

\* No event of a handled intent waits.
LEMMA HandledIsNotPending ==
    ASSUME NEW i, Handled(i), NEW S, NEW T
    PROVE  ~Pending(i, S, T)
  BY DEF Handled, Pending

\* Money and seats agree, for any number of workers, with or without faults,
\* and whatever the setting: a payment that succeeded has its seat or its
\* refund once its cart's events are handled, unless a fault came after the
\* claim of the refund or a failure was acted upon after the success; and no
\* confirmed cart is without a payment before its first failure.
THEOREM MoneyAndSeats == PaymentsSpec => []MoneyAndSeatsAgree
<1>1. MoneyInv => SeatedOrRefunded
  <2> SUFFICES ASSUME MoneyInv, NEW i \in Intents, payment[i] = "succeeded", HandledCart(CartOf[i])
               PROVE  \/ status[CartOf[i]] = "completed" \/ refundCalls[i] > 0
                      \/ Faults /\ i \in claimed
                      \/ ~InOrder /\ i \in undone
    BY DEF SeatedOrRefunded
  <2>1. CASE InOrder
    BY <2>1, ResolvedInOrder DEF MoneyInv
  <2>2. CASE ~InOrder
    <3>1. Handled(i)
      BY DEF HandledCart
    <3>2. ~Busy({"refund"}, i)
      BY <3>1 DEF Busy, At, Handled
    <3>3. SuccessFor(i) /\ ClaimFor(i)
      BY DEF MoneyInv, AnyInv
    <3> QED BY <2>2, <3>1, <3>2, <3>3, HandledIsNotPending DEF SuccessFor, ClaimFor
  <2> QED BY <2>1, <2>2
<1>2. MoneyInv => UnpaidIsKnown
  <2> SUFFICES ASSUME MoneyInv, NEW c \in Checkouts, status[c] = "completed", HandledCart(c),
                      ~failedOnce[c]
               PROVE  \E i \in Intents : CartOf[i] = c /\ payment[i] \in {"processing", "succeeded"}
    BY DEF UnpaidIsKnown
  <2>1. PICK i \in Intents :
          /\ CartOf[i] = c
          /\ \/ payment[i] = "succeeded"
             \/ i \in AchIntents /\ payment[i] \notin {"none", "requires_action"}
    BY DEF MoneyInv, AnyInv, PaidFor
  <2>2. Handled(i) /\ FailureFor(i)
    BY <2>1 DEF HandledCart, MoneyInv, AnyInv
  <2>3. payment[i] \notin {"failed", "canceled"}
    BY <2>1, <2>2, HandledIsNotPending DEF FailureFor
  <2>4. payment[i] \in PaymentStatus
    BY DEF MoneyInv, PaymentsInv, WorkerInv, PaymentsTypeOK
  <2> QED BY <2>1, <2>3, <2>4 DEF PaymentStatus
<1> QED BY <1>1, <1>2, MoneyInitially, MoneyStep, PTL DEF PaymentsSpec, MoneyAndSeatsAgree

\* A cart with a bank payment that began in time has every place until its
\* deadline, whoever handles its events and in whatever order; and where such
\* carts are confirmed at once, it is confirmed, but for a failure or a loss
\* that came before it.
THEOREM ProcessingPlaceKept == PaymentsSpec => []ProcessingKeepsPlace
<1>1. MoneyInv => ProcessingKeepsPlace
  <2> SUFFICES ASSUME MoneyInv, NEW i \in Intents, intent[i] = "processing", InTime(i)
               PROVE  /\ now < Deadline(CartOf[i]) => ~Lost(CartOf[i])
                      /\ (ConfirmOnAch /\ Handled(i)) =>
                            \/ status[CartOf[i]] = "completed"
                            \/ failedOnce[CartOf[i]] /\ Lost(CartOf[i])
                            \/ ~(InOrder /\ Prompt) /\ (failedOnce[CartOf[i]] \/ Lost(CartOf[i]))
    BY DEF ProcessingKeepsPlace
  <2>1. CartOf[i] \in Checkouts /\ Payable(CartOf[i])
    BY CartOfRow DEF MoneyInv, AnyInv
  <2>2. Lost(CartOf[i]) => ~(now < Deadline(CartOf[i]))
    <3>1. now \in Nat /\ holdExpires[CartOf[i]] \in Nat /\ Grace \in Nat
      BY <2>1, TimeAssumption DEF MoneyInv, IInv, TypeOK
    <3>2. Lost(CartOf[i]) => now >= holdExpires[CartOf[i]] + Grace
      BY <2>1, LostIsLate DEF MoneyInv, AnyInv
    <3> QED BY <3>1, <3>2 DEF Deadline
  <2>3. ASSUME ConfirmOnAch, Handled(i), InOrder, Prompt
        PROVE  status[CartOf[i]] = "completed" \/ (failedOnce[CartOf[i]] /\ Lost(CartOf[i]))
    BY <2>3, SeatedInOrder DEF MoneyInv
  <2>4. ASSUME ConfirmOnAch, Handled(i)
        PROVE  status[CartOf[i]] = "completed" \/ failedOnce[CartOf[i]] \/ Lost(CartOf[i])
    BY <2>4, HandledIsNotPending DEF MoneyInv, AnyInv, ProcessingFor
  <2> QED BY <2>2, <2>3, <2>4
<1> QED BY <1>1, MoneyInitially, MoneyStep, PTL DEF PaymentsSpec

-----------------------------------------------------------------------------
(* HoldLocking: rows have one owner.                                       *)

\* A set of numbers has a least element.
LEMMA NatMinimum ==
    ASSUME NEW T \in SUBSET Nat, T # {}
    PROVE  \E n \in T : \A m \in T : n <= m
<1> DEFINE less == {p \in Nat \X Nat : p[1] < p[2]}
<1>1. IsWellFoundedOn(less, Nat)
  BY NatLessThanWellFounded DEF OpToRel
<1>2. PICK n \in T : \A m \in T : ~(<<m, n>> \in less)
  <2> HIDE DEF less
  <2> QED BY <1>1, WFMin
<1>3. \A m \in T : ~(m < n)
  BY <1>2
<1> QED BY <1>3

-----------------------------------------------------------------------------
(* Types and owners of rows.                                               *)

\* A session at work runs a transaction of Kinds on a cart, or the job.
AtWork ==
    \A p \in Sessions : phase[p] # "idle" =>
        /\ kind[p] \in Kinds
        /\ \/ kind[p] \in {"reserve", "confirm", "keep"} /\ cart[p] \in Checkouts
           \/ kind[p] = "expire" /\ phase[p] # "checkout"

HoldsTyped == hold \in [Checkouts -> [Subjects -> HoldStatus]]

TypeInv == LockTypeOK /\ AtWork /\ HoldsTyped

\* What a session wants is a row of the database.
LEMMA WantedRows ==
    ASSUME TypeInv, NEW p \in Sessions
    PROVE  Wanted(p) \subseteq Row
<1> USE DEF TypeInv
<1>1. CASE phase[p] = "idle"
  BY <1>1 DEF Wanted
<1>2. CASE phase[p] = "checkout"
  BY <1>2 DEF Wanted, AtWork, Row
<1>3. CASE phase[p] = "counters"
  <2>1. CountersOf(p) \subseteq Subjects
    <3>1. \A c : Cart(c) \subseteq Subjects
      BY CartAssumption DEF Cart
    <3>2. kind[p] = "expire" => \A h \in batch[p] : h[2] \in Subjects
      BY DEF LockTypeOK
    <3> QED BY <1>3, <3>1, <3>2 DEF CountersOf, AtWork
  <2>2. Wanted(p) \subseteq {<<"counter", s>> : s \in CountersOf(p)}
    BY <1>3 DEF Wanted
  <2> QED BY <2>1, <2>2 DEF Row
<1>4. CASE phase[p] = "rows"
  <2>1. LastRows(p) \subseteq Row
    <3>1. CASE kind[p] = "reserve"
      BY <3>1 DEF LastRows
    <3>2. CASE kind[p] \in {"confirm", "keep"}
      <4>1. cart[p] \in Checkouts /\ Cart(cart[p]) \subseteq Subjects
        BY <1>4, <3>2, CartAssumption DEF AtWork, Cart
      <4>2. LastRows(p) = {<<"hold", cart[p], s>> : s \in Cart(cart[p])}
        BY <3>2 DEF LastRows
      <4> QED BY <4>1, <4>2 DEF Row
    <3>3. CASE kind[p] = "expire"
      <4>1. \A h \in batch[p] : h[1] \in Checkouts
        BY DEF LockTypeOK
      <4>2. \A r \in LastRows(p) : \E c \in Checkouts : r = <<"checkout", c>>
        BY <3>3, <4>1 DEF LastRows
      <4> QED BY <4>2 DEF Row
    <3> QED BY <1>4, <3>1, <3>2, <3>3 DEF AtWork
  <2> QED BY <1>4, <2>1 DEF Wanted
<1> QED BY <1>1, <1>2, <1>3, <1>4 DEF LockTypeOK

\* A row is taken by a session at work, and from nobody.
LEMMA TakeKeeps ==
    ASSUME TypeInv, NEW p \in Sessions, phase[p] # "idle", NEW r, Take(p, r)
    PROVE  /\ owns' \in [Sessions -> SUBSET Row]
           /\ \A a, b \in Sessions : a # b => owns'[a] \cap owns'[b] = {}
           /\ \A q \in Sessions : phase[q] = "idle" => owns'[q] = {}
<1>1. r \in Row
  BY WantedRows DEF Take
<1>2. \A q \in Sessions : owns'[q] = IF q = p THEN owns[p] \cup {r} ELSE owns[q]
  BY DEF TypeInv, LockTypeOK, Take
<1>3. \A q \in Sessions : r \notin owns[q]
  BY DEF Take, Free
<1> QED BY <1>1, <1>2, <1>3 DEF TypeInv, LockTypeOK, Take

\* A session that ends forgets its rows.
LEMMA EndKeeps ==
    ASSUME TypeInv, NEW p \in Sessions, End(p), HoldsTyped'
    PROVE  TypeInv'
<1> USE DEF TypeInv
<1>1. \A q \in Sessions : owns'[q] = IF q = p THEN {} ELSE owns[q]
  BY DEF LockTypeOK, End
<1>2. \A q \in Sessions : phase'[q] = IF q = p THEN "idle" ELSE phase[q]
  BY DEF LockTypeOK, End
<1>3. LockTypeOK'
  <2>1. \A a, b \in Sessions : a # b => owns'[a] \cap owns'[b] = {}
    BY <1>1 DEF LockTypeOK
  <2>2. \A q \in Sessions : phase'[q] = "idle" => owns'[q] = {}
    BY <1>1, <1>2 DEF LockTypeOK
  <2>3. /\ owns' \in [Sessions -> SUBSET Row]
        /\ phase' \in [Sessions -> {"idle", "checkout", "counters", "rows"}]
        /\ kind' \in [Sessions -> AllKinds \cup {"none"}]
        /\ cart' \in [Sessions -> Checkouts \cup {NoCart}]
        /\ honours' \in [Sessions -> BOOLEAN]
        /\ batch' \in [Sessions -> SUBSET (Checkouts \X Subjects)]
    BY DEF LockTypeOK, End
  <2>4. readHold' \in [Sessions -> [Subjects -> HoldStatus]]
    BY DEF LockTypeOK, End, NoHolds, HoldStatus
  <2> QED BY <2>1, <2>2, <2>3, <2>4 DEF LockTypeOK
<1>4. AtWork'
  BY <1>2 DEF AtWork, End, LockTypeOK
<1> QED BY <1>3, <1>4

\* Every transaction leaves hold rows in one of their states.
LEMMA WritesKeepHolds ==
    ASSUME HoldsTyped, NEW p \in Sessions, Commit(p)
    PROVE  HoldsTyped'
<1>1. \A c, S, st : st \in HoldStatus => SetHolds(c, S, st) \in [Checkouts -> [Subjects -> HoldStatus]]
  BY DEF HoldsTyped, SetHolds
<1>2. CASE WriteReserve(cart[p])
  BY <1>1, <1>2 DEF WriteReserve, HoldsTyped, HoldStatus
<1>3. CASE WriteConfirm(cart[p])
  BY <1>1, <1>3 DEF WriteConfirm, HoldsTyped, HoldStatus
<1>4. CASE WriteKeep(cart[p], CountersOf(p))
  BY <1>1, <1>4 DEF WriteKeep, HoldsTyped, HoldStatus
<1>5. CASE WriteExpire(batch[p], LastRows(p))
  BY <1>5 DEF WriteExpire, HoldsTyped, HoldStatus
<1> QED BY <1>2, <1>3, <1>4, <1>5 DEF Commit

LEMMA BeginKeeps ==
    ASSUME TypeInv, NEW p \in Sessions,
           \/ \E k \in AllKinds, c \in Checkouts, h \in BOOLEAN : BeginCart(p, k, c, h)
           \/ \E B \in SUBSET DueHolds : BeginJob(p, B)
    PROVE  TypeInv'
<1> USE DEF TypeInv
<1>1. ASSUME NEW k \in AllKinds, NEW c \in Checkouts, NEW h \in BOOLEAN, BeginCart(p, k, c, h)
      PROVE  TypeInv'
  <2>1. \A q \in Sessions : phase'[q] = IF q = p THEN "checkout" ELSE phase[q]
    BY <1>1 DEF LockTypeOK, BeginCart
  <2>2. LockTypeOK'
    BY <1>1, <2>1 DEF LockTypeOK, BeginCart
  <2>3. AtWork'
    BY <1>1, <2>1 DEF LockTypeOK, AtWork, BeginCart, AllKinds
  <2> QED BY <1>1, <2>2, <2>3 DEF BeginCart, vars, HoldsTyped
<1>2. ASSUME NEW B \in SUBSET DueHolds, BeginJob(p, B)
      PROVE  TypeInv'
  <2> DEFINE rows == {<<"hold", h[1], h[2]>> : h \in B}
  <2>1. \A q \in Sessions :
           /\ phase'[q] = IF q = p THEN "counters" ELSE phase[q]
           /\ owns'[q] = IF q = p THEN rows ELSE owns[q]
    BY <1>2 DEF LockTypeOK, BeginJob
  <2>2. B \in SUBSET (Checkouts \X Subjects)
    BY DEF DueHolds
  <2>3. rows \in SUBSET Row
    BY <2>2 DEF Row
  <2>4. \A q \in Sessions : rows \cap owns[q] = {}
    BY <1>2 DEF BeginJob, Free
  <2>5. LockTypeOK'
    <3> HIDE DEF rows
    <3>1. owns' \in [Sessions -> SUBSET Row]
      BY <1>2, <2>3 DEF LockTypeOK, BeginJob, rows
    <3>2. \A a, b \in Sessions : a # b => owns'[a] \cap owns'[b] = {}
      BY <2>1, <2>4 DEF LockTypeOK
    <3>3. \A q \in Sessions : phase'[q] = "idle" => owns'[q] = {}
      BY <2>1 DEF LockTypeOK
    <3>4. /\ phase' \in [Sessions -> {"idle", "checkout", "counters", "rows"}]
          /\ kind' \in [Sessions -> AllKinds \cup {"none"}]
          /\ batch' \in [Sessions -> SUBSET (Checkouts \X Subjects)]
      BY <1>2, <2>2 DEF LockTypeOK, BeginJob, AllKinds
    <3> QED BY <1>2, <3>1, <3>2, <3>3, <3>4 DEF LockTypeOK, BeginJob
  <2>6. AtWork'
    BY <1>2, <2>1 DEF LockTypeOK, AtWork, BeginJob
  <2> QED BY <1>2, <2>5, <2>6 DEF BeginJob, vars, HoldsTyped
<1> QED BY <1>1, <1>2

\* A session at work goes on, with what it owned and one row more, or ends.
LEMMA ProceedKeeps ==
    ASSUME TypeInv, NEW p \in Sessions, Proceed(p)
    PROVE  TypeInv'
<1> USE DEF TypeInv
<1>1. ASSUME UNCHANGED vars, End(p) PROVE TypeInv'
  BY <1>1, EndKeeps DEF vars, HoldsTyped
<1>2. CASE LockCheckout(p) /\ ~End(p)
  <2>1. Take(p, <<"checkout", cart[p]>>) /\ phase[p] = "checkout"
    BY <1>2 DEF LockCheckout
  <2>2. \A q \in Sessions : phase'[q] = IF q = p THEN "counters" ELSE phase[q]
    BY <1>2 DEF LockTypeOK, LockCheckout
  <2>3. readHold' \in [Sessions -> [Subjects -> HoldStatus]]
    BY SMTT(30), <1>2, <2>1 DEF LockTypeOK, HoldsTyped, AtWork, LockCheckout
  <2>4. LockTypeOK'
    BY <1>2, <2>1, <2>2, <2>3, TakeKeeps DEF LockTypeOK, LockCheckout
  <2>5. AtWork'
    BY <1>2, <2>1, <2>2 DEF AtWork, LockCheckout
  <2> QED BY <1>2, <2>4, <2>5 DEF LockCheckout, vars, HoldsTyped
<1>3. CASE LockCounter(p) \/ (LockRow(p) /\ ~End(p))
  <2>1. PICK r : Take(p, r)
    BY <1>3 DEF LockCounter, LockRow
  <2>2. phase[p] # "idle" /\ UNCHANGED <<vars, session>>
    BY <1>3 DEF LockCounter, LockRow
  <2>3. LockTypeOK'
    BY <2>1, <2>2, TakeKeeps DEF LockTypeOK, session
  <2> QED BY <2>2, <2>3 DEF AtWork, HoldsTyped, session, vars
<1>4. CASE CheckCounters(p) /\ ~End(p)
  <2>1. \A q \in Sessions : phase'[q] = IF q = p THEN "rows" ELSE phase[q]
    BY <1>4 DEF LockTypeOK, CheckCounters
  <2>2. LockTypeOK'
    BY <1>4, <2>1 DEF LockTypeOK, CheckCounters
  <2>3. AtWork'
    BY <1>4, <2>1 DEF AtWork, CheckCounters
  <2> QED BY <1>4, <2>2, <2>3 DEF CheckCounters, vars, HoldsTyped
<1>5. CASE Commit(p)
  BY <1>5, EndKeeps, WritesKeepHolds DEF Commit
<1> QED BY <1>1, <1>2, <1>3, <1>4, <1>5 DEF Proceed, LockCheckout, LockRow, CheckCounters

LEMMA TypeInvStep == TypeInv /\ [LockNext]_lockVars => TypeInv'
<1> SUFFICES ASSUME TypeInv, [LockNext]_lockVars PROVE TypeInv'
  OBVIOUS
<1>1. ASSUME NEW p \in Sessions, BreakDeadlock(p) PROVE TypeInv'
  BY <1>1, EndKeeps DEF BreakDeadlock, TypeInv, HoldsTyped, vars
<1>2. CASE OtherStep /\ UNCHANGED <<session, owns>>
  <2>1. UNCHANGED hold
    BY <1>2 DEF OtherStep, StartCheckout, Freeze, QuotePaid, Tick
  <2> QED BY <1>2, <2>1 DEF TypeInv, LockTypeOK, AtWork, HoldsTyped, session
<1>3. CASE UNCHANGED lockVars
  BY <1>3 DEF lockVars, vars, session, TypeInv, LockTypeOK, AtWork, HoldsTyped
<1> QED BY <1>1, <1>2, <1>3, BeginKeeps, ProceedKeeps DEF LockNext

LEMMA TypeInvInit == LockInit => TypeInv
<1> SUFFICES ASSUME LockInit PROVE TypeInv
  OBVIOUS
<1>1. HoldsTyped
  BY DEF LockInit, Init, HoldsTyped, HoldStatus
<1>2. LockTypeOK
  BY DEF LockInit, LockTypeOK, NoHolds, HoldStatus, Row
<1>3. AtWork
  BY DEF LockInit, AtWork
<1> QED BY <1>1, <1>2, <1>3 DEF TypeInv

\* Whatever transactions run, each row has one owner at most, and a session
\* that has ended owns none.
THEOREM LocksTypeCorrect == LockSpec => []LockTypeOK
<1>1. TypeInv => LockTypeOK
  BY DEF TypeInv
<1> QED BY <1>1, TypeInvInit, TypeInvStep, PTL DEF LockSpec

-----------------------------------------------------------------------------
(* Transactions are steps: what a session relies on.                       *)

\* What a reservation knows of its cart once it has locked it, and of the
\* counters once it has locked them.
ReserveReady(p) ==
    LET c == cart[p] IN
    /\ status[c] # "none" /\ expiresAt[c] > now
    /\ phase[p] # "checkout" =>
          /\ <<"checkout", c>> \in owns[p]
          /\ status[c] \in {"open", "awaiting_payment"}
          /\ \A s \in Cart(c) : hold[c][s] = "none"
    /\ phase[p] = "rows" => \A s \in Cart(c) :
          <<"counter", s>> \in owns[p] /\ Fits(s, Quantity(c, s))

\* A confirmation knows its holds only when it has locked them: the job may
\* release them before.
ConfirmReady(p) ==
    LET c == cart[p] IN
    /\ Payable(c)
    /\ phase[p] # "checkout" =>
          /\ <<"checkout", c>> \in owns[p]
          /\ status[c] = "awaiting_payment"
          /\ \A s \in Cart(c) :
                /\ hold[c][s] \in {"active", "released"}
                /\ <<"hold", c, s>> \in owns[p] => hold[c][s] = "active"
    /\ phase[p] = "rows" =>
          /\ honours[p] \/ holdExpires[c] > now
          /\ \A s \in Cart(c) : <<"counter", s>> \in owns[p] /\ held[s] >= Quantity(c, s)

\* A failed payment goes by the holds it read: the job may have released some
\* of the active ones since, and nobody else has touched them.
KeepReady(p) ==
    LET c == cart[p] IN
    /\ Payable(c)
    /\ phase[p] # "checkout" =>
          /\ <<"checkout", c>> \in owns[p]
          /\ status[c] \in {"awaiting_payment", "completed"} /\ ~failedOnce[c]
          /\ \A s \in Cart(c) :
                /\ readHold[p][s] \in {"active", "converted"}
                /\ \/ hold[c][s] = readHold[p][s]
                   \/ readHold[p][s] = "active" /\ hold[c][s] = "released"
    /\ phase[p] = "rows" => \A s \in CountersOf(p) :
          <<"counter", s>> \in owns[p] /\ confirmed[s] >= Quantity(c, s)

\* The job's holds are locked and stay due.
JobReady(p) ==
    /\ batch[p] # {}
    /\ \A h \in batch[p] : h \in DueHolds /\ <<"hold", h[1], h[2]>> \in owns[p]
    /\ phase[p] = "rows" => \A h \in batch[p] :
          /\ <<"counter", h[2]>> \in owns[p]
          /\ held[h[2]] >= Cardinality(BatchSeats(batch[p], h[2]))

Ready(p) ==
    phase[p] # "idle" =>
        /\ kind[p] = "reserve" => ReserveReady(p)
        /\ kind[p] = "confirm" => ConfirmReady(p)
        /\ kind[p] = "keep" => KeepReady(p)
        /\ kind[p] = "expire" => JobReady(p)

\* A cart that payments may act on has had all its hold rows.
QuotedHolds ==
    \A c \in Checkouts : Payable(c) => \A s \in Cart(c) : hold[c][s] # "none"

LockInv == TypeInv /\ SeatsInv /\ QuotedHolds /\ \A p \in Sessions : Ready(p)

\* What other sessions may do to the rows a session owns, or relies on
\* without owning them.
Respects(q) ==
    /\ UNCHANGED <<capacity, now>>
    /\ \A c \in Checkouts :
          /\ status[c] # "none" =>
                status'[c] # "none" /\ (expiresAt[c] > now => expiresAt'[c] > now)
          /\ Payable(c) => Payable(c)'
          /\ <<"checkout", c>> \in owns[q] =>
                /\ status'[c] = status[c] /\ holdExpires'[c] = holdExpires[c]
                /\ failedOnce'[c] = failedOnce[c]
                /\ \A s \in Cart(c) :
                      \/ hold'[c][s] = hold[c][s]
                      \/ hold[c][s] = "active" /\ hold'[c][s] = "released"
    /\ \A s \in Subjects :
          <<"counter", s>> \in owns[q] => held'[s] = held[s] /\ confirmed'[s] = confirmed[s]
    /\ \A c \in Checkouts, s \in Subjects :
          <<"hold", c, s>> \in owns[q] /\ hold[c][s] = "active" =>
              /\ hold'[c][s] = "active"
              /\ <<c, s>> \in DueHolds => <<c, s>> \in DueHolds'

\* A session that does nothing itself and is respected stays ready.
LEMMA RespectedStaysReady ==
    ASSUME TypeInv, NEW q \in Sessions, Ready(q), Respects(q),
           phase'[q] = phase[q], kind'[q] = kind[q], cart'[q] = cart[q],
           honours'[q] = honours[q], readHold'[q] = readHold[q], batch'[q] = batch[q],
           owns'[q] = owns[q]
    PROVE  Ready(q)'
<1> SUFFICES ASSUME phase[q] # "idle" PROVE Ready(q)'
  BY DEF Ready
<1>0. \A c : Cart(c) \subseteq Subjects
  BY CartAssumption DEF Cart
<1>1. CASE kind[q] = "reserve"
  <2>1. ReserveReady(q) /\ cart[q] \in Checkouts
    BY <1>1 DEF Ready, TypeInv, AtWork
  <2>2. ReserveReady(q)'
    <3>1. /\ status'[cart[q]] # "none" /\ expiresAt'[cart[q]] > now'
      BY <2>1 DEF ReserveReady, Respects
    <3>2. ASSUME phase[q] # "checkout"
          PROVE  /\ <<"checkout", cart[q]>> \in owns'[q]
                 /\ status'[cart[q]] \in {"open", "awaiting_payment"}
                 /\ \A s \in Cart(cart[q]) : hold'[cart[q]][s] = "none"
      BY <2>1, <3>2 DEF ReserveReady, Respects
    <3>3. ASSUME phase[q] = "rows", NEW s \in Cart(cart[q])
          PROVE  <<"counter", s>> \in owns'[q] /\ Fits(s, Quantity(cart[q], s))'
      <4>1. <<"counter", s>> \in owns[q] /\ Fits(s, Quantity(cart[q], s))
        BY <2>1, <3>3 DEF ReserveReady
      <4>2. held'[s] = held[s] /\ confirmed'[s] = confirmed[s] /\ capacity' = capacity
        BY <1>0, <3>3, <4>1 DEF Respects
      <4> QED BY <4>1, <4>2 DEF Fits
    <3> QED BY <3>1, <3>2, <3>3 DEF ReserveReady, Cart, Quantity, SeatsIn
  <2> QED BY <1>1, <2>2 DEF Ready
<1>4. CASE kind[q] = "keep"
  <2>1. KeepReady(q) /\ cart[q] \in Checkouts
    BY <1>4 DEF Ready, TypeInv, AtWork
  <2>2. Payable(cart[q])'
    BY <2>1 DEF KeepReady, Respects, Payable
  <2>3. \A s : /\ Cart(cart[q])' = Cart(cart[q]) /\ CountersOf(q)' = CountersOf(q)
               /\ Quantity(cart[q], s)' = Quantity(cart[q], s)
    BY DEF Cart, CountersOf, Quantity, SeatsIn
  <2>4. CountersOf(q) \subseteq Subjects
    BY <1>0, <1>4 DEF CountersOf
  <2>5. ASSUME phase[q] # "checkout"
        PROVE  /\ <<"checkout", cart[q]>> \in owns[q]
               /\ status'[cart[q]] \in {"awaiting_payment", "completed"} /\ ~failedOnce'[cart[q]]
    BY <2>1, <2>5 DEF KeepReady, Respects
  <2>6. ASSUME phase[q] # "checkout", NEW s \in Cart(cart[q])
        PROVE  /\ readHold[q][s] \in {"active", "converted"}
               /\ \/ hold'[cart[q]][s] = readHold[q][s]
                  \/ readHold[q][s] = "active" /\ hold'[cart[q]][s] = "released"
    <3>1. /\ readHold[q][s] \in {"active", "converted"}
          /\ \/ hold[cart[q]][s] = readHold[q][s]
             \/ readHold[q][s] = "active" /\ hold[cart[q]][s] = "released"
      BY <2>1, <2>6 DEF KeepReady
    <3>2. \/ hold'[cart[q]][s] = hold[cart[q]][s]
          \/ hold[cart[q]][s] = "active" /\ hold'[cart[q]][s] = "released"
      BY <2>1, <2>5, <2>6 DEF Respects
    <3> QED BY ONLY <3>1, <3>2
  <2>7. ASSUME phase[q] = "rows", NEW s \in CountersOf(q)
        PROVE  <<"counter", s>> \in owns[q] /\ confirmed'[s] >= Quantity(cart[q], s)
    <3>1. <<"counter", s>> \in owns[q] /\ confirmed[s] >= Quantity(cart[q], s)
      BY <2>1, <2>7 DEF KeepReady
    <3> QED BY <2>4, <2>7, <3>1 DEF Respects
  <2>8. KeepReady(q)'
    <3>1. UNCHANGED <<phase[q], cart[q], readHold[q], owns[q]>>
      OBVIOUS
    <3> QED BY ONLY <2>2, <2>3, <2>5, <2>6, <2>7, <3>1 DEF KeepReady
  <2> QED BY <1>4, <2>8 DEF Ready
<1>2. CASE kind[q] = "confirm"
  <2>1. ConfirmReady(q) /\ cart[q] \in Checkouts
    BY <1>2 DEF Ready, TypeInv, AtWork
  <2>2. ConfirmReady(q)'
    <3>1. Payable(cart[q])'
      BY <2>1 DEF ConfirmReady, Respects, Payable
    <3>2. ASSUME phase[q] # "checkout"
          PROVE  /\ <<"checkout", cart[q]>> \in owns'[q]
                 /\ status'[cart[q]] = "awaiting_payment"
                 /\ holdExpires'[cart[q]] = holdExpires[cart[q]]
      BY <2>1, <3>2 DEF ConfirmReady, Respects
    <3>3. ASSUME phase[q] # "checkout", NEW s \in Cart(cart[q])
          PROVE  /\ hold'[cart[q]][s] \in {"active", "released"}
                 /\ <<"hold", cart[q], s>> \in owns'[q] => hold'[cart[q]][s] = "active"
      <4>1. /\ hold[cart[q]][s] \in {"active", "released"}
            /\ <<"hold", cart[q], s>> \in owns[q] => hold[cart[q]][s] = "active"
            /\ <<"checkout", cart[q]>> \in owns[q]
        BY <2>1, <3>3 DEF ConfirmReady
      <4>2. hold'[cart[q]][s] \in {"active", "released"}
        BY <2>1, <4>1 DEF Respects
      <4>3. <<"hold", cart[q], s>> \in owns[q] => hold'[cart[q]][s] = "active"
        BY <1>0, <2>1, <3>3, <4>1 DEF Respects
      <4> QED BY <4>1, <4>2, <4>3
    <3>4. ASSUME phase[q] = "rows", NEW s \in Cart(cart[q])
          PROVE  <<"counter", s>> \in owns'[q] /\ held'[s] >= Quantity(cart[q], s)
      <4>1. <<"counter", s>> \in owns[q] /\ held[s] >= Quantity(cart[q], s)
        BY <2>1, <3>4 DEF ConfirmReady
      <4> QED BY <1>0, <3>4, <4>1 DEF Respects
    <3>5. phase[q] = "rows" => honours'[q] \/ holdExpires'[cart[q]] > now'
      <4>1. phase[q] = "rows" => honours[q] \/ holdExpires[cart[q]] > now
        BY <2>1 DEF ConfirmReady
      <4> QED BY <3>2, <4>1 DEF Respects
    <3>6. cart'[q] = cart[q] /\ phase'[q] = phase[q]
      OBVIOUS
    <3>7. \A s : Cart(cart[q])' = Cart(cart[q]) /\ Quantity(cart[q], s)' = Quantity(cart[q], s)
      BY <3>6 DEF Cart, Quantity, SeatsIn
    <3>8. phase'[q] # "checkout" =>
             /\ <<"checkout", cart'[q]>> \in owns'[q]
             /\ status'[cart'[q]] = "awaiting_payment"
             /\ \A s \in Cart(cart[q])' :
                   /\ hold'[cart'[q]][s] \in {"active", "released"}
                   /\ <<"hold", cart'[q], s>> \in owns'[q] => hold'[cart'[q]][s] = "active"
      BY ONLY <3>2, <3>3, <3>6, <3>7
    <3>9. phase'[q] = "rows" =>
             /\ honours'[q] \/ holdExpires'[cart'[q]] > now'
             /\ \A s \in Cart(cart[q])' :
                   <<"counter", s>> \in owns'[q] /\ held'[s] >= Quantity(cart[q], s)'
      BY ONLY <3>4, <3>5, <3>6, <3>7
    <3> QED BY ONLY <3>1, <3>8, <3>9 DEF ConfirmReady
  <2> QED BY <1>2, <2>2 DEF Ready
<1>3. CASE kind[q] = "expire"
  <2>1. JobReady(q) /\ batch[q] \in SUBSET (Checkouts \X Subjects)
    BY <1>3 DEF Ready, TypeInv, LockTypeOK
  <2>2. ASSUME NEW h \in batch[q]
        PROVE  /\ h \in DueHolds' /\ <<"hold", h[1], h[2]>> \in owns'[q]
               /\ phase[q] = "rows" =>
                     /\ <<"counter", h[2]>> \in owns'[q]
                     /\ held'[h[2]] >= Cardinality(BatchSeats(batch[q], h[2]))
    <3>1. h = <<h[1], h[2]>> /\ h[1] \in Checkouts /\ h[2] \in Subjects
      BY <2>1
    <3>2. h \in DueHolds /\ <<"hold", h[1], h[2]>> \in owns[q]
      BY <2>1 DEF JobReady
    <3>3. h \in DueHolds'
      <4>1. hold[h[1]][h[2]] = "active"
        BY <3>2 DEF DueHolds
      <4> QED BY <3>1, <3>2, <4>1 DEF Respects
    <3>4. phase[q] = "rows" =>
             /\ <<"counter", h[2]>> \in owns[q]
             /\ held[h[2]] >= Cardinality(BatchSeats(batch[q], h[2]))
      BY <2>1 DEF JobReady
    <3>5. phase[q] = "rows" => held'[h[2]] = held[h[2]]
      BY <3>1, <3>4 DEF Respects
    <3> QED BY <3>2, <3>3, <3>4, <3>5
  <2>3. JobReady(q)'
    BY <2>1, <2>2 DEF JobReady, BatchSeats
  <2> QED BY <1>3, <2>3 DEF Ready
<1> QED BY <1>1, <1>2, <1>3, <1>4 DEF Ready

\* Reading and locking write nothing.
LEMMA NothingWritten ==
    ASSUME UNCHANGED vars, NEW q \in Sessions
    PROVE  Respects(q)
BY DEF vars, counters, checkout, Respects, Payable, DueHolds, Cart

\* A session changes no other session.
Leaves(p) ==
    \A q \in Sessions \ {p} :
        /\ phase'[q] = phase[q] /\ kind'[q] = kind[q] /\ cart'[q] = cart[q]
        /\ honours'[q] = honours[q] /\ readHold'[q] = readHold[q]
        /\ batch'[q] = batch[q] /\ owns'[q] = owns[q]

LEMMA SessionLeavesOthers ==
    ASSUME TypeInv, NEW p \in Sessions,
           \/ \E k \in AllKinds, c \in Checkouts, h \in BOOLEAN : BeginCart(p, k, c, h)
           \/ \E B \in SUBSET DueHolds : BeginJob(p, B)
           \/ Proceed(p)
           \/ End(p)
    PROVE  Leaves(p)
<1> USE DEF TypeInv, LockTypeOK, Leaves
<1>1. CASE End(p)
  BY <1>1 DEF End
<1>2. ASSUME NEW k \in AllKinds, NEW c \in Checkouts, NEW h \in BOOLEAN, BeginCart(p, k, c, h)
      PROVE  Leaves(p)
  BY <1>2 DEF BeginCart
<1>3. ASSUME NEW B \in SUBSET DueHolds, BeginJob(p, B) PROVE Leaves(p)
  BY <1>3 DEF BeginJob
<1>4. CASE Proceed(p) /\ ~End(p)
  <2>1. CASE LockCheckout(p)
    BY <1>4, <2>1 DEF LockCheckout, Take
  <2>2. CASE LockCounter(p) \/ LockRow(p)
    BY <1>4, <2>2 DEF LockCounter, LockRow, Take, session
  <2>3. CASE CheckCounters(p)
    BY <1>4, <2>3 DEF CheckCounters
  <2> QED BY <1>4, <2>1, <2>2, <2>3 DEF Proceed, Commit
<1> QED BY <1>1, <1>2, <1>3, <1>4

\* A session that wants no counter any more owns them all.
LEMMA CountersOwned ==
    ASSUME TypeInv, NEW p \in Sessions, phase[p] = "counters", Wanted(p) = {},
           NEW s \in CountersOf(p)
    PROVE  <<"counter", s>> \in owns[p]
<1> DEFINE missing == {t \in CountersOf(p) : <<"counter", t>> \notin owns[p]}
           numbers == {SubjectNo[t] : t \in missing}
<1>1. CountersOf(p) \subseteq Subjects
  <2>1. \A c : Cart(c) \subseteq Subjects
    BY CartAssumption DEF Cart
  <2>2. kind[p] = "expire" => \A h \in batch[p] : h[2] \in Subjects
    BY DEF TypeInv, LockTypeOK
  <2> QED BY <2>1, <2>2 DEF CountersOf, TypeInv, AtWork
<1>2. ~\E t \in missing : \A u \in missing : SubjectNo[t] <= SubjectNo[u]
  BY DEF Wanted
<1>3. numbers \in SUBSET Nat
  BY <1>1, SessionAssumption
<1>4. numbers = {}
  <2> SUFFICES ASSUME numbers # {} PROVE FALSE
    OBVIOUS
  <2>1. PICK n \in numbers : \A m \in numbers : n <= m
    <3> HIDE DEF numbers
    <3> QED BY <1>3, NatMinimum
  <2> QED BY <1>2, <2>1
<1> QED BY <1>4

-----------------------------------------------------------------------------
(* What a session does itself.                                             *)

LEMMA BeginReady ==
    ASSUME LockInv, NEW p \in Sessions,
           \/ \E k \in AllKinds, c \in Checkouts, h \in BOOLEAN : BeginCart(p, k, c, h)
           \/ \E B \in SUBSET DueHolds : BeginJob(p, B)
    PROVE  Ready(p)'
<1> USE DEF LockInv, TypeInv, LockTypeOK
<1>1. ASSUME NEW k \in AllKinds, NEW c \in Checkouts, NEW h \in BOOLEAN, BeginCart(p, k, c, h)
      PROVE  Ready(p)'
  <2>1. phase'[p] = "checkout" /\ kind'[p] = k /\ cart'[p] = c /\ k # "expire"
    BY <1>1 DEF BeginCart
  <2>2. k = "reserve" => status'[c] # "none" /\ expiresAt'[c] > now'
    BY <1>1 DEF BeginCart, vars, checkout
  <2>3. k \in {"confirm", "keep"} => registration'[c] \in {"pending_payment", "confirmed"}
    BY <1>1 DEF BeginCart, vars, Payable
  <2> QED BY ONLY <2>1, <2>2, <2>3 DEF Ready, ReserveReady, ConfirmReady, KeepReady, Payable
<1>2. ASSUME NEW B \in SUBSET DueHolds, BeginJob(p, B)
      PROVE  Ready(p)'
  <2>1. /\ phase'[p] = "counters" /\ kind'[p] = "expire" /\ batch'[p] = B /\ B # {}
        /\ owns'[p] = {<<"hold", h[1], h[2]>> : h \in B}
    BY <1>2 DEF BeginJob
  <2>2. DueHolds' = DueHolds
    BY <1>2 DEF BeginJob, vars, checkout, DueHolds, Cart
  <2>3. JobReady(p)'
    BY <2>1, <2>2 DEF JobReady
  <2> QED BY <2>1, <2>3 DEF Ready
<1> QED BY <1>1, <1>2

\* Locking the checkout and reading its holds.
LEMMA CheckoutReady ==
    ASSUME LockInv, NEW p \in Sessions, LockCheckout(p), ~End(p)
    PROVE  Ready(p)'
<1> USE DEF LockInv, TypeInv, LockTypeOK
<1>1. /\ Admitted(p) /\ phase[p] = "checkout" /\ phase'[p] = "counters"
      /\ cart'[p] = cart[p] /\ kind'[p] = kind[p]
      /\ <<"checkout", cart[p]>> \in owns'[p]
      /\ UNCHANGED vars
  BY DEF LockCheckout, Take
<1>2. UNCHANGED <<status, expiresAt, now, hold, registration>>
  BY <1>1 DEF vars, checkout
<1>3. ASSUME kind[p] = "reserve" PROVE ReserveReady(p)'
  <2>1. ReserveReady(p)
    BY <1>1, <1>3 DEF Ready
  <2>2. /\ status[cart[p]] \in {"open", "awaiting_payment"}
        /\ \A s \in Cart(cart[p]) : hold[cart[p]][s] = "none"
    BY <1>1, <1>3 DEF Admitted
  <2> QED BY <1>1, <1>2, <2>1, <2>2 DEF ReserveReady, Cart
<1>4. ASSUME kind[p] = "confirm" PROVE ConfirmReady(p)'
  <2>1. Payable(cart[p])
    BY <1>1, <1>4 DEF Ready, ConfirmReady
  <2>2. /\ status[cart[p]] = "awaiting_payment"
        /\ \A s \in Cart(cart[p]) : hold[cart[p]][s] = "active"
    BY <1>1, <1>4 DEF Admitted, AllActive
  <2> QED BY <1>1, <1>2, <2>1, <2>2 DEF ConfirmReady, Payable, Cart
<1>5. kind[p] # "expire"
  BY <1>1 DEF AtWork
<1>6. ASSUME kind[p] = "keep" PROVE KeepReady(p)'
  <2>1. Payable(cart[p]) /\ cart[p] \in Checkouts
    BY <1>1, <1>6 DEF Ready, KeepReady, AtWork
  <2>2. /\ status[cart[p]] \in {"awaiting_payment", "completed"} /\ ~failedOnce[cart[p]]
        /\ \A s \in Cart(cart[p]) : hold[cart[p]][s] # "released"
    BY <1>1, <1>6 DEF Admitted
  <2>3. \A s \in Cart(cart[p]) : hold[cart[p]][s] \in {"active", "converted"}
    <3>1. Cart(cart[p]) \subseteq Subjects
      BY CartAssumption DEF Cart
    <3> QED BY <2>1, <2>2, <3>1 DEF HoldsTyped, HoldStatus, QuotedHolds
  <2>4. readHold'[p] = hold[cart[p]] /\ UNCHANGED failedOnce
    BY <1>1 DEF LockCheckout, End, vars, checkout
  <2> QED BY <1>1, <1>2, <2>1, <2>2, <2>3, <2>4 DEF KeepReady, Payable, Cart
<1> QED BY <1>1, <1>3, <1>4, <1>5, <1>6 DEF Ready

\* Locking one row more.
LEMMA RowReady ==
    ASSUME LockInv, NEW p \in Sessions, LockCounter(p) \/ (LockRow(p) /\ ~End(p))
    PROVE  Ready(p)'
<1> USE DEF LockInv, TypeInv, LockTypeOK
<1>1. PICK r \in Wanted(p) :
         /\ owns'[p] = owns[p] \cup {r}
         /\ phase[p] = "rows" => ~(kind[p] = "confirm" /\ hold[r[2]][r[3]] = "released")
         /\ phase[p] \in {"counters", "rows"}
         /\ UNCHANGED <<vars, session>>
  BY DEF LockCounter, LockRow, Take
<1>2. UNCHANGED <<status, expiresAt, now, hold, holdExpires, registration, held, confirmed, capacity>>
  BY <1>1 DEF vars, checkout, counters
<1>3. UNCHANGED <<phase, kind, cart, honours, batch>>
  BY <1>1 DEF session
<1>4. ASSUME kind[p] = "reserve" PROVE ReserveReady(p)'
  <2>1. ReserveReady(p)
    BY <1>1, <1>4 DEF Ready
  <2> QED BY <1>1, <1>2, <1>3, <2>1 DEF ReserveReady, Cart, Fits, Quantity, SeatsIn
<1>5. ASSUME kind[p] = "confirm" PROVE ConfirmReady(p)'
  <2>1. ConfirmReady(p)
    BY <1>1, <1>5 DEF Ready
  <2>2. ASSUME NEW s \in Cart(cart[p]), <<"hold", cart[p], s>> \in owns'[p]
        PROVE  hold[cart[p]][s] = "active"
    <3>1. hold[cart[p]][s] \in {"active", "released"}
      BY <1>1, <2>1, <2>2 DEF ConfirmReady
    <3>2. CASE <<"hold", cart[p], s>> \in owns[p]
      BY <1>1, <2>1, <2>2, <3>2 DEF ConfirmReady
    <3>3. CASE phase[p] = "rows" /\ <<"hold", cart[p], s>> = r
      BY <1>1, <1>5, <3>1, <3>3
    <3>4. phase[p] = "counters" => <<"hold", cart[p], s>> # r
      BY <1>1 DEF Wanted
    <3> QED BY <1>1, <2>2, <3>2, <3>3, <3>4
  <2>3. Payable(cart[p])'
    BY <1>2, <1>3, <2>1 DEF ConfirmReady, Payable
  <2>4. \A s : Cart(cart[p])' = Cart(cart[p]) /\ Quantity(cart[p], s)' = Quantity(cart[p], s)
    BY <1>3 DEF Cart, Quantity, SeatsIn
  <2>5. phase'[p] # "checkout" =>
           /\ <<"checkout", cart'[p]>> \in owns'[p]
           /\ status'[cart'[p]] = "awaiting_payment"
           /\ \A s \in Cart(cart[p])' :
                 /\ hold'[cart'[p]][s] \in {"active", "released"}
                 /\ <<"hold", cart'[p], s>> \in owns'[p] => hold'[cart'[p]][s] = "active"
    BY <1>1, <1>2, <1>3, <2>1, <2>2, <2>4 DEF ConfirmReady
  <2>6. phase'[p] = "rows" =>
           /\ honours'[p] \/ holdExpires'[cart'[p]] > now'
           /\ \A s \in Cart(cart[p])' :
                 <<"counter", s>> \in owns'[p] /\ held'[s] >= Quantity(cart[p], s)'
    BY <1>1, <1>2, <1>3, <2>1, <2>4 DEF ConfirmReady
  <2> QED BY ONLY <2>3, <2>5, <2>6 DEF ConfirmReady
<1>6. ASSUME kind[p] = "expire" PROVE JobReady(p)'
  <2>1. JobReady(p)
    BY <1>1, <1>6 DEF Ready
  <2>2. DueHolds' = DueHolds
    BY <1>2 DEF DueHolds, Cart
  <2> QED BY <1>1, <1>2, <1>3, <2>1, <2>2 DEF JobReady, BatchSeats
<1>7. ASSUME kind[p] = "keep" PROVE KeepReady(p)'
  <2>1. KeepReady(p)
    BY <1>1, <1>7 DEF Ready
  <2>2. UNCHANGED <<readHold, failedOnce>>
    BY <1>1 DEF session, vars, checkout
  <2>3. \A s : /\ Cart(cart[p])' = Cart(cart[p]) /\ CountersOf(p)' = CountersOf(p)
               /\ Quantity(cart[p], s)' = Quantity(cart[p], s)
    BY <1>3, <2>2 DEF Cart, CountersOf, Quantity, SeatsIn
  <2> QED BY <1>1, <1>2, <1>3, <2>1, <2>2, <2>3 DEF KeepReady, Payable
<1> QED BY <1>3, <1>4, <1>5, <1>6, <1>7 DEF Ready

\* All counters are locked and allow the transaction.
LEMMA CountersReady ==
    ASSUME LockInv, NEW p \in Sessions, CheckCounters(p), ~End(p)
    PROVE  Ready(p)'
<1> USE DEF LockInv, TypeInv, LockTypeOK
<1>1. /\ CountersAllow(p) /\ phase[p] = "counters" /\ phase'[p] = "rows"
      /\ UNCHANGED <<vars, kind, cart, honours, readHold, batch, owns>>
  BY DEF CheckCounters
<1>2. UNCHANGED <<status, expiresAt, now, hold, holdExpires, registration, held, confirmed, capacity>>
  BY <1>1 DEF vars, checkout, counters
<1>3. \A s \in CountersOf(p) : <<"counter", s>> \in owns[p]
  BY <1>1, CountersOwned DEF CheckCounters
<1>4. ASSUME kind[p] = "reserve" PROVE ReserveReady(p)'
  <2>1. ReserveReady(p)
    BY <1>1, <1>4 DEF Ready
  <2>2. \A s \in Cart(cart[p]) : <<"counter", s>> \in owns[p] /\ Fits(s, Quantity(cart[p], s))
    BY <1>1, <1>3, <1>4 DEF CountersAllow, CountersOf
  <2> QED BY <1>1, <1>2, <2>1, <2>2 DEF ReserveReady, Cart, Fits, Quantity, SeatsIn
<1>5. ASSUME kind[p] = "confirm" PROVE ConfirmReady(p)'
  <2>1. ConfirmReady(p)
    BY <1>1, <1>5 DEF Ready
  <2>2. /\ honours[p] \/ holdExpires[cart[p]] > now
        /\ \A s \in Cart(cart[p]) : <<"counter", s>> \in owns[p] /\ held[s] >= Quantity(cart[p], s)
    BY <1>1, <1>3, <1>5 DEF CountersAllow, CountersOf
  <2> QED BY ZenonT(60), <1>1, <1>2, <2>1, <2>2
             DEF ConfirmReady, Payable, Cart, Quantity, SeatsIn
<1>6. ASSUME kind[p] = "expire" PROVE JobReady(p)'
  <2>1. JobReady(p)
    BY <1>1, <1>6 DEF Ready
  <2>2. DueHolds' = DueHolds
    BY <1>2 DEF DueHolds, Cart
  <2>3. \A h \in batch[p] : h[2] \in Subjects /\ h[2] \in CountersOf(p)
    BY <1>6 DEF CountersOf
  <2>4. \A s \in Subjects : held[s] >= Cardinality(BatchSeats(batch[p], s))
    BY <1>1, <1>6 DEF CountersAllow
  <2> QED BY <1>1, <1>2, <1>3, <2>1, <2>2, <2>3, <2>4 DEF JobReady, BatchSeats
<1>7. ASSUME kind[p] = "keep" PROVE KeepReady(p)'
  <2>1. KeepReady(p)
    BY <1>1, <1>7 DEF Ready
  <2>2. \A s \in CountersOf(p) : <<"counter", s>> \in owns[p] /\ confirmed[s] >= Quantity(cart[p], s)
    BY <1>1, <1>3, <1>7 DEF CountersAllow
  <2>3. UNCHANGED failedOnce
    BY <1>1 DEF vars, checkout
  <2>4. \A s : /\ Cart(cart[p])' = Cart(cart[p]) /\ CountersOf(p)' = CountersOf(p)
               /\ Quantity(cart[p], s)' = Quantity(cart[p], s)
    BY <1>1 DEF Cart, CountersOf, Quantity, SeatsIn
  <2> QED BY <1>1, <1>2, <2>1, <2>2, <2>3, <2>4 DEF KeepReady, Payable
<1> QED BY <1>1, <1>4, <1>5, <1>6, <1>7 DEF Ready

-----------------------------------------------------------------------------
(* Commits.                                                                *)

\* A confirmation that commits owns all its holds, which are therefore active.
LEMMA ConfirmOwnsHolds ==
    ASSUME LockInv, NEW p \in Sessions, Commit(p), kind[p] = "confirm"
    PROVE  /\ cart[p] \in Checkouts
           /\ \A s \in Cart(cart[p]) :
                 <<"hold", cart[p], s>> \in owns[p] /\ hold[cart[p]][s] = "active"
<1>1. phase[p] = "rows" /\ Wanted(p) = {}
  BY DEF Commit
<1>2. LastRows(p) = {<<"hold", cart[p], s>> : s \in Cart(cart[p])}
  BY DEF LastRows
<1>3. LastRows(p) \subseteq owns[p]
  BY <1>1 DEF Wanted
<1>4. \A s \in Cart(cart[p]) : <<"hold", cart[p], s>> \in owns[p]
  BY <1>2, <1>3
<1>5. ConfirmReady(p) /\ cart[p] \in Checkouts
  BY <1>1 DEF LockInv, Ready, TypeInv, AtWork
<1> QED BY <1>1, <1>4, <1>5 DEF ConfirmReady

\* The seats a batch releases are in the subjects whose counters it locked.
LEMMA BatchInCounters ==
    ASSUME LockInv, NEW p \in Sessions, phase[p] = "rows", kind[p] = "expire"
    PROVE  \A s \in Subjects :
              \/ \E h \in batch[p] : h[2] = s
              \/ Cardinality(BatchSeats(batch[p], s)) = 0
<1> SUFFICES ASSUME NEW s \in Subjects, ~\E h \in batch[p] : h[2] = s
             PROVE  Cardinality(BatchSeats(batch[p], s)) = 0
  OBVIOUS
<1>1. BatchSeats(batch[p], s) = {}
  BY DEF BatchSeats
<1> QED BY <1>1, FS_EmptySet

\* A failed payment that commits owns its cart, its holds and the counters of
\* those it read as converted.  Its holds are as it read them, all active or
\* all converted, unless the job released some of the active ones.
LEMMA KeepOwnsCart ==
    ASSUME LockInv, NEW p \in Sessions, Commit(p), kind[p] = "keep"
    PROVE  LET c == cart[p] IN
           /\ "keep" \in Kinds /\ c \in Checkouts /\ Payable(c) /\ WriteKeep(c, CountersOf(p))
           /\ status[c] \in {"awaiting_payment", "completed"} /\ ~failedOnce[c]
           /\ CountersOf(p) = {s \in Cart(c) : hold[c][s] = "converted"}
           /\ <<"checkout", c>> \in owns[p]
           /\ \A s \in Cart(c) :
                 /\ <<"hold", c, s>> \in owns[p]
                 /\ hold[c][s] \in {"active", "converted", "released"}
           /\ \A s \in CountersOf(p) :
                 <<"counter", s>> \in owns[p] /\ confirmed[s] >= Quantity(c, s)
<1> DEFINE c == cart[p]
<1>1. phase[p] = "rows" /\ Wanted(p) = {} /\ WriteKeep(c, CountersOf(p))
  BY DEF Commit
<1>2. KeepReady(p) /\ c \in Checkouts /\ "keep" \in Kinds
  BY <1>1 DEF LockInv, Ready, TypeInv, AtWork
<1>3. \A s \in Cart(c) : <<"hold", c, s>> \in owns[p]
  <2>1. LastRows(p) = {<<"hold", c, s>> : s \in Cart(c)}
    BY DEF LastRows
  <2>2. LastRows(p) \subseteq owns[p]
    BY <1>1 DEF Wanted
  <2> QED BY <2>1, <2>2
<1>4. \A s \in Cart(c) :
         /\ readHold[p][s] \in {"active", "converted"}
         /\ \/ hold[c][s] = readHold[p][s]
            \/ readHold[p][s] = "active" /\ hold[c][s] = "released"
  BY <1>1, <1>2 DEF KeepReady
<1>5. CountersOf(p) = {s \in Cart(c) : hold[c][s] = "converted"}
  <2>1. CountersOf(p) = {s \in Cart(c) : readHold[p][s] = "converted"}
    BY DEF CountersOf
  <2>2. \A s \in Cart(c) : (readHold[p][s] = "converted") <=> (hold[c][s] = "converted")
    BY <1>4
  <2> QED BY ONLY <2>1, <2>2
<1>6. \A s \in Cart(c) : hold[c][s] \in {"active", "converted", "released"}
  BY <1>4
<1>7. /\ Payable(c) /\ <<"checkout", c>> \in owns[p]
      /\ status[c] \in {"awaiting_payment", "completed"} /\ ~failedOnce[c]
      /\ \A s \in CountersOf(p) : <<"counter", s>> \in owns[p] /\ confirmed[s] >= Quantity(c, s)
  BY <1>1, <1>2 DEF KeepReady
<1> QED BY ONLY <1>1, <1>2, <1>3, <1>5, <1>6, <1>7

\* A failed payment some of whose holds were released meanwhile: deadlines and
\* the mark of the failure change, no place does.
LateKeep ==
    /\ "keep" \in Kinds
    /\ KeepAfterRelease
    /\ SeatsInv'
    /\ UNCHANGED <<capacity, hold, registration>>

LEMMA KeepIsLate ==
    ASSUME LockInv, NEW p \in Sessions, Commit(p), kind[p] = "keep",
           NEW s \in Cart(cart[p]), hold[cart[p]][s] = "released"
    PROVE  LateKeep
<1> DEFINE c == cart[p]
<1>1. /\ "keep" \in Kinds /\ c \in Checkouts /\ WriteKeep(c, CountersOf(p))
      /\ status[c] \in {"awaiting_payment", "completed"}
      /\ CountersOf(p) = {q \in Cart(c) : hold[c][q] = "converted"}
      /\ \A q \in Cart(c) : hold[c][q] \in {"active", "converted", "released"}
  BY KeepOwnsCart
<1>2. KeepAfterRelease
  BY <1>1 DEF KeepAfterRelease
<1> HIDE DEF c
<1>3. Cart(c) \subseteq Subjects /\ TypeOK /\ ConfirmedTogether
  BY CartAssumption DEF Cart, LockInv, SeatsInv
<1>4. status[c] = "awaiting_payment" /\ \A q \in Subjects : hold[c][q] # "converted"
  BY <1>1, <1>3 DEF ConfirmedTogether, c
<1>5. CountersOf(p) = {} /\ \A q \in Cart(c) : hold[c][q] \in {"active", "released"}
  BY <1>1, <1>3, <1>4
<1>6. UNCHANGED <<capacity, confirmed, held, createdAt, now>>
  BY <1>1, <1>3, <1>5 DEF WriteKeep, TypeOK
<1>7. UNCHANGED hold
  <2>1. \A q \in Subjects :
           (IF q \in {r \in Cart(c) : hold[c][r] # "released"} THEN "active" ELSE hold[c][q]) = hold[c][q]
    BY <1>3, <1>5
  <2>2. hold' = [hold EXCEPT ![c] = [q \in Subjects |-> hold[c][q]]]
    BY <1>1, <2>1 DEF WriteKeep, SetHolds
  <2> QED BY <1>1, <1>3, <2>2 DEF TypeOK
<1>8. UNCHANGED <<status, registration>>
  <2>1. registration[c] # "confirmed"
    BY <1>1, <1>3, <1>4 DEF ConfirmedTogether
  <2> QED BY <1>1, <1>3, <1>4, <2>1 DEF WriteKeep, TypeOK
<1>9. TypeOK'
  <2>1. now + FailWindow \in Nat
    BY <1>3, TimeAssumption DEF TypeOK
  <2>2. /\ holdExpires' = [holdExpires EXCEPT ![c] = now + FailWindow]
        /\ expiresAt' = [expiresAt EXCEPT ![c] = now + FailWindow]
        /\ failedOnce' = [failedOnce EXCEPT ![c] = TRUE]
    BY <1>1 DEF WriteKeep
  <2>3. /\ holdExpires' \in [Checkouts -> Nat] /\ expiresAt' \in [Checkouts -> Nat]
        /\ failedOnce' \in [Checkouts -> BOOLEAN]
    BY <1>3, <2>1, <2>2 DEF TypeOK
  <2> QED BY <1>3, <1>6, <1>7, <1>8, <2>3 DEF TypeOK
<1>10. Reconciled' /\ NoOversell'
  BY <1>6, <1>7, CountersUntouched DEF counters, LockInv, SeatsInv
<1>11. HoldsBelong' /\ ConfirmedTogether'
  BY <1>3, <1>7, <1>8 DEF HoldsBelong, ConfirmedTogether, LockInv, SeatsInv, Cart
<1> QED BY <1>1, <1>2, <1>6, <1>7, <1>8, <1>9, <1>10, <1>11 DEF LateKeep, SeatsInv

\* Any other failed payment is the failed payment of CheckoutCapacity.
LEMMA KeepIsStep ==
    ASSUME LockInv, NEW p \in Sessions, Commit(p), kind[p] = "keep",
           \A s \in Cart(cart[p]) : hold[cart[p]][s] # "released"
    PROVE  Next
<1> DEFINE c == cart[p]
<1>1. /\ c \in Checkouts /\ Payable(c) /\ WriteKeep(c, CountersOf(p))
      /\ status[c] \in {"awaiting_payment", "completed"} /\ ~failedOnce[c]
      /\ CountersOf(p) = {s \in Cart(c) : hold[c][s] = "converted"}
      /\ \A s \in Cart(c) : hold[c][s] \in {"active", "converted"}
      /\ \A s \in CountersOf(p) : confirmed[s] >= Quantity(c, s)
  BY KeepOwnsCart
<1> HIDE DEF c
<1>2. {s \in Cart(c) : hold[c][s] # "released"} = Cart(c)
  BY <1>1
<1>3. KeepForFailedPayment(c)
  BY <1>1, <1>2 DEF WriteKeep, KeepForFailedPayment
<1> QED BY <1>1, <1>3 DEF Next, CartStep

\* Each transaction commits what CheckoutCapacity does in one step, or is a
\* late failed payment.
LEMMA CommitIsStep ==
    ASSUME LockInv, NEW p \in Sessions, Commit(p)
    PROVE  Next \/ LateKeep
<1>0. phase[p] = "rows" /\ kind[p] \in {"reserve", "confirm", "keep", "expire"}
  BY DEF Commit, LockInv, TypeInv, AtWork
<1>4. CASE kind[p] = "keep"
  BY <1>4, KeepIsLate, KeepIsStep
<1>1. CASE kind[p] = "reserve"
  <2>1. cart[p] \in Checkouts /\ ReserveReady(p) /\ WriteReserve(cart[p])
    BY <1>0, <1>1 DEF Commit, LockInv, TypeInv, AtWork, Ready
  <2>2. Reserve(cart[p])
    BY <1>0, <2>1 DEF ReserveReady, WriteReserve, Reserve
  <2> QED BY <2>1, <2>2 DEF Next, CartStep
<1>2. CASE kind[p] = "confirm"
  <2>1. ConfirmReady(p) /\ WriteConfirm(cart[p])
    BY <1>0, <1>2 DEF Commit, LockInv, Ready
  <2>2. cart[p] \in Checkouts /\ AllActive(cart[p])
    BY <1>2, ConfirmOwnsHolds DEF AllActive
  <2>3. honours[p] \in BOOLEAN /\ Payable(cart[p])
    BY <2>1 DEF LockInv, TypeInv, LockTypeOK, ConfirmReady
  <2>4. ConfirmHolds(cart[p], registration[cart[p]])
    <3>1. \A s \in Cart(cart[p]) : held[s] >= Quantity(cart[p], s)
      BY <1>0, <2>1 DEF ConfirmReady
    <3>2. registration' = [registration EXCEPT ![cart[p]] =
              IF registration[cart[p]] = "pending_payment" THEN "confirmed"
              ELSE registration[cart[p]]]
      BY <2>1, <2>2 DEF WriteConfirm, LockInv, SeatsInv, TypeOK
    <3> QED BY <2>1, <2>2, <3>1, <3>2 DEF WriteConfirm, ConfirmHolds
  <2>5. Confirm(cart[p], honours[p])
    BY <1>0, <2>1, <2>4 DEF ConfirmReady, WriteConfirm, Confirm
  <2> QED BY <2>2, <2>3, <2>5 DEF Next, CartStep
<1>3. CASE kind[p] = "expire"
  <2>1. JobReady(p) /\ WriteExpire(batch[p], LastRows(p))
    BY <1>0, <1>3 DEF Commit, LockInv, Ready
  <2>2. batch[p] \in SUBSET DueHolds /\ batch[p] # {}
    BY <2>1 DEF JobReady
  <2>3. \A s \in Subjects : held[s] >= Cardinality(BatchSeats(batch[p], s))
    <3> SUFFICES ASSUME NEW s \in Subjects
                 PROVE  held[s] >= Cardinality(BatchSeats(batch[p], s))
      OBVIOUS
    <3>1. held[s] \in Nat
      BY DEF LockInv, SeatsInv, TypeOK
    <3>2. CASE \E h \in batch[p] : h[2] = s
      BY <1>0, <2>1, <3>2 DEF JobReady
    <3>3. CASE Cardinality(BatchSeats(batch[p], s)) = 0
      BY <3>1, <3>3
    <3> QED BY <1>0, <1>3, <3>2, <3>3, BatchInCounters
  <2>4. \A c \in Checkouts :
           (<<"checkout", c>> \in LastRows(p)) <=>
               /\ \E s \in Subjects : <<c, s>> \in batch[p]
               /\ status[c] = "open"
               /\ expiresAt[c] <= now
    <3> SUFFICES ASSUME NEW c \in Checkouts
                 PROVE  (c \in {h[1] : h \in batch[p]}) <=> \E s \in Subjects : <<c, s>> \in batch[p]
      BY <1>3 DEF LastRows
    <3>1. \A h \in batch[p] : h = <<h[1], h[2]>> /\ h[2] \in Subjects
      BY <2>2 DEF DueHolds
    <3> QED BY <3>1
  <2>5. ReleaseExpiredHolds(batch[p])
    BY <2>1, <2>2, <2>3, <2>4 DEF WriteExpire, ReleaseExpiredHolds
  <2> QED BY <2>2, <2>5 DEF Next
<1> QED BY <1>0, <1>1, <1>2, <1>3, <1>4

\* A reservation changes a cart that it owns and that has no holds yet, and
\* counters that it owns.
LEMMA ReserveRespects ==
    ASSUME LockInv, NEW p \in Sessions, Commit(p), kind[p] = "reserve",
           NEW q \in Sessions, q # p
    PROVE  Respects(q)
<1> DEFINE c == cart[p]
<1>1. /\ c \in Checkouts /\ <<"checkout", c>> \in owns[p]
      /\ \A s \in Cart(c) : hold[c][s] = "none" /\ <<"counter", s>> \in owns[p]
      /\ WriteReserve(c)
  BY DEF Commit, LockInv, TypeInv, AtWork, Ready, ReserveReady
<1>2. owns[p] \cap owns[q] = {}
  BY DEF LockInv, TypeInv, LockTypeOK
<1> HIDE DEF c
<1>3. UNCHANGED <<capacity, now, status, expiresAt, failedOnce, confirmed, registration>>
  BY <1>1 DEF WriteReserve, checkout
<1>4. \A d \in Checkouts :
         /\ d # c => holdExpires'[d] = holdExpires[d]
         /\ \A s \in Subjects : d # c \/ s \notin Cart(c) => hold'[d][s] = hold[d][s]
  BY <1>1 DEF WriteReserve, SetHolds, LockInv, SeatsInv, TypeOK
<1>5. \A s \in Subjects : <<"counter", s>> \in owns[q] => held'[s] = held[s]
  <2> SUFFICES ASSUME NEW s \in Subjects, <<"counter", s>> \in owns[q]
               PROVE  held'[s] = held[s]
    OBVIOUS
  <2>1. s \notin Cart(c)
    BY <1>1, <1>2
  <2>2. Quantity(c, s) = 0 /\ held[s] \in Nat
    BY <2>1, NothingOutsideCart DEF LockInv, SeatsInv, TypeOK
  <2> QED BY <1>1, <2>2 DEF WriteReserve
<1>6. \A d \in Checkouts, s \in Subjects :
         hold[d][s] = "active" =>
             /\ hold'[d][s] = "active"
             /\ <<d, s>> \in DueHolds => <<d, s>> \in DueHolds'
  <2> SUFFICES ASSUME NEW d \in Checkouts, NEW s \in Subjects, hold[d][s] = "active"
               PROVE  /\ hold'[d][s] = "active"
                      /\ <<d, s>> \in DueHolds => <<d, s>> \in DueHolds'
    OBVIOUS
  <2>1. d # c \/ s \notin Cart(c)
    BY <1>1
  <2>2. hold'[d][s] = "active"
    BY <1>4, <2>1
  <2>3. <<d, s>> \in DueHolds => d # c
    BY <2>1 DEF DueHolds
  <2> QED BY <1>3, <1>4, <2>2, <2>3 DEF DueHolds, Cart
<1>7. \A d \in Checkouts : <<"checkout", d>> \in owns[q] => d # c
  BY <1>1, <1>2
<1>8. ASSUME NEW d \in Checkouts, <<"checkout", d>> \in owns[q]
      PROVE  /\ status'[d] = status[d] /\ holdExpires'[d] = holdExpires[d]
             /\ failedOnce'[d] = failedOnce[d]
             /\ \A s \in Cart(d) : hold'[d][s] = hold[d][s]
  <2>1. Cart(d) \subseteq Subjects
    BY CartAssumption DEF Cart
  <2>2. d # c
    BY <1>7, <1>8
  <2> QED BY <1>3, <1>4, <2>1, <2>2
<1>9. \A d \in Checkouts : Payable(d) => Payable(d)'
  BY <1>3 DEF Payable
<1> QED BY ONLY <1>3, <1>5, <1>6, <1>8, <1>9 DEF Respects

\* A confirmation changes a cart, its holds and counters, and owns them all.
LEMMA ConfirmRespects ==
    ASSUME LockInv, NEW p \in Sessions, Commit(p), kind[p] = "confirm",
           NEW q \in Sessions, q # p
    PROVE  Respects(q)
<1> DEFINE c == cart[p]
<1>1. /\ c \in Checkouts /\ <<"checkout", c>> \in owns[p]
      /\ \A s \in Cart(c) : <<"counter", s>> \in owns[p] /\ <<"hold", c, s>> \in owns[p]
      /\ WriteConfirm(c)
  <2>1. phase[p] = "rows" /\ WriteConfirm(c)
    BY DEF Commit
  <2>2. ConfirmReady(p)
    BY <2>1 DEF LockInv, Ready
  <2> QED BY <2>1, <2>2, ConfirmOwnsHolds DEF ConfirmReady
<1>2. owns[p] \cap owns[q] = {}
  BY DEF LockInv, TypeInv, LockTypeOK
<1> HIDE DEF c
<1>3. UNCHANGED <<capacity, now, expiresAt, failedOnce, holdExpires>>
  BY <1>1 DEF WriteConfirm
<1>4. \A d \in Checkouts :
         /\ status'[d] = IF d = c THEN "completed" ELSE status[d]
         /\ registration'[d] = IF d = c /\ registration[d] = "pending_payment"
                               THEN "confirmed" ELSE registration[d]
         /\ \A s \in Subjects : d # c \/ s \notin Cart(c) => hold'[d][s] = hold[d][s]
  BY <1>1 DEF WriteConfirm, SetHolds, LockInv, SeatsInv, TypeOK
<1>5. \A s \in Subjects :
         <<"counter", s>> \in owns[q] => held'[s] = held[s] /\ confirmed'[s] = confirmed[s]
  <2> SUFFICES ASSUME NEW s \in Subjects, <<"counter", s>> \in owns[q]
               PROVE  held'[s] = held[s] /\ confirmed'[s] = confirmed[s]
    OBVIOUS
  <2>1. s \notin Cart(c)
    BY <1>1, <1>2
  <2>2. Quantity(c, s) = 0 /\ held[s] \in Nat /\ confirmed[s] \in Nat
    BY <2>1, NothingOutsideCart DEF LockInv, SeatsInv, TypeOK
  <2> QED BY <1>1, <2>2 DEF WriteConfirm
<1>6. ASSUME NEW d \in Checkouts, NEW s \in Subjects,
             <<"hold", d, s>> \in owns[q], hold[d][s] = "active"
      PROVE  /\ hold'[d][s] = "active"
             /\ <<d, s>> \in DueHolds => <<d, s>> \in DueHolds'
  <2>1. d # c \/ s \notin Cart(c)
    BY <1>1, <1>2, <1>6
  <2>2. hold'[d][s] = "active"
    BY <1>4, <1>6, <2>1
  <2>3. <<d, s>> \in DueHolds => d # c
    BY <2>1 DEF DueHolds
  <2> QED BY <1>3, <1>4, <2>2, <2>3 DEF DueHolds, Cart
<1>7. ASSUME NEW d \in Checkouts, <<"checkout", d>> \in owns[q]
      PROVE  /\ status'[d] = status[d] /\ holdExpires'[d] = holdExpires[d]
             /\ failedOnce'[d] = failedOnce[d]
             /\ \A s \in Cart(d) : hold'[d][s] = hold[d][s]
  <2>1. Cart(d) \subseteq Subjects
    BY CartAssumption DEF Cart
  <2>2. d # c
    BY <1>1, <1>2, <1>7
  <2> QED BY <1>3, <1>4, <2>1, <2>2
<1>8. \A d \in Checkouts : Payable(d) => Payable(d)'
  BY <1>4 DEF Payable
<1>9. \A d \in Checkouts :
         status[d] # "none" => status'[d] # "none" /\ expiresAt'[d] = expiresAt[d]
  BY <1>3, <1>4
<1> QED BY ONLY <1>3, <1>5, <1>6, <1>7, <1>8, <1>9 DEF Respects

\* A failed payment changes a cart, its holds and the counters of confirmed
\* ones, and owns them all.  Deadlines it moves are later than now.
LEMMA KeepRespects ==
    ASSUME LockInv, NEW p \in Sessions, Commit(p), kind[p] = "keep",
           NEW q \in Sessions, q # p
    PROVE  Respects(q)
<1> DEFINE c == cart[p]
           counted == CountersOf(p)
<1>1. /\ c \in Checkouts /\ <<"checkout", c>> \in owns[p]
      /\ \A s \in Cart(c) : <<"hold", c, s>> \in owns[p]
      /\ \A s \in counted : <<"counter", s>> \in owns[p]
      /\ WriteKeep(c, counted)
  BY KeepOwnsCart
<1>2. owns[p] \cap owns[q] = {}
  BY DEF LockInv, TypeInv, LockTypeOK
<1> HIDE DEF c, counted
<1>3. UNCHANGED <<capacity, now>>
  BY <1>1 DEF WriteKeep
<1>4. /\ \A d \in Checkouts : d # c =>
            /\ status'[d] = status[d] /\ holdExpires'[d] = holdExpires[d]
            /\ expiresAt'[d] = expiresAt[d] /\ failedOnce'[d] = failedOnce[d]
            /\ registration'[d] = registration[d]
      /\ \A d \in Checkouts, s \in Subjects : d # c \/ s \notin Cart(c) => hold'[d][s] = hold[d][s]
      /\ status'[c] = "awaiting_payment" /\ expiresAt'[c] > now
      /\ registration'[c] = IF registration[c] = "confirmed" THEN "pending_payment" ELSE registration[c]
  BY <1>1, TimeAssumption DEF WriteKeep, SetHolds, LockInv, SeatsInv, TypeOK
<1>5. ASSUME NEW s \in Subjects, <<"counter", s>> \in owns[q]
      PROVE  held'[s] = held[s] /\ confirmed'[s] = confirmed[s]
  <2>1. s \notin counted
    BY <1>1, <1>2, <1>5
  <2> QED BY <1>1, <2>1 DEF WriteKeep
<1>6. ASSUME NEW d \in Checkouts, NEW s \in Subjects,
             <<"hold", d, s>> \in owns[q], hold[d][s] = "active"
      PROVE  /\ hold'[d][s] = "active"
             /\ <<d, s>> \in DueHolds => <<d, s>> \in DueHolds'
  <2>1. d # c \/ s \notin Cart(c)
    BY <1>1, <1>2, <1>6
  <2>2. hold'[d][s] = "active"
    BY <1>4, <1>6, <2>1
  <2>3. <<d, s>> \in DueHolds => d # c
    BY <2>1 DEF DueHolds
  <2> QED BY <1>3, <1>4, <2>2, <2>3 DEF DueHolds, Cart
<1>7. ASSUME NEW d \in Checkouts, <<"checkout", d>> \in owns[q]
      PROVE  /\ status'[d] = status[d] /\ holdExpires'[d] = holdExpires[d]
             /\ failedOnce'[d] = failedOnce[d]
             /\ \A s \in Cart(d) : hold'[d][s] = hold[d][s]
  <2>1. Cart(d) \subseteq Subjects
    BY CartAssumption DEF Cart
  <2>2. d # c
    BY <1>1, <1>2, <1>7
  <2> QED BY <1>4, <2>1, <2>2
<1>8. \A d \in Checkouts : Payable(d) => Payable(d)'
  BY <1>4 DEF Payable
<1>9. \A d \in Checkouts : status[d] # "none" =>
         status'[d] # "none" /\ (expiresAt[d] > now => expiresAt'[d] > now)
  BY <1>4
<1> QED BY ONLY <1>3, <1>5, <1>6, <1>7, <1>8, <1>9 DEF Respects

\* The job changes the holds it owns, their counters, and the open checkouts
\* among those of its holds, which it owns at the end; of a checkout of another
\* session it can only release active holds.
LEMMA JobRespects ==
    ASSUME LockInv, NEW p \in Sessions, Commit(p), kind[p] = "expire",
           NEW q \in Sessions, q # p
    PROVE  Respects(q)
<1>1. /\ phase[p] = "rows" /\ LastRows(p) \subseteq owns[p]
      /\ WriteExpire(batch[p], LastRows(p))
  BY DEF Commit, Wanted
<1>2. JobReady(p)
  BY <1>1 DEF LockInv, Ready
<1>3. owns[p] \cap owns[q] = {}
  BY DEF LockInv, TypeInv, LockTypeOK
<1>4. \A c \in Checkouts, s \in Subjects :
         /\ hold'[c][s] = IF <<c, s>> \in batch[p] THEN "released" ELSE hold[c][s]
         /\ <<c, s>> \in batch[p] => hold[c][s] = "active" /\ <<"hold", c, s>> \in owns[p]
  <2>1. \A c \in Checkouts, s \in Subjects :
           hold'[c][s] = IF <<c, s>> \in batch[p] THEN "released" ELSE hold[c][s]
    BY <1>1 DEF WriteExpire
  <2>2. \A c \in Checkouts, s \in Subjects :
           <<c, s>> \in batch[p] => hold[c][s] = "active" /\ <<"hold", c, s>> \in owns[p]
    BY <1>2 DEF JobReady, DueHolds
  <2> QED BY <2>1, <2>2
<1>5. \A c \in Checkouts :
         \/ status'[c] = status[c]
         \/ <<"checkout", c>> \in owns[p] /\ status[c] = "open" /\ status'[c] = "expired"
  <2> SUFFICES ASSUME NEW c \in Checkouts, <<"checkout", c>> \in LastRows(p)
               PROVE  status[c] = "open"
    BY <1>1 DEF WriteExpire
  <2> QED BY DEF LastRows
<1>6. UNCHANGED <<capacity, now, expiresAt, failedOnce, holdExpires, confirmed, registration>>
  BY <1>1 DEF WriteExpire
<1>7. ASSUME NEW s \in Subjects, <<"counter", s>> \in owns[q]
      PROVE  held'[s] = held[s] /\ confirmed'[s] = confirmed[s]
  <2>1. ~\E h \in batch[p] : h[2] = s
    BY <1>1, <1>2, <1>3, <1>7 DEF JobReady
  <2>2. Cardinality(BatchSeats(batch[p], s)) = 0 /\ held[s] \in Nat
    BY <1>1, <2>1, BatchInCounters DEF LockInv, SeatsInv, TypeOK
  <2> QED BY <1>1, <2>2 DEF WriteExpire
<1>8. ASSUME NEW d \in Checkouts, NEW s \in Subjects,
             <<"hold", d, s>> \in owns[q], hold[d][s] = "active"
      PROVE  /\ hold'[d][s] = "active"
             /\ <<d, s>> \in DueHolds => <<d, s>> \in DueHolds'
  <2>1. hold'[d][s] = "active"
    BY <1>3, <1>4, <1>8
  <2>2. status'[d] = status[d] \/ (status[d] = "open" /\ status'[d] = "expired")
    BY <1>5
  <2> QED BY <1>6, <2>1, <2>2 DEF DueHolds, Cart
<1>9. ASSUME NEW d \in Checkouts, <<"checkout", d>> \in owns[q]
      PROVE  /\ status'[d] = status[d] /\ holdExpires'[d] = holdExpires[d]
             /\ failedOnce'[d] = failedOnce[d]
             /\ \A s \in Cart(d) :
                   \/ hold'[d][s] = hold[d][s]
                   \/ hold[d][s] = "active" /\ hold'[d][s] = "released"
  <2>1. Cart(d) \subseteq Subjects
    BY CartAssumption DEF Cart
  <2>2. status'[d] = status[d]
    BY <1>3, <1>5, <1>9
  <2> QED BY <1>4, <1>6, <2>1, <2>2
<1>10. \A d \in Checkouts : Payable(d) => Payable(d)'
  BY <1>6 DEF Payable
<1>11. \A d \in Checkouts :
          status[d] # "none" => status'[d] # "none" /\ expiresAt'[d] = expiresAt[d]
  BY <1>5, <1>6
<1> QED BY ONLY <1>6, <1>7, <1>8, <1>9, <1>10, <1>11 DEF Respects

\* Opening, freezing and quoting a cart needs its checkout row and moves no
\* hold.
LEMMA CartsRespect ==
    ASSUME LockInv, NEW c \in Checkouts, Free(<<"checkout", c>>),
           StartCheckout(c) \/ Freeze(c) \/ QuotePaid(c),
           NEW q \in Sessions
    PROVE  Respects(q)
<1> USE DEF LockInv, SeatsInv, TypeOK
<1>1. UNCHANGED <<capacity, confirmed, held, hold, holdExpires, now>>
  BY DEF StartCheckout, Freeze, QuotePaid, counters
<1>2. <<"checkout", c>> \notin owns[q]
  BY DEF Free
<1>3. \A d \in Checkouts :
         /\ d # c => status'[d] = status[d]
         /\ status[d] # "none" => status'[d] # "none" /\ expiresAt'[d] = expiresAt[d]
         /\ Payable(d) => Payable(d)'
  BY DEF StartCheckout, Freeze, QuotePaid, Quotable, checkout, Payable
<1>4. ASSUME NEW d \in Checkouts, NEW s \in Subjects, <<d, s>> \in DueHolds
      PROVE  <<d, s>> \in DueHolds'
  <2>1. s \in Cart(d) /\ hold[d][s] = "active" /\ holdExpires[d] <= now /\ status[d] # "none"
    BY <1>4 DEF DueHolds
  <2>2. status'[d] = status[d]
    <3>1. CASE StartCheckout(c)
      BY <1>3, <2>1, <3>1 DEF StartCheckout
    <3>2. CASE Freeze(c)
      BY <1>3, <2>1, <3>2 DEF Freeze
    <3>3. CASE QuotePaid(c)
      BY <3>3 DEF QuotePaid, checkout
    <3> QED BY <3>1, <3>2, <3>3
  <2> QED BY <1>1, <1>4, <2>2 DEF DueHolds, Cart
<1>5. \A d \in Checkouts : <<"checkout", d>> \in owns[q] => status'[d] = status[d]
  BY <1>2, <1>3
<1>6. UNCHANGED failedOnce
  BY DEF StartCheckout, Freeze, QuotePaid, checkout
<1> QED BY ONLY <1>1, <1>3, <1>4, <1>5, <1>6 DEF Respects

-----------------------------------------------------------------------------
(* Theorems.                                                               *)

LEMMA LockInvInit == LockInit => LockInv
<1> SUFFICES ASSUME LockInit PROVE LockInv
  OBVIOUS
<1>1. TypeInv
  BY TypeInvInit
<1>2. SeatsInv
  BY InitIInv, IInvParts DEF LockInit
<1>3. QuotedHolds
  BY DEF LockInit, Init, QuotedHolds, Payable
<1>4. \A p \in Sessions : Ready(p)
  BY DEF LockInit, Ready
<1> QED BY <1>1, <1>2, <1>3, <1>4 DEF LockInv

\* A cart is quoted over active holds, and a hold row is never deleted.
LEMMA QuotedHoldsStep ==
    ASSUME TypeOK, QuotedHolds, [Next]_vars
    PROVE  QuotedHolds'
<1>1. \A c \in Checkouts, s \in Subjects : hold[c][s] # "none" => hold'[c][s] # "none"
  <2>1. ASSUME NEW c \in Checkouts, CartStep(c)
        PROVE  \A d \in Checkouts, s \in Subjects : hold[d][s] # "none" => hold'[d][s] # "none"
    <3>1. CASE UNCHANGED hold
      BY <3>1
    <3>2. ASSUME NEW S, NEW st \in HoldStatus \ {"none"}, hold' = SetHolds(c, S, st)
          PROVE  \A d \in Checkouts, s \in Subjects : hold[d][s] # "none" => hold'[d][s] # "none"
      BY <3>2 DEF SetHolds, TypeOK
    <3>3. CASE Reserve(c) \/ KeepForFailedPayment(c)
      <4>1. hold' = SetHolds(c, Cart(c), "active")
        BY <3>3 DEF Reserve, KeepForFailedPayment
      <4> QED BY <3>2, <4>1 DEF HoldStatus
    <3>4. CASE QuoteFree(c) \/ \E honor_ \in BOOLEAN : Confirm(c, honor_)
      <4>1. hold' = SetHolds(c, Cart(c), "converted")
        BY <3>4 DEF QuoteFree, Confirm, ConfirmHolds
      <4> QED BY <3>2, <4>1 DEF HoldStatus
    <3>5. CASE Release(c)
      BY <3>2, <3>5 DEF Release, HoldStatus
    <3>6. UNCHANGED hold \/ Reserve(c) \/ KeepForFailedPayment(c) \/ QuoteFree(c)
             \/ (\E honor_ \in BOOLEAN : Confirm(c, honor_)) \/ Release(c)
      BY <2>1 DEF CartStep, StartCheckout, Extend, Freeze, QuotePaid, QuoteForApproval
    <3> QED BY <3>1, <3>3, <3>4, <3>5, <3>6
  <2>2. ASSUME NEW due \in SUBSET DueHolds, ReleaseExpiredHolds(due)
        PROVE  \A d \in Checkouts, s \in Subjects : hold[d][s] # "none" => hold'[d][s] # "none"
    BY <2>2 DEF ReleaseExpiredHolds
  <2>3. UNCHANGED vars \/ Tick \/ (\E s \in Subjects \ Programs, n \in Capacities : SetCapacity(s, n))
           => UNCHANGED hold
    BY DEF vars, Tick, SetCapacity
  <2> QED BY <2>1, <2>2, <2>3 DEF Next
<1>2. ASSUME NEW c \in Checkouts, Payable(c)', ~Payable(c) PROVE AllActive(c)
  <2>1. ASSUME NEW d \in Checkouts, CartStep(d)
        PROVE  \A e \in Checkouts : registration'[e] # registration[e] =>
                  e = d /\ (Payable(d) \/ AllActive(d) \/ registration'[d] = "pending_approval")
    <3>1. CASE StartCheckout(d) \/ Reserve(d) \/ Extend(d) \/ Freeze(d) \/ Release(d)
      BY <3>1 DEF StartCheckout, Reserve, Extend, Freeze, Release
    <3>2. CASE QuotePaid(d) \/ QuoteFree(d) \/ \E charge \in BOOLEAN : QuoteForApproval(d, charge)
      BY <3>2 DEF QuotePaid, QuoteFree, QuoteForApproval, Quotable, ConfirmHolds, TypeOK
    <3>3. CASE \E honor_ \in BOOLEAN : Payable(d) /\ Confirm(d, honor_)
      BY <3>3 DEF Confirm, ConfirmHolds, TypeOK
    <3>4. CASE Payable(d) /\ KeepForFailedPayment(d)
      BY <3>4 DEF KeepForFailedPayment, TypeOK
    <3> QED BY <2>1, <3>1, <3>2, <3>3, <3>4 DEF CartStep
  <2>2. UNCHANGED registration \/ \E d \in Checkouts : CartStep(d)
    BY DEF Next, ReleaseExpiredHolds, SetCapacity, Tick, vars
  <2>3. registration'[c] # registration[c] /\ registration'[c] # "pending_approval"
    BY <1>2 DEF Payable
  <2> QED BY <1>2, <2>1, <2>2, <2>3
<1>3. ASSUME NEW c \in Checkouts, Payable(c)', NEW s \in Cart(c) PROVE hold'[c][s] # "none"
  <2>1. s \in Subjects
    BY CartAssumption DEF Cart
  <2>2. hold[c][s] # "none"
    BY <1>2, <1>3 DEF QuotedHolds, AllActive
  <2> QED BY <1>1, <2>1, <2>2
<1> QED BY <1>3 DEF QuotedHolds, Cart

\* A step of one session.
LEMMA SessionStep ==
    ASSUME LockInv, NEW p \in Sessions,
           \/ \E k \in AllKinds, c \in Checkouts, h \in BOOLEAN : BeginCart(p, k, c, h)
           \/ \E B \in SUBSET DueHolds : BeginJob(p, B)
           \/ Proceed(p)
           \/ BreakDeadlock(p)
    PROVE  ([Next]_vars \/ LateKeep) /\ \A q \in Sessions : Ready(q)'
<1>1. Leaves(p)
  BY SessionLeavesOthers DEF LockInv, BreakDeadlock
<1>2. UNCHANGED vars \/ Commit(p)
  BY DEF BeginCart, BeginJob, Proceed, LockCheckout, LockCounter, CheckCounters, LockRow, BreakDeadlock
<1>3. [Next]_vars \/ LateKeep
  BY <1>2, CommitIsStep
<1>4. ASSUME NEW q \in Sessions, q # p PROVE Respects(q)
  <2>1. Commit(p) => kind[p] \in {"reserve", "confirm", "keep", "expire"}
    BY DEF Commit
  <2> QED BY <1>2, <1>4, <2>1, NothingWritten, ReserveRespects, ConfirmRespects, KeepRespects, JobRespects
<1>5. ASSUME NEW q \in Sessions, q # p PROVE Ready(q)'
  BY <1>1, <1>4, <1>5, RespectedStaysReady DEF LockInv, Leaves
<1>6. Ready(p)'
  <2>1. CASE End(p)
    BY <2>1 DEF End, Ready, LockInv, TypeInv, LockTypeOK
  <2>2. CASE ~End(p)
    BY <2>2, BeginReady, CheckoutReady, RowReady, CountersReady
       DEF Proceed, Commit, BreakDeadlock
  <2> QED BY <2>1, <2>2
<1> QED BY <1>3, <1>5, <1>6

\* A step of the rest of the system.
LEMMA OtherStepKeeps ==
    ASSUME LockInv, OtherStep, UNCHANGED <<session, owns>>
    PROVE  [Next]_vars /\ \A q \in Sessions : Ready(q)'
<1>1. UNCHANGED <<phase, kind, cart, honours, readHold, batch, owns>>
  BY DEF session
<1>2. CASE Tick /\ \A p \in Sessions : phase[p] = "idle"
  BY <1>1, <1>2 DEF Ready, Next
<1>3. ASSUME NEW c \in Checkouts, Free(<<"checkout", c>>),
             StartCheckout(c) \/ Freeze(c) \/ QuotePaid(c)
      PROVE  Next /\ \A q \in Sessions : Ready(q)'
  <2>1. Next
    BY <1>3 DEF Next, CartStep
  <2>2. ASSUME NEW q \in Sessions PROVE Ready(q)'
    BY <1>1, <1>3, CartsRespect, RespectedStaysReady DEF LockInv
  <2> QED BY <2>1, <2>2
<1> QED BY <1>2, <1>3 DEF OtherStep

LEMMA LockInvStep ==
    LockInv /\ [LockNext]_lockVars => LockInv' /\ ([Next]_vars \/ LateKeep)
<1> SUFFICES ASSUME LockInv, [LockNext]_lockVars PROVE LockInv' /\ ([Next]_vars \/ LateKeep)
  OBVIOUS
<1>1. ([Next]_vars \/ LateKeep) /\ \A q \in Sessions : Ready(q)'
  <2>1. CASE UNCHANGED lockVars
    <3>1. UNCHANGED vars /\ UNCHANGED <<phase, kind, cart, honours, readHold, batch, owns>>
      BY <2>1 DEF lockVars, session
    <3>2. ASSUME NEW q \in Sessions PROVE Ready(q)'
      BY <3>1, NothingWritten, RespectedStaysReady DEF LockInv
    <3> QED BY <3>1, <3>2
  <2> QED BY <2>1, SessionStep, OtherStepKeeps DEF LockNext
<1>2. TypeInv'
  BY TypeInvStep DEF LockInv
<1>3. SeatsInv'
  BY <1>1, SeatsStep DEF LockInv, SeatsKept, LateKeep
<1>4. QuotedHolds'
  <2>1. LateKeep => QuotedHolds'
    BY DEF LateKeep, LockInv, QuotedHolds, Payable, Cart
  <2> QED BY <1>1, <2>1, QuotedHoldsStep DEF LockInv, SeatsInv
<1> QED BY <1>1, <1>2, <1>3, <1>4 DEF LockInv

\* One action per transaction is right: however the statements of reservations,
\* confirmations, failed payments and job batches interleave, what they commit
\* is a step of CheckoutCapacity, or a failed payment that came late and
\* leaves all places and counters as they are.  Cart transactions read their
\* holds before they lock them, yet whatever they rely on when they commit is
\* in rows they own, but for what the job releases.
THEOREM TransactionsAreSteps == LockSpec => CommitsAreSteps
<1>1. LockInv /\ [LockNext]_lockVars => LockInv' /\ ([Next]_vars \/ LateKeep)
  BY LockInvStep
<1>2. [Next]_vars \/ LateKeep => [Next \/ (KeepAfterRelease /\ Reconciled')]_vars
  BY DEF LateKeep, SeatsInv
<1> QED BY <1>1, <1>2, LockInvInit, PTL DEF LockSpec, CommitsAreSteps

\* So statements interleaved under row locks, with any number of sessions,
\* leave counters reconciled, oversell nothing and confirm carts whole.
THEOREM SeatsSafeUnderLocks == LockSpec => [](Reconciled /\ NoOversell /\ ConfirmedTogether)
<1>1. LockInv /\ [LockNext]_lockVars => LockInv'
  BY LockInvStep
<1>2. LockInv => Reconciled /\ NoOversell /\ ConfirmedTogether
  BY DEF LockInv, SeatsInv
<1> QED BY <1>1, <1>2, LockInvInit, PTL DEF LockSpec

\* And they implement the ledger of places: the failed payment that came late
\* does not give back, take or revive a place.
THEOREM LedgerUnderLocks == LockSpec => ImplementsLedger
<1>1. LockInv /\ [LockNext]_lockVars => LockInv' /\ ([Next]_vars \/ LateKeep)
  BY LockInvStep
<1>2. LockInv /\ LockInv' /\ ([Next]_vars \/ LateKeep) => [Ledger!Next]_LedgerView
  <2> SUFFICES ASSUME LockInv, LockInv', [Next]_vars \/ LateKeep PROVE LedgerStep
    BY DEF LedgerStep
  <2>1. CASE LateKeep
    BY <2>1, ViewUnchanged DEF LateKeep, LedgerStep
  <2>2. CASE [Next]_vars
    BY <2>2, LedgerRefined DEF LockInv
  <2> QED BY <2>1, <2>2
<1>3. LockInit => Ledger!Init
  BY LedgerInitially DEF LockInit
<1> QED BY <1>1, <1>2, <1>3, LockInvInit, PTL
        DEF LockSpec, ImplementsLedger, Ledger!Spec, LedgerView

\* The hold rows have the same history as when transactions ran one by one.
THEOREM SeatHistoryUnderLocks == LockSpec => SeatHistory
<1>1. LockInv /\ [LockNext]_lockVars => LockInv' /\ ([Next]_vars \/ LateKeep)
  BY LockInvStep
<1>2. LockInv /\ ([Next]_vars \/ LateKeep) => [SeatStep]_vars
  <2>1. LateKeep => SeatStep
    BY DEF LateKeep, SeatStep
  <2> QED BY <2>1, HistoryStep DEF LockInv, SeatsInv
<1> QED BY <1>1, <1>2, LockInvInit, PTL DEF LockSpec, SeatHistory

\* A cart in payment or open before its deadline has all its places.
PlaceKeptOf(c) ==
    (\/ status[c] = "awaiting_payment" /\ now < holdExpires[c] + Grace
     \/ status[c] = "open" /\ now < holdExpires[c])
        => \A s \in Cart(c) : hold[c][s] # "released"

\* It has them as long as no payment of it has failed, whatever other carts do.
PlaceKeptUnlessFailed == \A c \in Checkouts : failedOnce[c] \/ PlaceKeptOf(c)

LEMMA PlaceKeptStep ==
    ASSUME SeatsInv, [Next]_vars, NEW c \in Checkouts, PlaceKeptOf(c)
    PROVE  PlaceKeptOf(c)'
<1> USE DEF SeatsInv, TypeOK
<1>0. Cart(c) \subseteq Subjects
  BY CartSubjects
<1>1. ASSUME NEW d \in Checkouts, CartStep(d) PROVE PlaceKeptOf(c)'
  <2>1. CASE StartCheckout(d)
    BY <1>0, <2>1 DEF StartCheckout, HoldsBelong, PlaceKeptOf
  <2>2. CASE Reserve(d)
    BY <1>0, <2>2 DEF Reserve, SetHolds, checkout, PlaceKeptOf
  <2>3. CASE Extend(d) \/ Freeze(d)
    BY <2>3 DEF Extend, Freeze, AllActive, PlaceKeptOf
  <2>4. CASE QuotePaid(d)
    BY <2>4 DEF QuotePaid, checkout, PlaceKeptOf
  <2>5. ASSUME NEW charge \in BOOLEAN, QuoteForApproval(d, charge) PROVE PlaceKeptOf(c)'
    BY <2>5 DEF QuoteForApproval, Quotable, AllActive, PlaceKeptOf
  <2>6. ASSUME NEW r, ConfirmHolds(d, r), UNCHANGED <<holdExpires, now>> PROVE PlaceKeptOf(c)'
    BY <1>0, <2>6 DEF ConfirmHolds, SetHolds, PlaceKeptOf
  <2>7. CASE KeepForFailedPayment(d)
    BY <1>0, <2>7 DEF KeepForFailedPayment, SetHolds, PlaceKeptOf
  <2>8. CASE Release(d)
    BY <1>0, <2>8 DEF Release, SetHolds, PlaceKeptOf
  <2> QED BY <1>1, <2>1, <2>2, <2>3, <2>4, <2>5, <2>6, <2>7, <2>8 DEF CartStep, QuoteFree, Confirm
<1>2. ASSUME NEW rows \in SUBSET DueHolds, ReleaseExpiredHolds(rows) PROVE PlaceKeptOf(c)'
  <2>1. /\ \A s \in Subjects : hold'[c][s] = IF <<c, s>> \in rows THEN "released" ELSE hold[c][s]
        /\ status'[c] = status[c] \/ status'[c] = "expired"
        /\ UNCHANGED <<holdExpires, now>>
    BY <1>2 DEF ReleaseExpiredHolds
  <2>2. \A s \in Subjects : <<c, s>> \in rows =>
           /\ holdExpires[c] <= now
           /\ status[c] = "awaiting_payment" => holdExpires[c] + Grace <= now
    BY <1>2 DEF DueHolds
  <2>3. now \in Nat /\ holdExpires[c] \in Nat /\ Grace \in Nat
    BY TimeAssumption
  <2>4. SUFFICES ASSUME \/ status'[c] = "awaiting_payment" /\ now < holdExpires[c] + Grace
                        \/ status'[c] = "open" /\ now < holdExpires[c],
                        NEW s \in Cart(c)
                 PROVE  hold'[c][s] # "released"
    BY <2>1 DEF PlaceKeptOf, Cart
  <2>5. status'[c] = status[c]
    BY <2>1, <2>4
  <2>6. hold[c][s] # "released"
    BY <2>4, <2>5 DEF PlaceKeptOf
  <2>7. <<c, s>> \notin rows
    BY <1>0, <2>2, <2>3, <2>4, <2>5
  <2> QED BY <1>0, <2>1, <2>6, <2>7
<1>3. ASSUME Tick PROVE PlaceKeptOf(c)'
  <2>1. now \in Nat /\ holdExpires[c] \in Nat /\ Grace \in Nat
    BY TimeAssumption
  <2> QED BY <1>3, <2>1 DEF Tick, checkout, PlaceKeptOf
<1>4. ASSUME UNCHANGED <<status, hold, holdExpires, now>> PROVE PlaceKeptOf(c)'
  BY <1>4 DEF PlaceKeptOf
<1> QED BY <1>1, <1>2, <1>3, <1>4 DEF Next, SetCapacity, vars, checkout

LEMMA FailureStays ==
    ASSUME TypeOK, [Next]_vars, NEW c \in Checkouts, failedOnce[c]
    PROVE  failedOnce'[c]
  BY DEF TypeOK, Next, CartStep, StartCheckout, Reserve, Extend, Freeze, QuotePaid, QuoteFree,
     QuoteForApproval, Confirm, ConfirmHolds, KeepForFailedPayment, Release, ReleaseExpiredHolds,
     SetCapacity, Tick, checkout, vars

\* What a transaction gives back is due, whoever else is at work.
GivesBackDue ==
    \A c \in Checkouts, s \in Subjects :
        (hold[c][s] # "released" /\ hold'[c][s] = "released") => <<c, s>> \in DueHolds

LEMMA CommitGivesBackDue ==
    ASSUME LockInv, [LockNext]_lockVars
    PROVE  [GivesBackDue]_vars
<1> USE DEF LockInv, SeatsInv, TypeOK
<1>1. ASSUME NEW p \in Sessions, Commit(p) PROVE GivesBackDue
  <2>1. ASSUME NEW d, NEW S, NEW st \in {"active", "converted"}, hold' = SetHolds(d, S, st)
        PROVE  GivesBackDue
    BY <2>1 DEF SetHolds, GivesBackDue
  <2>2. CASE kind[p] \in {"reserve", "confirm", "keep"}
    BY <1>1, <2>1, <2>2 DEF Commit, WriteReserve, WriteConfirm, WriteKeep
  <2>3. CASE kind[p] = "expire"
    <3>1. hold' = [c \in Checkouts |-> [s \in Subjects |->
                      IF <<c, s>> \in batch[p] THEN "released" ELSE hold[c][s]]]
      BY <1>1, <2>3 DEF Commit, WriteExpire
    <3>2. batch[p] \subseteq DueHolds
      BY <1>1, <2>3 DEF Ready, JobReady, Commit
    <3> QED BY <3>1, <3>2 DEF GivesBackDue
  <2> QED BY <1>1, <2>2, <2>3 DEF Commit
<1>2. ASSUME OtherStep PROVE UNCHANGED hold
  BY <1>2 DEF OtherStep, StartCheckout, Freeze, QuotePaid, Tick
<1>3. ASSUME UNCHANGED hold PROVE GivesBackDue
  BY <1>3 DEF GivesBackDue
<1>4. (\E p \in Sessions : Commit(p)) \/ OtherStep \/ UNCHANGED vars
  BY DEF LockNext, BeginCart, BeginJob, Proceed, LockCheckout, LockCounter, CheckCounters, LockRow,
         BreakDeadlock, lockVars
<1> QED BY <1>1, <1>2, <1>3, <1>4

\* Under row locks the job gives back due holds only, and a cart in payment or
\* open before its deadline has all its places as long as no payment of it has
\* failed: what a late failed payment finds lost, KeepAfterRelease, is all it
\* can lose.
THEOREM PlaceKeptUnderLocks ==
    LockSpec => []PlaceKeptUnlessFailed /\ [][GivesBackDue]_vars
<1>1. LockInv /\ [LockNext]_lockVars => LockInv' /\ ([Next]_vars \/ LateKeep)
  BY LockInvStep
<1>2. LockInv /\ PlaceKeptUnlessFailed /\ ([Next]_vars \/ LateKeep) => PlaceKeptUnlessFailed'
  <2> SUFFICES ASSUME LockInv, PlaceKeptUnlessFailed, [Next]_vars \/ LateKeep, NEW c \in Checkouts,
                      ~failedOnce'[c]
               PROVE  PlaceKeptOf(c)'
    BY DEF PlaceKeptUnlessFailed
  <2>1. CASE [Next]_vars
    BY <2>1, PlaceKeptStep, FailureStays DEF LockInv, SeatsInv, PlaceKeptUnlessFailed
  <2>2. CASE LateKeep
    <3>1. PICK p \in Sessions : WriteKeep(cart[p], CountersOf(p))
      BY <2>2 DEF LateKeep, KeepAfterRelease
    <3>2. cart[p] # c
      BY <3>1 DEF WriteKeep, LockInv, SeatsInv, TypeOK
    <3>3. ~failedOnce[c] /\ status'[c] = status[c] /\ holdExpires'[c] = holdExpires[c]
          /\ hold' = hold /\ now' = now
      BY <2>2, <3>1, <3>2 DEF LateKeep, WriteKeep, LockInv, SeatsInv, TypeOK
    <3> QED BY <3>3 DEF PlaceKeptUnlessFailed, PlaceKeptOf
  <2> QED BY <2>1, <2>2
<1>3. LockInit => PlaceKeptUnlessFailed
  BY InitIInv DEF LockInit, IInv, InFlightKeepsPlace, PlaceKeptUnlessFailed, PlaceKeptOf
<1>4. LockInv /\ [LockNext]_lockVars => [GivesBackDue]_vars
  BY CommitGivesBackDue
<1> QED BY <1>1, <1>2, <1>3, <1>4, LockInvInit, PTL DEF LockSpec
=============================================================================
