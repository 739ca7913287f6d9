-------------------------- MODULE CheckoutCapacity --------------------------
(***************************************************************************)
(* Seat capacity of family checkouts: the rows of capacity_counters,       *)
(* capacity_holds, checkouts and registrations that a cart touches from    *)
(* the moment it is opened until its seats are confirmed or given back.    *)
(*                                                                         *)
(* One action is one committed transaction (withOrg), as if transactions   *)
(* ran one after another.  They lock the checkout row first, except for    *)
(* the hold-expiry job.  Module HoldLocking goes through them lock by lock *)
(* and shows that this is right for reserve, confirm and the job, and that *)
(* keepForFailedPayment racing the job is the one exception.               *)
(*                                                                         *)
(* A cart is the set of seats mapped to it by CheckoutOf; each seat takes  *)
(* one place in its program, its division and its offering (SubjectsOf).   *)
(* The quantity column of a hold is the number of the cart's seats in that *)
(* subject.  Calls that return without writing ('full', 'expired',         *)
(* 'already_reserved') and calls that throw are stuttering steps.          *)
(***************************************************************************)
EXTENDS Integers, FiniteSets

CONSTANTS
    Checkouts,      \* family carts (rows of checkouts)
    Subjects,       \* capacity subjects: programs, divisions, offerings
    Programs,       \* the subjects whose capacity is always NULL
    Seats,          \* participant lines of all carts
    CheckoutOf,     \* the cart a seat belongs to
    SubjectsOf,     \* the program, division and offering a seat is in
    Capacities,     \* capacities staff may configure
    Unlimited,      \* capacity IS NULL
    HoldWindow,     \* 20 minutes, in clock units
    MaxHold,        \* 45 minutes
    ApprovalWindow, \* staff decision window of carts that need approval
    Grace,          \* processingGraceMs, 24 hours
    FailWindow,     \* 72 hours after the first failed payment
    MaxTime         \* bound on the clock

ASSUME CartAssumption ==
    /\ IsFiniteSet(Seats)
    /\ CheckoutOf \in [Seats -> Checkouts]
    /\ SubjectsOf \in [Seats -> SUBSET Subjects]
    /\ \A x \in Seats : SubjectsOf[x] # {}
    /\ \A c \in Checkouts : \E x \in Seats : CheckoutOf[x] = c
    /\ Programs \subseteq Subjects

ASSUME CapacityAssumption ==
    /\ Unlimited \notin Nat
    /\ Capacities \subseteq Nat \cup {Unlimited}

ASSUME TimeAssumption ==
    /\ HoldWindow \in Nat \ {0} /\ MaxHold \in Nat /\ MaxHold >= HoldWindow
    /\ ApprovalWindow \in Nat \ {0}
    /\ Grace \in Nat \ {0}
    /\ FailWindow \in Nat \ {0}
    /\ MaxTime \in Nat

VARIABLES
    capacity,      \* capacity_counters.capacity, per subject
    confirmed,     \* capacity_counters.confirmed
    held,          \* capacity_counters.held
    status,        \* checkouts.status; "none" before the row exists
    createdAt,     \* checkouts.created_at
    expiresAt,     \* checkouts.expires_at
    failedOnce,    \* checkouts.first_payment_failed_at IS NOT NULL
    hold,          \* capacity_holds of a cart, per subject
    holdExpires,   \* capacity_holds.expires_at; every writer sets a cart's holds alike
    registration,  \* registrations.status of a cart's registrations
    now            \* the clock

counters == <<capacity, confirmed, held>>
checkout == <<status, createdAt, expiresAt, failedOnce>>
vars == <<counters, checkout, hold, holdExpires, registration, now>>

CheckoutStatus == {"none", "open", "awaiting_payment", "completed", "expired"}
HoldStatus == {"none", "active", "released", "converted"}
RegistrationStatus == {"none", "pending_approval", "pending_payment", "confirmed"}

-----------------------------------------------------------------------------
(* Carts and quantities.                                                   *)

\* The seats of cart c that take a place in subject s.
SeatsIn(c, s) == {x \in Seats : CheckoutOf[x] = c /\ s \in SubjectsOf[x]}

\* subjectQuantities: one hold per subject, its quantity the number of seats.
Quantity(c, s) == Cardinality(SeatsIn(c, s))

\* The subjects a cart holds places in.
Cart(c) == UNION {SubjectsOf[x] : x \in {y \in Seats : CheckoutOf[y] = c}}

\* Seats whose hold in subject s is in state st.
Occupied(st, s) ==
    {x \in Seats : s \in SubjectsOf[x] /\ hold[CheckoutOf[x]][s] = st}

\* Every hold row of the cart exists and is active: released_at and
\* converted_at are both NULL.
AllActive(c) == \A s \in Cart(c) : hold[c][s] = "active"

\* The hold rows after those of cart c for the subjects in S are set to st.
SetHolds(c, S, st) ==
    [hold EXCEPT ![c] = [s \in Subjects |-> IF s \in S THEN st ELSE hold[c][s]]]

\* holdExpiresAt: 20 minutes after the last activity, 45 after creation.
HoldExpiresAt(created, activity) ==
    IF activity + HoldWindow > created + MaxHold
    THEN created + MaxHold
    ELSE activity + HoldWindow

\* Places can be added: capacity is NULL or confirmed + held + n fits in it.
Fits(s, n) == capacity[s] # Unlimited => confirmed[s] + held[s] + n <= capacity[s]

-----------------------------------------------------------------------------
TypeOK ==
    /\ capacity \in [Subjects -> Nat \cup {Unlimited}]
    /\ confirmed \in [Subjects -> Nat]
    /\ held \in [Subjects -> Nat]
    /\ status \in [Checkouts -> CheckoutStatus]
    /\ createdAt \in [Checkouts -> Nat]
    /\ expiresAt \in [Checkouts -> Nat]
    /\ failedOnce \in [Checkouts -> BOOLEAN]
    /\ hold \in [Checkouts -> [Subjects -> HoldStatus]]
    /\ holdExpires \in [Checkouts -> Nat]
    /\ registration \in [Checkouts -> RegistrationStatus]
    /\ now \in Nat

Init ==
    /\ capacity \in [Subjects -> Capacities \cup {Unlimited}]
    /\ \A s \in Programs : capacity[s] = Unlimited
    /\ \A s \in Subjects \ Programs : capacity[s] \in Capacities
    /\ confirmed = [s \in Subjects |-> 0]
    /\ held = [s \in Subjects |-> 0]
    /\ status = [c \in Checkouts |-> "none"]
    /\ createdAt = [c \in Checkouts |-> 0]
    /\ expiresAt = [c \in Checkouts |-> 0]
    /\ failedOnce = [c \in Checkouts |-> FALSE]
    /\ hold = [c \in Checkouts |-> [s \in Subjects |-> "none"]]
    /\ holdExpires = [c \in Checkouts |-> 0]
    /\ registration = [c \in Checkouts |-> "none"]
    /\ now = 0

-----------------------------------------------------------------------------
(* Opening a cart and holding its seats.                                   *)

\* start, first transaction: insert the checkout row.
StartCheckout(c) ==
    /\ status[c] = "none"
    /\ status' = [status EXCEPT ![c] = "open"]
    /\ createdAt' = [createdAt EXCEPT ![c] = now]
    /\ expiresAt' = [expiresAt EXCEPT ![c] = now + HoldWindow]
    /\ UNCHANGED <<counters, failedOnce, hold, holdExpires, registration, now>>

\* Mutant: subjects without a limit are not reserved.
ReserveLimited(c) ==
    LET limited == {s \in Cart(c) : capacity[s] # Unlimited} IN
    /\ status[c] \in {"open", "awaiting_payment"}
    /\ expiresAt[c] > now
    /\ \A s \in Cart(c) : hold[c][s] = "none"
    /\ \A s \in limited : Fits(s, Quantity(c, s))
    /\ held' = [s \in Subjects |-> IF s \in limited THEN held[s] + Quantity(c, s) ELSE held[s]]
    /\ hold' = SetHolds(c, limited, "active")
    /\ holdExpires' = [holdExpires EXCEPT ![c] = expiresAt[c]]
    /\ UNCHANGED <<capacity, confirmed, checkout, registration, now>>

\* start, second transaction: reserve.  A retry that finds hold rows writes
\* nothing, whatever their state.
Reserve(c) ==
    /\ status[c] \in {"open", "awaiting_payment"}
    /\ expiresAt[c] > now
    /\ \A s \in Cart(c) : hold[c][s] = "none"
    /\ \A s \in Cart(c) : Fits(s, Quantity(c, s))
    /\ held' = [s \in Subjects |-> held[s] + Quantity(c, s)]
    /\ hold' = SetHolds(c, Cart(c), "active")
    /\ holdExpires' = [holdExpires EXCEPT ![c] = expiresAt[c]]
    /\ UNCHANGED <<capacity, confirmed, checkout, registration, now>>

\* extendHold: activity in the cart moves both deadlines.
Extend(c) ==
    LET expiry == HoldExpiresAt(createdAt[c], now) IN
    /\ expiry > now
    /\ status[c] \in {"open", "awaiting_payment"}
    /\ AllActive(c)
    /\ holdExpires[c] > now
    /\ holdExpires' = [holdExpires EXCEPT ![c] = expiry]
    /\ expiresAt' = [expiresAt EXCEPT ![c] = expiry]
    /\ UNCHANGED <<counters, status, createdAt, failedOnce, hold, registration, now>>

\* freeze: prices are frozen only over live holds, and the cart awaits payment.
Freeze(c) ==
    /\ status[c] = "open"
    /\ expiresAt[c] > now
    /\ AllActive(c)
    /\ holdExpires[c] > now
    /\ status' = [status EXCEPT ![c] = "awaiting_payment"]
    /\ UNCHANGED <<counters, createdAt, expiresAt, failedOnce, hold, holdExpires, registration, now>>

-----------------------------------------------------------------------------
(* Confirmation.                                                           *)

\* Mutant: the confirmed places stay counted as held.
ConfirmKeepingHeld(c, registered) ==
    /\ AllActive(c)
    /\ confirmed' = [s \in Subjects |-> confirmed[s] + Quantity(c, s)]
    /\ hold' = SetHolds(c, Cart(c), "converted")
    /\ status' = [status EXCEPT ![c] = "completed"]
    /\ registration' = [registration EXCEPT ![c] =
                            IF registered = "pending_payment" THEN "confirmed" ELSE registered]
    /\ UNCHANGED <<held, createdAt, expiresAt, failedOnce>>

\* confirmInTransaction: held places become confirmed ones, the cart is
\* completed and registrations that awaited payment are confirmed.
ConfirmHolds(c, registered) ==
    /\ AllActive(c)
    /\ \A s \in Cart(c) : held[s] >= Quantity(c, s)
    /\ held' = [s \in Subjects |-> held[s] - Quantity(c, s)]
    /\ confirmed' = [s \in Subjects |-> confirmed[s] + Quantity(c, s)]
    /\ hold' = SetHolds(c, Cart(c), "converted")
    /\ status' = [status EXCEPT ![c] = "completed"]
    /\ registration' = [registration EXCEPT ![c] =
                            IF registered = "pending_payment" THEN "confirmed" ELSE registered]
    /\ UNCHANGED <<createdAt, expiresAt, failedOnce>>

\* Second transaction of quote: the invoice and the registrations.  A cart
\* with nothing to pay is confirmed in the same transaction; a cart that
\* needs approval waits for staff, its hold kept for the decision unless the
\* organization charges at submission.
Quotable(c) ==
    /\ status[c] = "awaiting_payment"
    /\ expiresAt[c] > now
    /\ registration[c] = "none"
    /\ AllActive(c)
    /\ holdExpires[c] > now

QuotePaid(c) ==
    /\ Quotable(c)
    /\ registration' = [registration EXCEPT ![c] = "pending_payment"]
    /\ UNCHANGED <<counters, checkout, hold, holdExpires, now>>

QuoteFree(c) ==
    /\ Quotable(c)
    /\ ConfirmHolds(c, "pending_payment")
    /\ UNCHANGED <<capacity, holdExpires, now>>

QuoteForApproval(c, chargeAtSubmission) ==
    LET expiry == IF chargeAtSubmission THEN holdExpires[c] ELSE now + ApprovalWindow
        due == IF chargeAtSubmission THEN expiresAt[c] ELSE now + ApprovalWindow
    IN
    /\ Quotable(c)
    /\ registration' = [registration EXCEPT ![c] = "pending_approval"]
    /\ holdExpires' = [holdExpires EXCEPT ![c] = expiry]
    /\ expiresAt' = [expiresAt EXCEPT ![c] = due]
    /\ UNCHANGED <<counters, status, createdAt, failedOnce, hold, now>>

\* confirm: refused ('expired') unless every hold is active and either
\* unexpired or honoured for a payment that was processing in time.
Confirm(c, honorProcessingHold) ==
    /\ status[c] = "awaiting_payment"
    /\ honorProcessingHold \/ holdExpires[c] > now
    /\ ConfirmHolds(c, registration[c])
    /\ UNCHANGED <<capacity, holdExpires, now>>

\* Mutant: the places go back but the registrations stay confirmed.
KeepRegistrations(c) ==
    /\ status[c] \in {"awaiting_payment", "completed"}
    /\ ~failedOnce[c]
    /\ \A s \in Cart(c) : hold[c][s] \in {"active", "converted"}
    /\ LET back == {s \in Cart(c) : hold[c][s] = "converted"} IN
       /\ confirmed' = [s \in Subjects |->
              IF s \in back THEN confirmed[s] - Quantity(c, s) ELSE confirmed[s]]
       /\ held' = [s \in Subjects |->
              IF s \in back THEN held[s] + Quantity(c, s) ELSE held[s]]
    /\ hold' = SetHolds(c, Cart(c), "active")
    /\ holdExpires' = [holdExpires EXCEPT ![c] = now + FailWindow]
    /\ status' = [status EXCEPT ![c] = "awaiting_payment"]
    /\ expiresAt' = [expiresAt EXCEPT ![c] = now + FailWindow]
    /\ failedOnce' = [failedOnce EXCEPT ![c] = TRUE]
    /\ UNCHANGED <<capacity, registration, createdAt, now>>

\* keepForFailedPayment: only the first failure of a cart changes anything.
\* Confirmed places go back to held, the family gets 72 hours.
KeepForFailedPayment(c) ==
    /\ status[c] \in {"awaiting_payment", "completed"}
    /\ ~failedOnce[c]
    /\ \A s \in Cart(c) : hold[c][s] \in {"active", "converted"}
    /\ \A s \in Cart(c) : hold[c][s] = "converted" => confirmed[s] >= Quantity(c, s)
    /\ LET back == {s \in Cart(c) : hold[c][s] = "converted"} IN
       /\ confirmed' = [s \in Subjects |->
              IF s \in back THEN confirmed[s] - Quantity(c, s) ELSE confirmed[s]]
       /\ held' = [s \in Subjects |->
              IF s \in back THEN held[s] + Quantity(c, s) ELSE held[s]]
    /\ hold' = SetHolds(c, Cart(c), "active")
    /\ holdExpires' = [holdExpires EXCEPT ![c] = now + FailWindow]
    /\ status' = [status EXCEPT ![c] = "awaiting_payment"]
    /\ expiresAt' = [expiresAt EXCEPT ![c] = now + FailWindow]
    /\ failedOnce' = [failedOnce EXCEPT ![c] = TRUE]
    /\ registration' = [registration EXCEPT ![c] = IF @ = "confirmed" THEN "pending_payment" ELSE @]
    /\ UNCHANGED <<capacity, createdAt, now>>

-----------------------------------------------------------------------------
(* Giving seats back.                                                      *)

\* Mutant: every hold of the cart is given back, released ones again.
ReleaseTwice(c) ==
    /\ status[c] \notin {"none", "completed"}
    /\ \A s \in Cart(c) : hold[c][s] # "none"
    /\ held' = [s \in Subjects |-> held[s] - Quantity(c, s)]
    /\ hold' = SetHolds(c, Cart(c), "released")
    /\ status' = [status EXCEPT ![c] = "expired"]
    /\ UNCHANGED <<capacity, confirmed, createdAt, expiresAt, failedOnce, holdExpires,
                   registration, now>>

\* release: active holds are released and the cart expires.
Release(c) ==
    LET back == {s \in Cart(c) : hold[c][s] = "active"} IN
    /\ status[c] \notin {"none", "completed"}
    /\ \A s \in back : held[s] >= Quantity(c, s)
    /\ held' = [s \in Subjects |-> IF s \in back THEN held[s] - Quantity(c, s) ELSE held[s]]
    /\ hold' = SetHolds(c, back, "released")
    /\ status' = [status EXCEPT ![c] = "expired"]
    /\ UNCHANGED <<capacity, confirmed, createdAt, expiresAt, failedOnce, holdExpires, registration, now>>

\* Mutant: no grace for carts awaiting payment.
DueWithoutGrace ==
    {h \in Checkouts \X Subjects :
        /\ h[2] \in Cart(h[1])
        /\ hold[h[1]][h[2]] = "active"
        /\ holdExpires[h[1]] <= now
        /\ status[h[1]] \in {"open", "expired", "awaiting_payment"}}

\* Mutant: carts awaiting payment are left alone for ever.
DueUnlessInPayment ==
    {h \in Checkouts \X Subjects :
        /\ h[2] \in Cart(h[1])
        /\ hold[h[1]][h[2]] = "active"
        /\ holdExpires[h[1]] <= now
        /\ status[h[1]] \in {"open", "expired"}}

\* Hold rows the hold-expiry job may release: expired, and a cart awaiting
\* payment keeps its holds for a further day.
DueHolds ==
    {h \in Checkouts \X Subjects :
        /\ h[2] \in Cart(h[1])
        /\ hold[h[1]][h[2]] = "active"
        /\ holdExpires[h[1]] <= now
        /\ \/ status[h[1]] \in {"open", "expired"}
           \/ /\ status[h[1]] = "awaiting_payment"
              /\ holdExpires[h[1]] + Grace <= now}

\* Seats released from subject s by a batch of hold rows.
BatchSeats(batch, s) ==
    {x \in Seats : s \in SubjectsOf[x] /\ <<CheckoutOf[x], s>> \in batch}

\* releaseExpiredHolds: one transaction releases a batch of due holds (LIMIT
\* and SKIP LOCKED may leave some of a cart's holds for a later batch) and
\* expires the open carts among them whose deadline has passed.
ReleaseExpiredHolds(batch) ==
    /\ batch # {}
    /\ batch \subseteq DueHolds
    /\ \A s \in Subjects : held[s] >= Cardinality(BatchSeats(batch, s))
    /\ held' = [s \in Subjects |-> held[s] - Cardinality(BatchSeats(batch, s))]
    /\ hold' = [c \in Checkouts |-> [s \in Subjects |->
                   IF <<c, s>> \in batch THEN "released" ELSE hold[c][s]]]
    /\ status' = [c \in Checkouts |->
           IF /\ \E s \in Subjects : <<c, s>> \in batch
              /\ status[c] = "open"
              /\ expiresAt[c] <= now
           THEN "expired"
           ELSE status[c]]
    /\ UNCHANGED <<capacity, confirmed, createdAt, expiresAt, failedOnce, holdExpires, registration, now>>

\* Staff change a division's or an offering's capacity, never below use.
SetCapacity(s, n) ==
    /\ n # Unlimited => confirmed[s] + held[s] <= n
    /\ capacity' = [capacity EXCEPT ![s] = n]
    /\ UNCHANGED <<confirmed, held, checkout, hold, holdExpires, registration, now>>

\* Time passes, up to the bound.
Tick ==
    /\ now < MaxTime
    /\ now' = now + 1
    /\ UNCHANGED <<counters, checkout, hold, holdExpires, registration>>

-----------------------------------------------------------------------------
\* A payment exists only for a quoted cart that no approval blocks
\* (PostgresFrozenChargeReader.load), so only such a cart is ever confirmed
\* or failed by a payment event.
Payable(c) == registration[c] \in {"pending_payment", "confirmed"}

CartStep(c) ==
    \/ StartCheckout(c)
    \/ Reserve(c)
    \/ Extend(c)
    \/ Freeze(c)
    \/ QuotePaid(c)
    \/ QuoteFree(c)
    \/ \E charge \in BOOLEAN : QuoteForApproval(c, charge)
    \/ \E honor \in BOOLEAN : Payable(c) /\ Confirm(c, honor)
    \/ Payable(c) /\ KeepForFailedPayment(c)
    \/ Release(c)

Next ==
    \/ \E c \in Checkouts : CartStep(c)
    \/ \E batch \in SUBSET DueHolds : ReleaseExpiredHolds(batch)
    \/ \E s \in Subjects \ Programs, n \in Capacities : SetCapacity(s, n)
    \/ Tick

Spec == Init /\ [][Next]_vars

\* The clock runs and the job runs every minute (registration/module.ts), so
\* a hold that stays due is released in some batch.
Fairness ==
    /\ WF_vars(Tick)
    /\ WF_vars(\E batch \in SUBSET DueHolds : ReleaseExpiredHolds(batch))

FairSpec == Spec /\ Fairness

-----------------------------------------------------------------------------
(* Properties.                                                             *)

\* The counters are exactly the hold rows: held counts the seats with an
\* active hold and confirmed the seats with a converted one, in every subject
\* and after any interleaving of reservation, confirmation, failed payments,
\* releases and job batches.  'Capacity hold does not reconcile' is never
\* thrown.
Reconciled ==
    \A s \in Subjects :
        /\ held[s] = Cardinality(Occupied("active", s))
        /\ confirmed[s] = Cardinality(Occupied("converted", s))

\* No program, division or offering ever promises more places than it has:
\* the check of migration 0101 is never what stops an oversell.
NoOversell ==
    \A s \in Subjects : capacity[s] # Unlimited => confirmed[s] + held[s] <= capacity[s]

\* Confirmation is all or nothing.  A completed cart has a confirmed place in
\* every subject and confirmed registrations; a confirmed registration or a
\* converted hold belongs to a completed cart.
ConfirmedTogether ==
    \A c \in Checkouts :
        /\ status[c] = "completed" =>
              /\ \A s \in Cart(c) : hold[c][s] = "converted"
              /\ registration[c] = "confirmed"
        /\ (registration[c] = "confirmed" \/ \E s \in Subjects : hold[c][s] = "converted")
              => status[c] = "completed"

\* A cart in payment keeps every place until a day after its hold expires,
\* and an open cart until its hold expires: neither partial job batches nor
\* any other cart takes one away (hold-expiry.ts, "keeps its place").  This is
\* of transactions one after another; KeepAfterRelease of HoldLocking is
\* the interleaving that breaks it.
InFlightKeepsPlace ==
    \A c \in Checkouts :
        (\/ status[c] = "awaiting_payment" /\ now < holdExpires[c] + Grace
         \/ status[c] = "open" /\ now < holdExpires[c])
            => \A s \in Cart(c) : hold[c][s] # "released"

\* A released hold stays released.  A confirmed place leaves its cart only
\* for a hold of the same cart that lasts a whole FailWindow from now, and the
\* cart then awaits payment again.
SeatStep ==
    \A c \in Checkouts, s \in Subjects :
        /\ hold[c][s] = "released" => hold'[c][s] = "released"
        /\ (hold[c][s] = "converted" /\ hold'[c][s] # "converted") =>
              /\ hold'[c][s] = "active"
              /\ holdExpires'[c] >= now + FailWindow
              /\ status'[c] = "awaiting_payment"

\* Whatever the order of payment events, job batches and retries, no step
\* revives a released hold, and none takes a confirmed place away from a
\* family except a failed payment, which leaves it 72 hours to pay (SeatStep).
SeatHistory == [][SeatStep]_vars

\* The last clock value at which the job must still leave a cart's holds.
Deadline(c) == holdExpires[c] + Grace

\* No place is held for ever: an active hold whose deadline lies within the
\* modelled time is released, converted, or given a new deadline beyond it.
HoldsResolve ==
    \A c \in Checkouts, s \in Subjects :
        (hold[c][s] = "active" /\ Deadline(c) <= MaxTime)
            ~> (hold[c][s] # "active" \/ Deadline(c) > MaxTime)

-----------------------------------------------------------------------------
(* The ledger that the counters and hold rows implement.                   *)

\* The places whose hold row is in state st.
PlacesWith(st) ==
    {p \in UNION {{x} \X SubjectsOf[x] : x \in Seats} : hold[CheckoutOf[p[1]]][p[2]] = st}

Ledger == INSTANCE SeatLedger
            WITH heldPlaces <- PlacesWith("active"),
                 takenPlaces <- PlacesWith("converted"),
                 gonePlaces <- PlacesWith("released")

\* Counters, hold rows, deadlines and job batches together are a ledger of
\* places: room is judged right although it is read off counters, carts get
\* and take their places whole, and a place given up never comes back.
ImplementsLedger == Ledger!Spec
=============================================================================
