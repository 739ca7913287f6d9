------------------------ MODULE RegistrationLifecycle ------------------------
(***************************************************************************)
(* What happens to a registration after its cart has been quoted: payment, *)
(* approval by staff, cancellation, transfer to another program, and the   *)
(* waitlist that the freed places go to (registration/lifecycle.ts and the *)
(* reminders job).                                                         *)
(*                                                                         *)
(* One action is one committed transaction.  Every transaction that frees  *)
(* a place ends with advanceWaitlist, so what a transaction writes is      *)
(* computed as a chain of database states: Database is the rows as they    *)
(* are, an operator such as FreeConfirmed returns the rows after it, and   *)
(* Write makes the last one the next state.  A transaction that throws, or *)
(* that a CHECK of the migrations rolls back, is not taken.                *)
(*                                                                         *)
(* The capacity transactions of a cart (CheckoutCapacity) appear with what *)
(* they do to registrations, and time as deadlines that pass.  A person    *)
(* registers in a program through one line; a waitlist entry is the line   *)
(* that an offer puts in a cart of its own.                                *)
(***************************************************************************)
EXTENDS Integers, FiniteSets, FiniteSetsExt

CONSTANTS
    Offerings,        \* registration offerings
    ProgramOf,        \* the program of an offering
    Subjects,         \* capacity subjects: divisions, offerings
    SubjectsOf,       \* the subjects an offering's seats are counted in
    Capacity,         \* capacity_counters.capacity
    RequiresApproval, \* offerings with requires_approval
    Lines,            \* cart lines: a person in an offering
    PersonOf,
    OfferingOf,
    WaitLines,        \* the lines that are waitlist entries
    CartOf,           \* the cart a line is in once it is bought or offered
    AutoMode,         \* waitlistMode is 'auto'
    Givens            \* what a behaviour is given, see given

\* Named and defined at Mishap below.
AllMishaps == {"job", "siblings", "unaccepted", "abandoned", "late_failure", "moved"}

ASSUME LifecycleAssumption ==
    /\ IsFiniteSet(Offerings) /\ IsFiniteSet(Lines)
    /\ SubjectsOf \in [Offerings -> SUBSET Subjects]
    /\ \A o \in Offerings : o \in SubjectsOf[o]
    /\ Capacity \in [Subjects -> Nat]
    /\ RequiresApproval \subseteq Offerings
    /\ WaitLines \subseteq Lines
    /\ OfferingOf \in [Lines -> Offerings]
    /\ \A w \in WaitLines, l \in Lines : CartOf[l] = CartOf[w] => l = w
    /\ AutoMode \in BOOLEAN
    /\ Givens \subseteq [mishaps : SUBSET AllMishaps, lines : SUBSET Lines,
                       destinations : SUBSET Offerings, free : SUBSET BOOLEAN]

Carts == {CartOf[l] : l \in Lines}
WaitCarts == {CartOf[w] : w \in WaitLines}

VARIABLES
    given,      \* what else may go wrong in this behaviour, the lines that are
                \* asked for, the offerings that take transfers, whether
                \* a cart may be free
    confirmed,  \* capacity_counters.confirmed
    held,       \* capacity_counters.held
    cart,       \* checkouts.status
    lines,      \* checkouts.items
    hold,       \* the state of the cart's hold in each subject
    deadline,   \* expires_at of cart and holds: ahead, passed, a day ago
    entry,      \* waitlist_entries.status
    over,       \* offer_expires_at has passed
    position,   \* waitlist_entries.position
    accepted,   \* waitlist_entries.accepted_at IS NOT NULL
    reg,        \* registrations.status of a line in an offering
    invoice,    \* the cart's invoice and the payment for it
    failedOnce  \* checkouts.first_payment_failed_at IS NOT NULL

counts == <<confirmed, held>>
carts == <<cart, lines, hold, deadline>>
waitlist == <<entry, over, position, accepted>>
lifecycleVars == <<given, counts, carts, waitlist, reg, invoice, failedOnce>>

CartStatus == {"none", "open", "awaiting_payment", "completed", "expired"}
\* 'removed' (by staff) is counted as declined, 'withdrawn' (by the family) as
\* canceled: the code treats them alike.
EntryStatus == {"none", "waiting", "offered", "accepted", "expired", "declined"}
RegStatus == {"none", "pending_approval", "pending_payment", "confirmed", "canceled",
              "transferred_out"}
Live == {"pending_approval", "pending_payment", "confirmed"}
Closed == {"canceled", "transferred_out"}

LifecycleTypeOK ==
    /\ given \in Givens
    /\ confirmed \in [Subjects -> Nat]
    /\ held \in [Subjects -> Nat]
    /\ cart \in [Carts -> CartStatus]
    /\ lines \in [Carts -> SUBSET Lines]
    /\ hold \in [Carts -> [Subjects -> {"none", "active", "released", "converted"}]]
    /\ deadline \in [Carts -> {"ahead", "extended", "passed", "overdue"}]
    /\ entry \in [WaitLines -> EntryStatus]
    /\ over \in [WaitLines -> BOOLEAN]
    /\ position \in [WaitLines -> Nat]
    /\ accepted \in [WaitLines -> BOOLEAN]
    /\ reg \in [Lines -> [Offerings -> RegStatus]]
    /\ invoice \in [Carts -> {"none", "open", "free", "processing", "paid", "void"}]
    /\ failedOnce \in [Carts -> BOOLEAN]

LifecycleInit ==
    /\ given \in Givens
    /\ confirmed = [s \in Subjects |-> 0]
    /\ held = [s \in Subjects |-> 0]
    /\ cart = [c \in Carts |-> "none"]
    /\ lines = [c \in Carts |-> {}]
    /\ hold = [c \in Carts |-> [s \in Subjects |-> "none"]]
    /\ deadline = [c \in Carts |-> "ahead"]
    /\ entry = [w \in WaitLines |-> "none"]
    /\ over = [w \in WaitLines |-> FALSE]
    /\ position = [w \in WaitLines |-> 0]
    /\ accepted = [w \in WaitLines |-> FALSE]
    /\ reg = [l \in Lines |-> [o \in Offerings |-> "none"]]
    /\ invoice = [c \in Carts |-> "none"]
    /\ failedOnce = [c \in Carts |-> FALSE]

-----------------------------------------------------------------------------
(* The rows a transaction works on.                                        *)

\* capacity_counters, checkouts, capacity_holds and waitlist_entries.
Database ==
    [confirmed |-> confirmed, held |-> held, cart |-> cart, lines |-> lines,
     hold |-> hold, deadline |-> deadline, entry |-> entry]

Write(D) ==
    /\ confirmed' = D.confirmed
    /\ held' = D.held
    /\ cart' = D.cart
    /\ lines' = D.lines
    /\ hold' = D.hold
    /\ deadline' = D.deadline
    /\ entry' = D.entry

\* The lines of cart c that take a place in subject s.
In(D, c, s) == {l \in D.lines[c] : s \in SubjectsOf[OfferingOf[l]]}

\* The quantity of the cart's hold in s.
Places(D, c, s) == Cardinality(In(D, c, s))

CartSubjects(D, c) == {s \in Subjects : In(D, c, s) # {}}

ActiveHolds(D, c) == {s \in Subjects : D.hold[c][s] = "active"}

\* The migrations' CHECK on capacity_counters.
Check(D) == \A s \in Subjects : D.confirmed[s] + D.held[s] <= Capacity[s]

\* The registrations of cart c, those made by transfers among them, with a
\* status in S.
Registered(c, S) ==
    {r \in {l \in Lines : CartOf[l] = c} \X Offerings : reg[r[1]][r[2]] \in S}

\* Mutant: only the offering itself is looked at.
InOffering(l, o) == \E k \in Lines : PersonOf[k] = PersonOf[l] /\ reg[k][o] \in Live

\* The participant of line l has a live registration in the program of o.
InProgram(l, o) ==
    \E k \in Lines, q \in Offerings :
        /\ PersonOf[k] = PersonOf[l] /\ ProgramOf[q] = ProgramOf[o]
        /\ reg[k][q] \in Live

\* The active hold rows of cart c are set to st.
MarkActive(D, c, st) ==
    [D EXCEPT !.hold[c] = [s \in Subjects |->
        IF D.hold[c][s] = "active" THEN st ELSE D.hold[c][s]]]

\* Mutant: held goes below zero.
LessAlways(n, k) == n - k

\* held - 1 wherever it is above zero, k times.
Less(n, k) == IF k <= n THEN n - k ELSE 0

OneHeldLess(D, S) ==
    [D EXCEPT !.held = [s \in Subjects |-> IF s \in S THEN Less(D.held[s], 1) ELSE D.held[s]]]

\* Mutant: what was given back is what the cart still held.
GiveUpHoldsHeld(D, c, o) == OneHeldLess(MarkActive(D, c, "released"), {})

\* Cancel, decline and transfer of a registration that is not confirmed:
\* all active holds of its cart are released, and the counters of its own
\* offering go down by one.
GiveUpHolds(D, c, o) == OneHeldLess(MarkActive(D, c, "released"), SubjectsOf[o])

\* releaseConfirmedSeat.
CanFree(D, o) == \A s \in SubjectsOf[o] : D.confirmed[s] >= 1
FreeConfirmed(D, o) ==
    [D EXCEPT !.confirmed = [s \in Subjects |->
        IF s \in SubjectsOf[o] THEN D.confirmed[s] - 1 ELSE D.confirmed[s]]]

Expire(D, c) == [D EXCEPT !.cart[c] = "expired"]
ExpireUnlessCompleted(D, c) == IF D.cart[c] = "completed" THEN D ELSE Expire(D, c)

-----------------------------------------------------------------------------
(* The waitlist.                                                           *)

Waiting(D, o) == {w \in WaitLines : OfferingOf[w] = o /\ D.entry[w] = "waiting"}

\* The entry that has waited longest.
First(D, o) == CHOOSE w \in Waiting(D, o) : \A v \in Waiting(D, o) : position[w] <= position[v]

\* A participant has at most one active offer in a program.
OtherOffer(D, w) ==
    \E v \in WaitLines :
        /\ PersonOf[v] = PersonOf[w]
        /\ ProgramOf[OfferingOf[v]] = ProgramOf[OfferingOf[w]]
        /\ D.entry[v] = "offered"

\* offerWaitlist gives up ('full', 'empty') or offers: only the offering's
\* counter is looked at.
Offerable(D, w) ==
    LET o == OfferingOf[w] IN
    /\ D.confirmed[o] + D.held[o] < Capacity[o]
    /\ D.entry[w] = "waiting"
    /\ ~OtherOffer(D, w)

\* The offer: a cart of its own that holds one place until the offer ends.
Offered(D, w) ==
    LET c == CartOf[w]
        S == SubjectsOf[OfferingOf[w]]
    IN [D EXCEPT !.cart[c] = "open",
                 !.lines[c] = {w},
                 !.hold[c] = [s \in Subjects |-> IF s \in S THEN "active" ELSE "none"],
                 !.held = [s \in Subjects |-> IF s \in S THEN D.held[s] + 1 ELSE D.held[s]],
                 !.entry[w] = "offered"]

\* Mutant: only offers whose cart is still there to be released.
StaleWithCart(D, o) ==
    {w \in WaitLines : OfferingOf[w] = o /\ D.entry[w] = "offered" /\ over[w]
                        /\ D.cart[CartOf[w]] # "expired"}

\* The offers of offering o that have run out.
Stale(D, o) == {w \in WaitLines : OfferingOf[w] = o /\ D.entry[w] = "offered" /\ over[w]}

\* released_at is written to converted holds too, and CHECK (released_at IS
\* NULL OR converted_at IS NULL) of migration 0102 rolls everything back.
StaleIsPaid(D, o) ==
    \E w \in Stale(D, o) : \E s \in Subjects : D.hold[CartOf[w]][s] = "converted"

\* Mutant: a stale offer keeps its places.
StaleKeepPlaces(D, o) ==
    LET gone == Stale(D, o)
        goneCarts == {CartOf[w] : w \in gone}
    IN [D EXCEPT
          !.hold = [c \in Carts |->
              IF c \in goneCarts THEN MarkActive(D, c, "released").hold[c] ELSE D.hold[c]],
          !.cart = [c \in Carts |-> IF c \in goneCarts THEN "expired" ELSE D.cart[c]],
          !.entry = [w \in WaitLines |-> IF w \in gone THEN "expired" ELSE D.entry[w]]]

\* The stale offers of o: the entries and their carts expire, and the places
\* the carts still hold go back, one by one.
AfterStale(D, o) ==
    LET gone == Stale(D, o)
        goneCarts == {CartOf[w] : w \in gone}
        Back(s) == Cardinality({w \in gone : D.hold[CartOf[w]][s] = "active"})
    IN [D EXCEPT
          !.held = [s \in Subjects |-> Less(D.held[s], Back(s))],
          !.hold = [c \in Carts |->
              IF c \in goneCarts THEN MarkActive(D, c, "released").hold[c] ELSE D.hold[c]],
          !.cart = [c \in Carts |-> IF c \in goneCarts THEN "expired" ELSE D.cart[c]],
          !.entry = [w \in WaitLines |-> IF w \in gone THEN "expired" ELSE D.entry[w]]]

\* Mutant: the next offer goes to the entry that came last.
AdvancedFromEnd(o, D) ==
    LET E == AfterStale(D, o)
        Last == CHOOSE w \in Waiting(E, o) : \A v \in Waiting(E, o) : position[w] >= position[v]
    IN
    IF AutoMode /\ Waiting(E, o) # {} /\ Offerable(E, Last) THEN Offered(E, Last) ELSE E

\* advanceWaitlist: stale offers of the offering expire, and in auto mode the
\* first waiting entry gets an offer, if it can.
Advanced(o, D) ==
    LET E == AfterStale(D, o) IN
    IF AutoMode /\ Waiting(E, o) # {} /\ Offerable(E, First(E, o))
    THEN Offered(E, First(E, o))
    ELSE E

\* The end of every transaction that frees a place in offering o.
AdvanceAndWrite(D, o) ==
    /\ ~StaleIsPaid(D, o)
    /\ Check(Advanced(o, D))
    /\ Write(Advanced(o, D))

\* joinWaitlist: some subject is full and the participant is not in the program.
Join(w) ==
    LET o == OfferingOf[w] IN
    /\ w \in given.lines /\ entry[w] = "none"
    /\ \E s \in SubjectsOf[o] : confirmed[s] + held[s] >= Capacity[s]
    /\ ~InProgram(w, o)
    /\ entry' = [entry EXCEPT ![w] = "waiting"]
    /\ position' = [position EXCEPT ![w] =
          1 + Max({0} \cup {position[v] : v \in {u \in WaitLines : OfferingOf[u] = o}})]
    /\ UNCHANGED <<given, counts, carts, over, accepted, reg, invoice, failedOnce>>

\* offerWaitlist: staff offer a place to an entry of their choice.
StaffOffer(w) ==
    /\ Offerable(Database, w)
    /\ Check(Offered(Database, w))
    /\ Write(Offered(Database, w))
    /\ UNCHANGED <<given, over, position, accepted, reg, invoice, failedOnce>>

\* acceptWaitlist: the family says so; the cart is quoted and paid as any.
Accept(w) ==
    /\ entry[w] = "offered" /\ ~over[w]
    /\ cart[CartOf[w]] # "expired"
    /\ deadline[CartOf[w]] \in {"ahead", "extended"}
    /\ accepted' = [accepted EXCEPT ![w] = TRUE]
    /\ UNCHANGED <<given, counts, carts, entry, over, position, reg, invoice, failedOnce>>

\* declineWaitlist, by the family or by staff: the cart's holds are released
\* and one place is given back, whatever state the cart is in.
CloseEntry(w) ==
    LET c == CartOf[w]
        D == [Database EXCEPT !.entry[w] = "declined"]
    IN
    /\ entry[w] \in {"waiting", "offered"}
    /\ AdvanceAndWrite(IF cart[c] = "none" THEN D ELSE Expire(GiveUpHolds(D, c, OfferingOf[w]), c),
                       OfferingOf[w])
    /\ UNCHANGED <<given, over, position, accepted, reg, invoice, failedOnce>>

\* runRegistrationReminders, once per organization in one transaction: every
\* offering with an offer that has run out is advanced.
RemindersJob ==
    LET due == {o \in Offerings : Stale(Database, o) # {}}
        D == FoldSet(Advanced, Database, due)
    IN
    /\ due # {}
    /\ \A o \in due : ~StaleIsPaid(Database, o)
    /\ Check(D)
    /\ Write(D)
    /\ UNCHANGED <<given, over, position, accepted, reg, invoice, failedOnce>>

-----------------------------------------------------------------------------
(* Carts: what CheckoutCapacity does, with the registrations.              *)

\* Two lines with the same participant and program.
SameRegistration(k, l) ==
    PersonOf[k] = PersonOf[l] /\ ProgramOf[OfferingOf[k]] = ProgramOf[OfferingOf[l]]

\* start and reserve: the family picks lines, none of them for a participant
\* who is in the program already, and their places are held.
StartCart(c, L) ==
    LET D == [Database EXCEPT !.cart[c] = "open", !.lines[c] = L]
        E == [D EXCEPT !.held = [s \in Subjects |-> held[s] + Places(D, c, s)],
                       !.hold[c] = [s \in Subjects |->
                            IF s \in CartSubjects(D, c) THEN "active" ELSE "none"]]
    IN
    /\ cart[c] = "none" /\ c \notin WaitCarts
    /\ L # {}
    /\ \A l \in L : CartOf[l] = c /\ ~InProgram(l, OfferingOf[l])
    /\ \A k, l \in L : SameRegistration(k, l) => k = l
    /\ Check(E)
    /\ Write(E)
    /\ UNCHANGED <<given, over, position, accepted, reg, invoice, failedOnce>>

\* The holds of cart c become confirmed places, its registrations that await
\* payment are confirmed, and an accepted offer is closed.
Confirmable(c) ==
    /\ cart[c] \in {"open", "awaiting_payment"}
    /\ \A s \in CartSubjects(Database, c) :
          hold[c][s] = "active" /\ held[s] >= Places(Database, c, s)

ConfirmPlaces(D, c) ==
    [MarkActive(D, c, "converted") EXCEPT
        !.held = [s \in Subjects |-> D.held[s] - Places(D, c, s)],
        !.confirmed = [s \in Subjects |-> D.confirmed[s] + Places(D, c, s)],
        !.cart[c] = "completed",
        !.entry = [w \in WaitLines |->
            IF CartOf[w] = c /\ D.entry[w] = "offered" /\ accepted[w] THEN "accepted" ELSE D.entry[w]]]

\* Mutant: every registration of the cart is confirmed, closed ones too.
RestateAll(c, old, new) ==
    [l \in Lines |-> [o \in Offerings |->
        IF CartOf[l] = c /\ reg[l][o] # "none" THEN new ELSE reg[l][o]]]

\* The registrations of cart c with status old get status new.
Restate(c, old, new) ==
    [l \in Lines |-> [o \in Offerings |->
        IF CartOf[l] = c /\ reg[l][o] = old THEN new ELSE reg[l][o]]]

\* freeze and quote: registrations and invoice.  A cart with a line that
\* needs approval waits for staff as a whole; a free cart is confirmed.
Quote(c, free) ==
    LET approval == \E l \in lines[c] : OfferingOf[l] \in RequiresApproval
        registered(st) == [l \in Lines |-> [o \in Offerings |->
            IF l \in lines[c] /\ o = OfferingOf[l] THEN st ELSE reg[l][o]]]
    IN
    /\ cart[c] = "open" /\ free \in given.free
    /\ deadline[c] \in {"ahead", "extended"}
    /\ Confirmable(c)
    /\ \A l \in lines[c] : ~InProgram(l, OfferingOf[l])
    /\ invoice' = [invoice EXCEPT ![c] = IF free THEN "free" ELSE "open"]
    /\ IF free /\ ~approval
       THEN /\ Write(ConfirmPlaces(Database, c))
            /\ reg' = registered("confirmed")
       ELSE /\ Write([Database EXCEPT !.cart[c] = "awaiting_payment",
                                      !.deadline[c] = IF approval THEN "extended" ELSE @])
            /\ reg' = registered(IF approval THEN "pending_approval" ELSE "pending_payment")
    /\ UNCHANGED <<given, over, position, accepted, failedOnce>>

\* A payment is made for a cart that no approval blocks.
StartPayment(c) ==
    /\ cart[c] = "awaiting_payment"
    /\ deadline[c] \in {"ahead", "extended"}
    /\ invoice[c] = "open"
    /\ Registered(c, {"pending_approval"}) = {}
    /\ invoice' = [invoice EXCEPT ![c] = "processing"]
    /\ UNCHANGED <<given, counts, carts, waitlist, reg, failedOnce>>

\* The payment succeeds, or a bank payment is confirmed while processing; if
\* the places are gone it is refunded and nothing else changes.
PaymentConfirms(c, settled) ==
    /\ invoice[c] = "processing"
    /\ settled \/ Confirmable(c)
    /\ invoice' = [invoice EXCEPT ![c] = IF settled THEN "paid" ELSE @]
    /\ IF Confirmable(c)
       THEN /\ Write(ConfirmPlaces(Database, c))
            /\ reg' = Restate(c, "pending_payment", "confirmed")
       ELSE UNCHANGED <<counts, carts, entry, reg>>
    /\ UNCHANGED <<given, over, position, accepted, failedOnce>>

\* keepForFailedPayment: the first failure takes confirmed places back to
\* held ones and gives 72 hours.
Keepable(c) ==
    /\ cart[c] \in {"awaiting_payment", "completed"}
    /\ ~failedOnce[c]
    /\ \A s \in CartSubjects(Database, c) :
          /\ hold[c][s] # "released"
          /\ hold[c][s] = "converted" => confirmed[s] >= Places(Database, c, s)

PaymentFails(c) ==
    LET back(s) == IF hold[c][s] = "converted" THEN Places(Database, c, s) ELSE 0 IN
    /\ invoice[c] = "processing"
    /\ invoice' = [invoice EXCEPT ![c] = "open"]
    /\ IF Keepable(c)
       THEN /\ Write([Database EXCEPT
                  !.confirmed = [s \in Subjects |-> confirmed[s] - back(s)],
                  !.held = [s \in Subjects |-> held[s] + back(s)],
                  !.hold[c] = [s \in Subjects |-> IF hold[c][s] = "none" THEN "none" ELSE "active"],
                  !.cart[c] = "awaiting_payment",
                  !.deadline[c] = "extended"])
            /\ reg' = Restate(c, "confirmed", "pending_payment")
            /\ failedOnce' = [failedOnce EXCEPT ![c] = TRUE]
       ELSE UNCHANGED <<counts, carts, entry, reg, failedOnce>>
    /\ UNCHANGED <<given, over, position, accepted>>

\* releaseExpiredHolds, for one cart: holds of open and expired carts go when
\* their deadline has passed, those of carts in payment a day later.
HoldExpiryJob(c) ==
    LET D == MarkActive(Database, c, "released") IN
    /\ ActiveHolds(Database, c) # {}
    /\ \/ cart[c] \in {"open", "expired"} /\ deadline[c] \in {"passed", "overdue"}
       \/ cart[c] = "awaiting_payment" /\ deadline[c] = "overdue"
    /\ \A s \in ActiveHolds(Database, c) : held[s] >= Places(Database, c, s)
    /\ Write([D EXCEPT
          !.held = [s \in Subjects |->
              IF hold[c][s] = "active" THEN held[s] - Places(D, c, s) ELSE held[s]],
          !.cart[c] = IF @ = "open" THEN "expired" ELSE @])
    /\ UNCHANGED <<given, over, position, accepted, reg, invoice, failedOnce>>

\* Time: a deadline of a cart passes.  An offer runs out with the first
\* deadline of its cart, before any later one.
DeadlinePasses(c) ==
    LET offers == {w \in WaitLines : CartOf[w] = c} IN
    /\ cart[c] \in {"open", "awaiting_payment"} \/ ActiveHolds(Database, c) # {}
    /\ deadline[c] # "overdue"
    /\ deadline[c] = "extended" => \A w \in offers : over[w] \/ entry[w] # "offered"
    /\ deadline' = [deadline EXCEPT ![c] = IF @ = "passed" THEN "overdue" ELSE "passed"]
    /\ over' = [w \in WaitLines |-> over[w] \/ (w \in offers /\ entry[w] = "offered")]
    /\ UNCHANGED <<given, counts, cart, lines, hold, entry, position, accepted, reg, invoice,
                   failedOnce>>

\* An offer also runs out when its cart is over or was given a later deadline.
OfferRunsOut(w) ==
    /\ entry[w] = "offered" /\ ~over[w]
    /\ cart[CartOf[w]] \in {"completed", "expired"} \/ deadline[CartOf[w]] = "extended"
    /\ over' = [over EXCEPT ![w] = TRUE]
    /\ UNCHANGED <<given, counts, carts, entry, position, accepted, reg, invoice, failedOnce>>

-----------------------------------------------------------------------------
(* Registrations.                                                          *)

\* voidCheckoutInvoice: nothing paid and no other live registration on it.
Voided(c, l, o) ==
    IF invoice[c] \in {"open", "processing"} /\ Registered(c, Live) \subseteq {<<l, o>>}
    THEN [invoice EXCEPT ![c] = "void"]
    ELSE invoice

\* cancel, by staff or by the family.  Holds of an unpaid cart go back with
\* its last registration only.
Cancel(l, o) ==
    LET c == CartOf[l]
        last == Registered(c, Live) = {<<l, o>>}
        D == Database
    IN
    /\ reg[l][o] \in Live
    /\ reg' = [reg EXCEPT ![l][o] = "canceled"]
    /\ IF reg[l][o] = "confirmed"
       THEN /\ CanFree(D, o)
            /\ AdvanceAndWrite(FreeConfirmed(D, o), o)
            /\ UNCHANGED invoice
       ELSE /\ AdvanceAndWrite(
                  IF last THEN ExpireUnlessCompleted(GiveUpHolds(D, c, o), c) ELSE D, o)
            /\ invoice' = IF last THEN Voided(c, l, o) ELSE invoice
    /\ UNCHANGED <<given, over, position, accepted, failedOnce>>

\* decideApproval, declined: the whole cart loses its holds.
DeclineRegistration(l, o) ==
    LET c == CartOf[l] IN
    /\ reg[l][o] = "pending_approval"
    /\ reg' = [reg EXCEPT ![l][o] = "canceled"]
    /\ invoice' = Voided(c, l, o)
    /\ AdvanceAndWrite(Expire(GiveUpHolds(Database, c, o), c), o)
    /\ UNCHANGED <<given, over, position, accepted, failedOnce>>

\* decideApproval, approved: a cart with nothing to pay is confirmed in place,
\* any other gets a payment deadline.
ApproveRegistration(l, o) ==
    LET c == CartOf[l]
        D == Database
    IN
    /\ reg[l][o] = "pending_approval"
    /\ IF invoice[c] = "free"
       THEN /\ \A s \in ActiveHolds(D, c) : held[s] >= Places(D, c, s)
            /\ \A s \in Subjects : hold[c][s] # "released"
            /\ Write([MarkActive(D, c, "converted") EXCEPT
                  !.held = [s \in Subjects |->
                      IF hold[c][s] = "active" THEN held[s] - Places(D, c, s) ELSE held[s]],
                  !.confirmed = [s \in Subjects |->
                      IF hold[c][s] = "active" THEN confirmed[s] + Places(D, c, s) ELSE confirmed[s]],
                  !.cart[c] = "completed"])
            /\ reg' = [reg EXCEPT ![l][o] = "confirmed"]
       ELSE /\ Write([D EXCEPT !.deadline[c] = "extended"])
            /\ reg' = [reg EXCEPT ![l][o] = "pending_payment"]
    /\ UNCHANGED <<given, over, position, accepted, invoice, failedOnce>>

\* transfer to an offering p of another program.  Within a program the new row
\* is refused: it is inserted before the old one is closed, and the unique
\* index on live registrations of a person in a program forbids that.
Transfer(l, o, p) ==
    LET c == CartOf[l]
        was == reg[l][o]
        becomes == IF was = "pending_approval" /\ p \notin RequiresApproval THEN "confirmed" ELSE was
        D == IF was = "confirmed"
             THEN FreeConfirmed(Database, o)
             ELSE GiveUpHolds(Database, c, o)
        E == IF becomes = "confirmed"
             THEN [D EXCEPT !.confirmed = [s \in Subjects |->
                      IF s \in SubjectsOf[p] THEN D.confirmed[s] + 1 ELSE D.confirmed[s]]]
             ELSE D
    IN
    /\ was \in Live
    /\ p \in given.destinations /\ ProgramOf[p] # ProgramOf[o]
    /\ ~InProgram(l, p)
    /\ reg[l][p] = "none"      \* bound: a line is in an offering once
    /\ \A s \in SubjectsOf[p] : confirmed[s] + held[s] < Capacity[s]
    /\ was = "confirmed" => CanFree(Database, o)
    /\ reg' = [reg EXCEPT ![l] = [@ EXCEPT ![o] = "transferred_out", ![p] = becomes]]
    /\ AdvanceAndWrite(E, o)
    /\ UNCHANGED <<given, over, position, accepted, invoice, failedOnce>>

-----------------------------------------------------------------------------
(* Mishaps: steps the code takes and does not get right.  A behaviour has    *)
(* only those it was given at its start, so that each can be seen alone.     *)

OfferOf(c) == {w \in WaitLines : CartOf[w] = c /\ entry[w] = "offered"}

May(m) == m \in given.mishaps

Given ==
    \* the job releases the holds of a registration or of an offer
    /\ May("job") \/ \A c \in Carts :
          HoldExpiryJob(c) => Registered(c, Live) = {} /\ OfferOf(c) = {}
    \* a cart holds several lines
    /\ May("siblings") \/ \A c \in Carts : Cardinality(lines'[c]) <= 1
    \* an offer is taken up without being accepted
    /\ May("unaccepted") \/ \A w \in WaitLines :
          entry'[w] = "offered" /\ reg'[w][OfferingOf[w]] # "none" => accepted[w]
    \* an offer that was taken up is closed, runs out, or loses its registration
    /\ May("abandoned") \/ \A w \in WaitLines :
          entry[w] = "offered" /\ Registered(CartOf[w], Live) # {} =>
              /\ entry'[w] # "declined"
              /\ over'[w] => cart'[CartOf[w]] = "completed"
              /\ entry'[w] = "offered" /\ reg'[w] # reg[w] =>
                    reg'[w][OfferingOf[w]] \notin Closed
    \* a registration that a transfer left without a place is given up
    /\ May("moved") \/ \A l \in Lines, o \in Offerings :
          /\ o # OfferingOf[l] /\ reg[l][o] \in {"pending_approval", "pending_payment"}
          => reg'[l][o] \notin Closed
    \* a payment fails after a registration it was for was closed
    /\ May("late_failure") \/ \A c \in Carts : PaymentFails(c) => Registered(c, Closed) = {}

WaitlistStep ==
    \/ \E w \in WaitLines : Join(w)
    \/ \E w \in WaitLines : StaffOffer(w)
    \/ \E w \in WaitLines : Accept(w)
    \/ \E w \in WaitLines : CloseEntry(w) /\ Given
    \/ \E w \in WaitLines : OfferRunsOut(w) /\ Given
    \/ RemindersJob

PurchaseStep ==
    \/ \E c \in Carts, L \in SUBSET given.lines : StartCart(c, L) /\ Given
    \/ \E c \in Carts, free \in BOOLEAN : Quote(c, free) /\ Given
    \/ \E c \in Carts : StartPayment(c)
    \/ \E c \in Carts, settled \in BOOLEAN : PaymentConfirms(c, settled)
    \/ \E c \in Carts : PaymentFails(c) /\ Given
    \/ \E c \in Carts : HoldExpiryJob(c) /\ Given
    \/ \E c \in Carts : DeadlinePasses(c) /\ Given

StaffStep ==
    \/ \E l \in Lines, o \in Offerings : Cancel(l, o) /\ Given
    \/ \E l \in Lines, o \in Offerings : DeclineRegistration(l, o) /\ Given
    \/ \E l \in Lines, o \in Offerings : ApproveRegistration(l, o)
    \/ \E l \in Lines, o, p \in Offerings : Transfer(l, o, p) /\ Given

LifecycleNext == WaitlistStep \/ PurchaseStep \/ StaffStep

LifecycleSpec == LifecycleInit /\ [][LifecycleNext]_lifecycleVars

\* Deadlines pass, one by one, and the reminders job runs.
TimePasses ==
    /\ (\E c \in Carts : DeadlinePasses(c)) \/ (\E w \in WaitLines : OfferRunsOut(w))
    /\ Given

LifecycleFairSpec ==
    /\ LifecycleSpec
    /\ WF_lifecycleVars(TimePasses)
    /\ WF_lifecycleVars(RemindersJob)

-----------------------------------------------------------------------------
(* Properties.                                                             *)

\* The places of a subject that somebody was promised: lines of carts with an
\* active hold, and confirmed registrations.
HeldPlaces(s) ==
    {l \in Lines : /\ l \in lines[CartOf[l]]
                   /\ s \in SubjectsOf[OfferingOf[l]]
                   /\ hold[CartOf[l]][s] = "active"}
Seated(s) ==
    {r \in Lines \X Offerings : reg[r[1]][r[2]] = "confirmed" /\ s \in SubjectsOf[r[2]]}

\* Counters follow registrations through payment, approval, cancellation,
\* transfer and offers: held counts the places held and confirmed the
\* registrations confirmed.  The mishaps left out each break it.
LifecycleReconciled ==
    given.mishaps \cap {"job", "siblings", "abandoned", "late_failure", "moved"} = {} =>
        \A s \in Subjects :
            held[s] = Cardinality(HeldPlaces(s)) /\ confirmed[s] = Cardinality(Seated(s))

\* No more registrations are confirmed than there are places ("zero
\* oversell"), whatever the counters say.
SeatsFit == \A s \in Subjects : Cardinality(Seated(s)) <= Capacity[s]

\* A person has one live registration in a program, and is offered one place in
\* it, whatever becomes of the old registration in a transfer and whoever offers.
OneRegistrationEach ==
    /\ \A q, r \in Lines \X Offerings :
          /\ reg[q[1]][q[2]] \in Live /\ reg[r[1]][r[2]] \in Live
          /\ PersonOf[q[1]] = PersonOf[r[1]]
          /\ ProgramOf[q[2]] = ProgramOf[r[2]]
          => q = r
    /\ \A v, w \in WaitLines :
          /\ entry[v] = "offered" /\ entry[w] = "offered"
          /\ PersonOf[v] = PersonOf[w]
          /\ ProgramOf[OfferingOf[v]] = ProgramOf[OfferingOf[w]]
          => v = w

\* What is over stays over: a late payment, a failed one, a replayed decision
\* or the job never revives a canceled, withdrawn or transferred registration,
\* nor a closed waitlist entry.
ClosedStep ==
    /\ \A l \in Lines, o \in Offerings : reg[l][o] \in Closed => reg'[l][o] = reg[l][o]
    /\ \A w \in WaitLines :
          entry[w] \in {"accepted", "expired", "declined"} => entry'[w] = entry[w]
ClosedStays == [][ClosedStep]_lifecycleVars

\* In auto mode nobody is overtaken: unless staff choose, an entry that gets
\* an offer had no entry waiting before it.
TurnStep ==
    \A w \in WaitLines :
        (entry[w] = "waiting" /\ entry'[w] = "offered") =>
            \/ \A v \in WaitLines :
                  /\ OfferingOf[v] = OfferingOf[w]
                  /\ entry[v] = "waiting"
                  /\ entry'[v] \in {"waiting", "offered"}
                  => position[w] <= position[v]
            \/ StaffOffer(w)
OffersInTurn == [][TurnStep]_lifecycleVars

\* An offer that may run out ends: it is taken up, declined, or expires and
\* makes room, whatever the family did with its cart.  It does not when the
\* family pays without accepting it (mishap "unaccepted"): its converted hold
\* then rolls back every run of the job.
OfferEnds ==
    \A w \in {v \in WaitLines : \E g \in Givens : g.mishaps = {"abandoned"} /\ v \in g.lines} :
        (entry[w] = "offered" /\ given.mishaps = {"abandoned"}) ~> (entry[w] # "offered")
=============================================================================
