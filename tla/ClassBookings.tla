--------------------------- MODULE ClassBookings ---------------------------
(***************************************************************************)
(* The classes of an academy: places in a class and its waitlist, and      *)
(* single sessions booked with money, a make-up credit or a punch card.    *)
(*                                                                         *)
(* An enrollment or an offer is made under the lock of its class and       *)
(* counts afterwards, so it is one step.  A booking counts in the          *)
(* statement that locks its session: one that waited for the lock goes by  *)
(* what it counted before (BookerWaits).                                   *)
(*                                                                         *)
(* Prices, invoices, subscriptions, eligibility by age and level and who   *)
(* may act for whom are left out, and so is what a repeated creation key   *)
(* returns.  An active enrollment covers every session of its class.       *)
(***************************************************************************)
EXTENDS Naturals, FiniteSets

CONSTANTS
    People,
    Classes,        \* class offerings
    Billing,        \* their billing: "term" (or monthly), "drop_in", "punch_card"
    Sessions,
    ClassOf,        \* the class of a session
    Room,           \* its capacity, which is the class's when it was scheduled
    Eligible,       \* the sessions a credit for missing a session is good for
    CreditsPerTerm,
    Cards, OwnerOf, ClassOfCard, Uses, \* punch cards
    NoSession, Empty, Invoice, Trial,
    MaxCapacity,    \* bound on the capacity of a class
    Givens          \* what a behaviour is given, see given

AllActs == {"pauses", "trials", "capacity", "marks", "cancels"}
AllMishaps == {"removed", "promoted", "raised", "batch", "race"}
Credits == People \X Sessions  \* who missed what: person_id, source_event_id

ASSUME ClassesAssumption ==
    /\ IsFiniteSet(People) /\ IsFiniteSet(Sessions) /\ Classes \cap Sessions = {}
    /\ Cards \cap Credits = {} /\ {Invoice, Trial} \cap (Credits \cup Cards) = {}
    /\ Empty \notin [by : Credits \cup Cards \cup {Invoice, Trial}, attended : BOOLEAN]
    /\ Billing \in [Classes -> {"term", "drop_in", "punch_card"}]
    /\ ClassOf \in [Sessions -> Classes]
    /\ Room \in [Sessions -> Nat]
    /\ Eligible \in [Sessions -> SUBSET Sessions]
    /\ OwnerOf \in [Cards -> People] /\ ClassOfCard \in [Cards -> Classes]
    /\ CreditsPerTerm \in Nat /\ Uses \in Nat \ {0} /\ MaxCapacity \in Nat
    /\ NoSession \notin Sessions
    /\ Givens \subseteq [acts : SUBSET AllActs, mishaps : SUBSET AllMishaps,
                         people : SUBSET People, classes : SUBSET Classes,
                         sessions : SUBSET Sessions, places : 0 .. MaxCapacity]

VARIABLES
    given,    \* what people do in this behaviour, what may go wrong, who and where
    size,     \* class_offerings.capacity
    enrolled, \* class_enrollments: the live one of each person in each class
    line,     \* class_waitlist_entries waiting or offered, in order: <<q, p>> is in it
              \* when q is p or has a lower position
    offered,  \* those offered
    scheduled,\* the sessions not canceled
    booking,  \* class_session_bookings 'booked' or 'attended', and who pays for it
    missed,   \* the number of those that ended as no_show, by what paid for them
    credit,   \* makeup_credits.status
    card, uses, \* punch_cards: status, remaining_uses
    counted,  \* what a booking that waits for the lock of a session has counted
    ranOut    \* offers past offer_expires_at and credits past expires_on

service == <<given, size, enrolled, line, offered>>
desk == <<given, scheduled, booking, missed, credit, card, uses, counted>>
classesVars == <<service, desk, ranOut>>

Out == [status |-> "none", on |-> NoSession]
Active == [status |-> "active", on |-> NoSession]
Live(E, p, c) == E[<<p, c>>].status # "none"
Payers == Credits \cup Cards

-----------------------------------------------------------------------------
(* Places in a class.                                                      *)

Count(E, c) == Cardinality({p \in People : Live(E, p, c)})
Full(c) == Count(enrolled, c) >= size[c]

InLine(L, c) == {p \in People : <<p, p>> \in L[c]}
Waiting(L, O, c) == {p \in InLine(L, c) : <<p, c>> \notin O}
First(L, O, c) == CHOOSE p \in Waiting(L, O, c) : \A q \in Waiting(L, O, c) : <<p, q>> \in L[c]

\* offerNextWaitlistEntry, for each of the classes C: the offers after those in
\* O, when enrollments and lines are E and L.
OfferedNext(C, E, L, O) ==
    O \cup {<<First(L, O, c), c>> :
               c \in {d \in C : Count(E, d) < size[d] /\ Waiting(L, O, d) # {}}}

EnrollAs(p, c, how) ==
    /\ ~Live(enrolled, p, c)
    /\ enrolled' = [enrolled EXCEPT ![<<p, c>>] = how]

EnrollActive(p, c) ==
    /\ Billing[c] = "term"
    /\ ~Full(c)
    /\ EnrollAs(p, c, Active)
    /\ UNCHANGED booking

\* A trial does not ask for a place; its session need not have one either.
EnrollTrial(p, c, s) ==
    /\ "trials" \in given.acts
    /\ EnrollAs(p, c, [status |-> "trial", on |-> s])
    /\ \/ s = NoSession /\ UNCHANGED booking
       \/ /\ s \in scheduled /\ ClassOf[s] = c
          /\ booking[<<p, s>>] = Empty
          /\ booking' = [booking EXCEPT ![<<p, s>>] = [by |-> Trial, attended |-> FALSE]]

Enroll(p, c) ==
    /\ EnrollActive(p, c) \/ \E s \in given.sessions \cup {NoSession} : EnrollTrial(p, c, s)
    /\ UNCHANGED <<given, size, line, offered, scheduled, missed>>
    /\ UNCHANGED <<credit, card, uses, counted, ranOut>>

\* Mutant: who already waits is put in line again.
EnqueueAgain(p, c) ==
    /\ Billing[c] = "term" /\ Full(c)
    /\ ~Live(enrolled, p, c)
    /\ line' = [line EXCEPT ![c] = @ \cup (InLine(line, c) \cup {p}) \X {p}]
    /\ UNCHANGED <<size, enrolled, offered, desk, ranOut>>

\* enroll of a full class: the person waits.
Enqueue(p, c) ==
    /\ Billing[c] = "term" /\ Full(c)
    /\ ~Live(enrolled, p, c)
    /\ p \notin InLine(line, c)
    /\ line' = [line EXCEPT ![c] = @ \cup (InLine(line, c) \cup {p}) \X {p}]
    /\ UNCHANGED <<size, enrolled, offered, desk, ranOut>>

Withdraw(p, c) ==
    /\ Live(enrolled, p, c)
    /\ enrolled' = [enrolled EXCEPT ![<<p, c>>] = Out]
    /\ offered' = OfferedNext({c}, enrolled', line, offered)
    /\ UNCHANGED <<size, line, desk, ranOut>>

Pause(p, c) ==
    /\ "pauses" \in given.acts
    /\ enrolled[<<p, c>>] = Active
    /\ enrolled' = [enrolled EXCEPT ![<<p, c>>] = [Active EXCEPT !.status = "paused"]]
    /\ UNCHANGED <<size, line, offered, desk, ranOut>>

Resume(p, c) ==
    /\ enrolled[<<p, c>>].status = "paused"
    /\ enrolled' = [enrolled EXCEPT ![<<p, c>>] = Active]
    /\ UNCHANGED <<size, line, offered, desk, ranOut>>

\* The line R without the people of P.
Left(R, P) == {x \in R : x[1] \notin P /\ x[2] \notin P}

\* The entry <<p, c>> is no longer live.
Close(p, c) ==
    /\ line' = [line EXCEPT ![c] = Left(@, {p})]
    /\ ranOut' = ranOut \ {<<p, c>>}

AcceptOffer(p, c) ==
    /\ <<p, c>> \in offered \ ranOut
    /\ ~Full(c)
    /\ EnrollActive(p, c) \/ \E s \in given.sessions \cup {NoSession} : EnrollTrial(p, c, s)
    /\ Close(p, c)
    /\ offered' = offered \ {<<p, c>>}
    /\ UNCHANGED <<given, size, scheduled, missed, credit, card, uses, counted>>

\* Mutant: the place of a declined offer is not offered to the next.
DeclineQuietly(p, c) ==
    /\ <<p, c>> \in offered
    /\ Close(p, c)
    /\ offered' = offered \ {<<p, c>>}
    /\ UNCHANGED <<size, enrolled, desk>>

DeclineOffer(p, c) ==
    /\ <<p, c>> \in offered
    /\ Close(p, c)
    /\ offered' = OfferedNext({c}, enrolled, line', offered \ {<<p, c>>})
    /\ UNCHANGED <<size, enrolled, desk>>

\* removeFromWaitlist: the place of an offer taken back is not offered again.
RemoveEntry(p, c) ==
    /\ p \in InLine(line, c)
    /\ <<p, c>> \in offered => "removed" \in given.mishaps
    /\ Close(p, c)
    /\ offered' = offered \ {<<p, c>>}
    /\ UNCHANGED <<size, enrolled, desk>>

\* confirm of a promotion: the place in the old class is not offered.
Promote(p, c, d) ==
    /\ "promoted" \in given.mishaps
    /\ c # d /\ Live(enrolled, p, c) /\ ~Live(enrolled, p, d)
    /\ Billing[d] = "term" /\ ~Full(d)
    /\ enrolled' = [enrolled EXCEPT ![<<p, c>>] = Out, ![<<p, d>>] = Active]
    /\ UNCHANGED <<size, line, offered, desk, ranOut>>

SetCapacity(c, n) ==
    /\ "capacity" \in given.acts
    /\ n # size[c] /\ n >= Count(enrolled, c)
    /\ n > size[c] => "raised" \in given.mishaps
    /\ size' = [size EXCEPT ![c] = n]
    /\ UNCHANGED <<enrolled, line, offered, desk, ranOut>>

-----------------------------------------------------------------------------
(* Sessions.                                                               *)

\* enrolled_count and booked_count of loadSessionForBooking: a trial with a
\* session counts in both.  A trial counts on the day of its session only
\* (starts_on = ends_on); sessions of a class are on different days here.
Taken(s) ==
    Cardinality({p \in People : \/ enrolled[<<p, ClassOf[s]>>] = Active
                               \/ enrolled[<<p, ClassOf[s]>>].on = s})
    + Cardinality({p \in People : booking[<<p, s>>] # Empty})

\* The place of p in s is booked and paid for by x, if there is room: in the
\* session as it is, or as it was when this booking began to wait.
Book(p, s, x) ==
    /\ s \in scheduled
    /\ booking[<<p, s>>] = Empty
    /\ \/ Taken(s) < Room[s] /\ UNCHANGED counted
       \/ counted[s] < Room[s] /\ counted' = [counted EXCEPT ![s] = Room[s]]
    /\ booking' = [booking EXCEPT ![<<p, s>>] = [by |-> x, attended |-> FALSE]]
    /\ UNCHANGED <<service, scheduled, missed, ranOut>>

\* The SELECT of a booking waits for another that holds the lock of s.
BookerWaits(s) ==
    /\ "race" \in given.mishaps
    /\ s \in scheduled /\ Taken(s) < Room[s]
    /\ counted' = [counted EXCEPT ![s] = Taken(s)]
    /\ UNCHANGED <<service, scheduled, booking, missed, credit, card, uses, ranOut>>

BookDropIn(p, s) ==
    /\ Billing[ClassOf[s]] = "drop_in"
    /\ ~Live(enrolled, p, ClassOf[s])
    /\ Book(p, s, Invoice)
    /\ UNCHANGED <<credit, card, uses>>

BookMakeup(p, from, s) ==
    /\ credit[<<p, from>>] = "available"
    /\ s \in Eligible[from]
    /\ Book(p, s, <<p, from>>)
    /\ credit' = [credit EXCEPT ![<<p, from>>] = "used"]
    /\ UNCHANGED <<card, uses>>

PurchasePunchCard(k) ==
    /\ Billing[ClassOfCard[k]] = "punch_card"
    /\ card[k] = "none"
    /\ card' = [card EXCEPT ![k] = "active"]
    /\ uses' = [uses EXCEPT ![k] = Uses]
    /\ UNCHANGED <<service, scheduled, booking, missed, credit, counted, ranOut>>

Remaining(n) == IF n = 0 THEN "exhausted" ELSE "active"

BookPunchCard(k, s) ==
    /\ card[k] = "active" /\ uses[k] >= 1
    /\ ClassOf[s] = ClassOfCard[k]
    /\ Book(OwnerOf[k], s, k)
    /\ uses' = [uses EXCEPT ![k] = @ - 1]
    /\ card' = [card EXCEPT ![k] = Remaining(uses'[k])]
    /\ UNCHANGED credit

\* Mutant: only cards not yet used up get their use back.
CancelUnlessExhausted(p, s) ==
    /\ booking[<<p, s>>] # Empty /\ ~booking[<<p, s>>].attended
    /\ booking' = [booking EXCEPT ![<<p, s>>] = Empty]
    /\ LET x == booking[<<p, s>>].by IN
       /\ credit' = [c \in Credits |-> IF c = x THEN "available" ELSE credit[c]]
       /\ uses' = [k \in Cards |-> IF k = x /\ card[k] = "active" THEN uses[k] + 1 ELSE uses[k]]
       /\ card' = card
    /\ UNCHANGED <<service, scheduled, missed, counted, ranOut>>

\* What paid for the booking is given back, a credit also past its time.
CancelBooking(p, s) ==
    /\ booking[<<p, s>>] # Empty /\ ~booking[<<p, s>>].attended
    /\ booking' = [booking EXCEPT ![<<p, s>>] = Empty]
    /\ LET x == booking[<<p, s>>].by IN
       /\ credit' = [c \in Credits |-> IF c = x THEN "available" ELSE credit[c]]
       /\ uses' = [k \in Cards |-> IF k = x THEN uses[k] + 1 ELSE uses[k]]
       /\ card' = [k \in Cards |-> IF k = x THEN "active" ELSE card[k]]
    /\ UNCHANGED <<service, scheduled, missed, counted, ranOut>>

\* maybeGrantMakeupCredit.
Granted(p, s) ==
    LET c == ClassOf[s]
        issued == {t \in Sessions : ClassOf[t] = c /\ credit[<<p, t>>] # "none"}
    IN  IF /\ Live(enrolled, p, c) /\ credit[<<p, s>>] = "none"
           /\ Cardinality(issued) < CreditsPerTerm
        THEN [credit EXCEPT ![<<p, s>>] = "available"]
        ELSE credit

\* mark of attendance, for one person; checkIn leaves bookings alone.
Mark(p, s, how) ==
    /\ "marks" \in given.acts
    /\ credit' = IF how = "present" THEN credit ELSE Granted(p, s)
    /\ IF booking[<<p, s>>] = Empty \/ booking[<<p, s>>].attended \/ how = "excused"
       THEN UNCHANGED <<booking, missed>>
       ELSE IF how = "present"
       THEN booking' = [booking EXCEPT ![<<p, s>>].attended = TRUE] /\ UNCHANGED missed
       ELSE /\ booking' = [booking EXCEPT ![<<p, s>>] = Empty]
            /\ missed' = [x \in Payers |->
                             missed[x] + (IF x = booking[<<p, s>>].by THEN 1 ELSE 0)]
    /\ UNCHANGED <<service, scheduled, card, uses, counted, ranOut>>

\* The bookings of a canceled session stay booked.
CancelSession(s) ==
    /\ "cancels" \in given.acts
    /\ s \in scheduled
    /\ scheduled' = scheduled \ {s}
    /\ UNCHANGED <<service, booking, missed, credit, card, uses, counted, ranOut>>

-----------------------------------------------------------------------------
(* Time.                                                                   *)

OfferRunsOut(p, c) ==
    /\ <<p, c>> \in offered \ ranOut
    /\ "batch" \notin given.mishaps => \A q \in People : <<q, c>> \notin offered \cap ranOut
    /\ ranOut' = ranOut \cup {<<p, c>>}
    /\ UNCHANGED <<service, desk>>

CreditRunsOut(p, s) ==
    /\ credit[<<p, s>>] \in {"available", "used"}
    /\ <<p, s>> \notin ranOut
    /\ ranOut' = ranOut \cup {<<p, s>>}
    /\ UNCHANGED <<service, desk>>

\* runTuitionBilling for one organization: credits and offers expire, one place
\* is offered in each class that lost an offer, and the pauses that are over end.
TuitionJob ==
    LET over == offered \cap ranOut IN
    \E resumed \in SUBSET {x \in DOMAIN enrolled : enrolled[x].status = "paused"} :
        /\ over # {} \/ resumed # {} \/ \E x \in Credits \cap ranOut : credit[x] = "available"
        /\ credit' = [x \in Credits |->
              IF x \in ranOut /\ credit[x] = "available" THEN "expired" ELSE credit[x]]
        /\ line' = [c \in Classes |-> Left(line[c], {p \in People : <<p, c>> \in over})]
        /\ offered' = OfferedNext({x[2] : x \in over}, enrolled, line', offered \ over)
        /\ enrolled' = [x \in DOMAIN enrolled |-> IF x \in resumed THEN Active ELSE enrolled[x]]
        /\ ranOut' = ranOut \ over
        /\ UNCHANGED <<given, size, scheduled, booking, missed, card, uses, counted>>

-----------------------------------------------------------------------------

ClassesInit ==
    /\ given \in Givens
    /\ size = [c \in Classes |-> given.places]
    /\ enrolled = [x \in People \X Classes |-> Out]
    /\ line = [c \in Classes |-> {}]
    /\ offered = {}
    /\ scheduled = Sessions
    /\ booking = [x \in People \X Sessions |-> Empty]
    /\ missed = [x \in Payers |-> 0]
    /\ credit = [x \in Credits |-> "none"]
    /\ card = [k \in Cards |-> "none"]
    /\ uses = [k \in Cards |-> 0]
    /\ counted = Room
    /\ ranOut = {}

Place(p, c) ==
    \/ Enroll(p, c) \/ Enqueue(p, c) \/ Withdraw(p, c) \/ Pause(p, c) \/ Resume(p, c)
    \/ AcceptOffer(p, c) \/ DeclineOffer(p, c) \/ RemoveEntry(p, c) \/ OfferRunsOut(p, c)
    \/ \E d \in given.classes : Promote(p, c, d)

Visit(p, s) ==
    \/ BookDropIn(p, s) \/ CancelBooking(p, s) \/ CreditRunsOut(p, s)
    \/ \E from \in given.sessions : BookMakeup(p, from, s)
    \/ \E how \in {"present", "absent", "excused"} : Mark(p, s, how)

ClassesNext ==
    \/ \E p \in given.people, c \in given.classes : Place(p, c)
    \/ \E p \in given.people, s \in given.sessions : Visit(p, s)
    \/ \E c \in given.classes, n \in 0 .. MaxCapacity : SetCapacity(c, n)
    \/ \E k \in Cards, s \in given.sessions :
          OwnerOf[k] \in given.people /\ BookPunchCard(k, s)
    \/ \E k \in Cards : OwnerOf[k] \in given.people /\ PurchasePunchCard(k)
    \/ \E s \in given.sessions : BookerWaits(s) \/ CancelSession(s)
    \/ TuitionJob

ClassesSpec == ClassesInit /\ [][ClassesNext]_classesVars

-----------------------------------------------------------------------------
(* Properties.                                                             *)

\* What may go wrong in a behaviour, and what it breaks.
\*   removed   staff take an open offer back: nobody else is offered its place
\*   promoted  a promotion frees a place without offering it
\*   raised    a class is enlarged: nobody is offered the new places
\*   batch     two offers of a class expire in one run: one place is offered
\*   race      a booking goes by what it counted before it waited
Mishap(m) == m \in given.mishaps

Entries(c) == InLine(line, c) \X {c}

\* R puts some of the people one after another.
InOrder(R) ==
    /\ \A x \in R : <<x[1], x[1]>> \in R /\ <<x[2], x[2]>> \in R
    /\ \A p, q \in People :
          /\ <<p, p>> \in R /\ <<q, q>> \in R => <<p, q>> \in R \/ <<q, p>> \in R
          /\ <<p, q>> \in R /\ <<q, p>> \in R => p = q
          /\ <<p, q>> \in R => \A r \in People : <<q, r>> \in R => <<p, r>> \in R

\* People wait once for a class, offers are to them, and what runs out exists.
ClassesTypeOK ==
    /\ given \in Givens
    /\ size \in [Classes -> 0 .. MaxCapacity]
    /\ enrolled \in [People \X Classes ->
                        [status : {"none", "trial", "active", "paused"},
                         on : Sessions \cup {NoSession}]]
    /\ line \in [Classes -> SUBSET (People \X People)]
    /\ \A c \in Classes : InOrder(line[c])
    /\ offered \subseteq UNION {Entries(c) : c \in Classes}
    /\ scheduled \subseteq Sessions
    /\ booking \in [People \X Sessions ->
                       {Empty} \cup [by : Payers \cup {Invoice, Trial}, attended : BOOLEAN]]
    /\ missed \in [Payers -> Nat] /\ counted \in [Sessions -> Nat]
    /\ uses \in [Cards -> 0 .. Uses]
    /\ credit \in [Credits -> {"none", "available", "used", "expired"}]
    /\ card \in [Cards -> {"none", "active", "exhausted"}]
    /\ ranOut \subseteq offered \cup Credits

\* Bookings, kept or missed, that x paid for.
PaidBy(x) ==
    Cardinality({y \in DOMAIN booking : booking[y] # Empty /\ booking[y].by = x}) + missed[x]

\* Every booking is paid for once and every payment buys one booking, through
\* cancellations, absences and expiry: a credit is 'used' exactly while it pays
\* for one, and a card has the uses it does not pay for (bookings.ts).
\* Sessions are not overbooked: "Concurrent family enrollments and
\* make-up/drop-in bookings can otherwise exceed capacity" (docs/codex/
\* DECISIONS.md:828) holds unless a booking waited; and trials apart, neither
\* are classes.
BookingsArePaid ==
    /\ \A x \in Credits : PaidBy(x) = IF credit[x] = "used" THEN 1 ELSE 0
    /\ \A k \in Cards : card[k] # "none" =>
          uses[k] + PaidBy(k) = Uses /\ card[k] = Remaining(uses[k])
    /\ \A s \in Sessions : Mishap("race") \/
          Room[s] >= Cardinality({p \in People : /\ booking[<<p, s>>] # Empty
                                                 /\ booking[<<p, s>>].by # Trial})
    /\ \A c \in Classes :
          size[c] >= Cardinality({p \in People :
                                     enrolled[<<p, c>>].status \in {"active", "paused"}})

\* While somebody waits for a class, each of its free places is on offer: who
\* gives a place up, and who lets an offer pass, makes it the next one's
\* (enrollments.ts offerNextWaitlistEntry, tuition-job.ts).
PlacesAreOffered ==
    given.mishaps \cap {"removed", "promoted", "raised", "batch"} = {} =>
        \A c \in Classes :
            Waiting(line, offered, c) # {} =>
                size[c] <= Count(enrolled, c) + Cardinality(offered \cap Entries(c))
=============================================================================
