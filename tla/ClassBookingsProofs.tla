------------------------ MODULE ClassBookingsProofs ------------------------
(***************************************************************************)
(* Proofs about ClassBookings, for every set of people, classes, sessions  *)
(* and punch cards: bookings are paid for once, and the free places of a   *)
(* class with a waitlist are on offer.                                     *)
(***************************************************************************)
EXTENDS ClassBookings, FoldLemmas

-----------------------------------------------------------------------------
(* Waitlists.                                                              *)

Lines == SUBSET (People \X People)

\* Of some people in line one is before all the others.
LEMMA SomebodyIsFirst ==
    ASSUME NEW R \in Lines, InOrder(R), NEW W \in SUBSET People, W # {},
           \A p \in W : <<p, p>> \in R
    PROVE  \E p \in W : \A q \in W : <<p, q>> \in R
<1> DEFINE upTo(p) == {q \in W : <<q, p>> \in R}
           ranges == {upTo(p) : p \in W}
<1>1. IsFiniteSet(W)
  BY ClassesAssumption, FS_Subset
<1>2. ranges \in SUBSET SUBSET W /\ ranges # {}
  OBVIOUS
<1>3. PICK T \in ranges : \A U \in ranges : U \subseteq T => U = T
  <2> HIDE DEF ranges
  <2> QED BY <1>1, <1>2, SmallestSet
<1>4. PICK p \in W : T = upTo(p)
  BY <1>3
<1>5. SUFFICES ASSUME NEW q \in W PROVE <<p, q>> \in R
  BY <1>4
<1>6. CASE <<q, p>> \in R
  <2>1. upTo(q) \subseteq T
    BY <1>4, <1>6 DEF InOrder
  <2>2. upTo(q) = T
    BY <2>1, <1>3
  <2>3. p \in upTo(q)
    BY <2>2, <1>4
  <2> QED BY <2>3
<1>7. CASE <<q, p>> \notin R
  BY <1>7 DEF InOrder
<1> QED BY <1>6, <1>7

\* Who joins is last, and the others keep their places.
LEMMA JoiningKeepsOrder ==
    ASSUME NEW L \in [Classes -> Lines], NEW c \in Classes, InOrder(L[c]),
           NEW p \in People, p \notin InLine(L, c),
           NEW R, R = L[c] \cup (InLine(L, c) \cup {p}) \X {p}
    PROVE  /\ R \in Lines
           /\ InOrder(R)
           /\ \A q \in People : <<q, q>> \in R <=> q \in InLine(L, c) \cup {p}
<1>1. R \in Lines
  BY DEF Lines, InLine
<1>2. \A a, b \in People : <<a, b>> \in R <=> \/ <<a, b>> \in L[c]
                                             \/ (b = p /\ (a = p \/ <<a, a>> \in L[c]))
  BY DEF InLine
<1>3. \A a, b \in People : <<a, b>> \in L[c] => /\ <<a, a>> \in L[c] /\ <<b, b>> \in L[c]
                                               /\ a # p /\ b # p
  BY DEF InOrder, InLine
<1>4. InOrder(R)
  <2>1. ASSUME NEW x \in R PROVE <<x[1], x[1]>> \in R /\ <<x[2], x[2]>> \in R
    <3>1. PICK a \in People, b \in People : x = <<a, b>>
      BY <1>1 DEF Lines
    <3> QED BY <3>1, <1>2, <1>3
  <2>2. ASSUME NEW a \in People, NEW b \in People
        PROVE  /\ <<a, a>> \in R /\ <<b, b>> \in R => <<a, b>> \in R \/ <<b, a>> \in R
               /\ <<a, b>> \in R /\ <<b, a>> \in R => a = b
    BY <1>2, <1>3 DEF InOrder
  <2>3. ASSUME NEW a \in People, NEW b \in People, NEW r \in People,
               <<a, b>> \in R, <<b, r>> \in R
        PROVE  <<a, r>> \in R
    BY <1>2, <1>3, <2>3 DEF InOrder
  <2> QED BY ZenonT(60), <2>1, <2>2, <2>3 DEF InOrder
<1>5. \A q \in People : <<q, q>> \in R <=> q \in InLine(L, c) \cup {p}
  BY <1>2 DEF InLine
<1> QED BY <1>1, <1>4, <1>5

\* When people leave, the others keep their places.
LEMMA LeavingKeepsOrder ==
    ASSUME NEW R \in Lines, InOrder(R), NEW P
    PROVE  /\ Left(R, P) \in Lines
           /\ InOrder(Left(R, P))
           /\ {q \in People : <<q, q>> \in Left(R, P)} = {q \in People : <<q, q>> \in R} \ P
<1>1. Left(R, P) \in Lines
  BY DEF Left, Lines
<1>2. \A a, b \in People :
         <<a, b>> \in Left(R, P) <=> <<a, b>> \in R /\ a \notin P /\ b \notin P
  BY DEF Left
<1>3. InOrder(Left(R, P))
  <2>1. ASSUME NEW x \in Left(R, P)
        PROVE  <<x[1], x[1]>> \in Left(R, P) /\ <<x[2], x[2]>> \in Left(R, P)
    <3>1. PICK a \in People, b \in People : x = <<a, b>>
      BY <1>1 DEF Lines
    <3>2. <<a, a>> \in R /\ <<b, b>> \in R
      BY <3>1, <1>2 DEF InOrder
    <3> QED BY <3>1, <3>2, <1>2
  <2> QED BY <2>1, <1>2 DEF InOrder
<1> QED BY <1>1, <1>2, <1>3

-----------------------------------------------------------------------------
(* Places and offers.                                                      *)

Enrollment == [status : {"none", "trial", "active", "paused"}, on : Sessions \cup {NoSession}]
Enrollments == [People \X Classes -> Enrollment]

\* How many are in a class, when one comes, one goes, and when nobody does.
LEMMA CountIsNat ==
    ASSUME NEW E, NEW c
    PROVE  /\ Count(E, c) \in Nat
           /\ IsFiniteSet({p \in People : Live(E, p, c)})
<1>1. IsFiniteSet({p \in People : Live(E, p, c)})
  BY ClassesAssumption, FS_Subset
<1> QED BY <1>1, FS_CardinalityType DEF Count

LEMMA CountSame ==
    ASSUME NEW E, NEW F, NEW c, \A p \in People : Live(F, p, c) <=> Live(E, p, c)
    PROVE  Count(F, c) = Count(E, c)
<1>1. {p \in People : Live(F, p, c)} = {p \in People : Live(E, p, c)}
  OBVIOUS
<1> QED BY <1>1 DEF Count

LEMMA CountJoined ==
    ASSUME NEW E, NEW F, NEW c, NEW p \in People, ~ Live(E, p, c), Live(F, p, c),
           \A q \in People \ {p} : Live(F, q, c) <=> Live(E, q, c)
    PROVE  Count(F, c) = Count(E, c) + 1
<1> DEFINE S == {q \in People : Live(E, q, c)}
<1>1. {q \in People : Live(F, q, c)} = S \cup {p} /\ p \notin S
  OBVIOUS
<1>2. IsFiniteSet(S)
  BY CountIsNat
<1> HIDE DEF S
<1>3. Cardinality(S \cup {p}) = Cardinality(S) + 1
  BY <1>1, <1>2, FS_AddElement
<1> QED BY <1>1, <1>3 DEF Count, S

\* The offers of a class.
Of(O, c) == O \cap (People \X {c})

LEMMA OffersOfClass ==
    ASSUME NEW O, NEW c
    PROVE  IsFiniteSet(Of(O, c)) /\ Cardinality(Of(O, c)) \in Nat
<1>1. IsFiniteSet(People \X {c})
  BY ClassesAssumption, FS_Product, FS_Singleton
<1>2. IsFiniteSet(Of(O, c))
  BY <1>1, FS_Subset DEF Of
<1> QED BY <1>2, FS_CardinalityType

\* Who of those that wait for a class is the first of them.
LEMMA FirstWaits ==
    ASSUME NEW L \in [Classes -> Lines], NEW c \in Classes, InOrder(L[c]), NEW O,
           Waiting(L, O, c) # {}
    PROVE  First(L, O, c) \in Waiting(L, O, c)
<1>1. /\ Waiting(L, O, c) \in SUBSET People /\ L[c] \in Lines
      /\ \A p \in Waiting(L, O, c) : <<p, p>> \in L[c]
  BY DEF Waiting, InLine
<1>2. \E p \in Waiting(L, O, c) : \A q \in Waiting(L, O, c) : <<p, q>> \in L[c]
  BY <1>1, SomebodyIsFirst
<1> QED BY <1>2 DEF First

\* Of the classes C, c has a place and somebody to offer it to.
Offers(C, E, L, O, c) == c \in C /\ Count(E, c) < size[c] /\ Waiting(L, O, c) # {}

\* The lines of all the classes.
InLines(L) == L \in [Classes -> Lines] /\ \A c \in Classes : InOrder(L[c])

LEMMA OfferIsToFirst ==
    ASSUME NEW C \in SUBSET Classes, NEW E, NEW L, InLines(L), NEW O,
           NEW c \in Classes, Offers(C, E, L, O, c)
    PROVE  /\ First(L, O, c) \in InLine(L, c) /\ First(L, O, c) \in People
           /\ <<First(L, O, c), c>> \notin O
<1>1. L \in [Classes -> Lines] /\ InOrder(L[c]) /\ Waiting(L, O, c) # {}
  BY DEF InLines, Offers
<1>2. First(L, O, c) \in Waiting(L, O, c)
  BY <1>1, FirstWaits
<1> QED BY <1>2 DEF Waiting, InLine

\* What offerNextWaitlistEntry adds: for each of its classes with a place, one
\* offer to the first that waits.
LEMMA NextIsOffered ==
    ASSUME NEW C \in SUBSET Classes, NEW E, NEW L, InLines(L),
           NEW O \in SUBSET (People \X Classes)
    PROVE  /\ OfferedNext(C, E, L, O) \in SUBSET (People \X Classes)
           /\ O \subseteq OfferedNext(C, E, L, O)
           /\ \A q \in People, c \in Classes :
                 <<q, c>> \in OfferedNext(C, E, L, O) \ O => q \in InLine(L, c)
<1> DEFINE N == OfferedNext(C, E, L, O)
<1>1. N = O \cup {<<First(L, O, c), c>> : c \in {d \in C : Offers(C, E, L, O, d)}}
  BY DEF OfferedNext, Offers
<1> HIDE DEF N
<1>2. ASSUME NEW x \in N \ O
      PROVE  \E c \in Classes : x = <<First(L, O, c), c>> /\ Offers(C, E, L, O, c)
  BY <1>1
<1>3. ASSUME NEW x \in N \ O
      PROVE  \E c \in Classes, q \in People : x = <<q, c>> /\ q \in InLine(L, c)
  BY <1>2, OfferIsToFirst
<1>4. N \in SUBSET (People \X Classes)
  BY <1>3
<1>5. \A q \in People, c \in Classes : <<q, c>> \in N \ O => q \in InLine(L, c)
  BY <1>3
<1> QED BY <1>1, <1>4, <1>5 DEF N

LEMMA OfferedOfClass ==
    ASSUME NEW C \in SUBSET Classes, NEW E, NEW L, NEW O, NEW c \in Classes,
           NEW x \in People \X {c}
    PROVE  x \in OfferedNext(C, E, L, O)
             <=> (x \in O \/ (Offers(C, E, L, O, c) /\ x = <<First(L, O, c), c>>))
<1> DEFINE N == OfferedNext(C, E, L, O)
<1>1. N = O \cup {<<First(L, O, d), d>> : d \in {d \in C : Offers(C, E, L, O, d)}}
  BY DEF OfferedNext, Offers
<1>2. PICK q \in People : x = <<q, c>>
  OBVIOUS
<1> HIDE DEF N
<1> QED BY <1>1, <1>2 DEF Offers, N

LEMMA NobodyIsOffered ==
    ASSUME NEW C \in SUBSET Classes, NEW E, NEW L, NEW O, NEW c \in Classes,
           ~ Offers(C, E, L, O, c)
    PROVE  Of(OfferedNext(C, E, L, O), c) = Of(O, c)
BY OfferedOfClass DEF Of

LEMMA FirstIsOffered ==
    ASSUME NEW C \in SUBSET Classes, NEW E, NEW L, InLines(L), NEW O,
           NEW c \in Classes, Offers(C, E, L, O, c)
    PROVE  /\ <<First(L, O, c), c>> \notin Of(O, c)
           /\ Of(OfferedNext(C, E, L, O), c) = Of(O, c) \cup {<<First(L, O, c), c>>}
<1>1. <<First(L, O, c), c>> \in People \X {c} /\ <<First(L, O, c), c>> \notin O
  BY OfferIsToFirst
<1> QED BY <1>1, OfferedOfClass DEF Of

\* While somebody waits for c, its free places are on offer, but for k.
OnOffer(n, E, L, O, c, k) ==
    Waiting(L, O, c) # {} => n <= Count(E, c) + Cardinality(Of(O, c)) + k

\* A place that offerNextWaitlistEntry passes on is on offer again.
LEMMA PlaceGoesOn ==
    ASSUME NEW C \in SUBSET Classes, NEW E, NEW L, InLines(L),
           NEW O \in SUBSET (People \X Classes), NEW c \in Classes, size[c] \in Nat,
           OnOffer(size[c], E, L, O, c, IF c \in C THEN 1 ELSE 0)
    PROVE  OnOffer(size[c], E, L, OfferedNext(C, E, L, O), c, 0)
<1> DEFINE N == OfferedNext(C, E, L, O)
<1> SUFFICES ASSUME Waiting(L, N, c) # {}
             PROVE  size[c] <= Count(E, c) + Cardinality(Of(N, c))
  <2>1. Count(E, c) \in Nat /\ Cardinality(Of(N, c)) \in Nat
    BY CountIsNat, OffersOfClass
  <2> QED BY <2>1 DEF OnOffer
<1>1. O \subseteq N
  BY NextIsOffered
<1>2. Waiting(L, O, c) # {}
  BY <1>1 DEF Waiting
<1>3. /\ Count(E, c) \in Nat /\ Cardinality(Of(N, c)) \in Nat
      /\ Cardinality(Of(O, c)) \in Nat /\ IsFiniteSet(Of(O, c))
  BY CountIsNat, OffersOfClass
<1>4. CASE Offers(C, E, L, O, c)
  <2>1. /\ <<First(L, O, c), c>> \notin Of(O, c)
        /\ Of(N, c) = Of(O, c) \cup {<<First(L, O, c), c>>}
    BY <1>4, FirstIsOffered
  <2>2. Cardinality(Of(N, c)) = Cardinality(Of(O, c)) + 1
    BY <2>1, <1>3, FS_AddElement
  <2> QED BY <2>2, <1>2, <1>3 DEF OnOffer
<1>5. CASE ~ Offers(C, E, L, O, c)
  <2>1. Of(N, c) = Of(O, c)
    BY <1>5, NobodyIsOffered
  <2>2. c \notin C \/ size[c] <= Count(E, c)
    BY <1>5, <1>2, <1>3 DEF Offers
  <2> QED BY <2>1, <2>2, <1>2, <1>3 DEF OnOffer
<1> QED BY <1>4, <1>5

-----------------------------------------------------------------------------
(* Types.                                                                  *)

\* O offers places to people in the lines L.
OffersTo(O, L) ==
    /\ O \in SUBSET (People \X Classes)
    /\ \A p \in People, c \in Classes : <<p, c>> \in O => p \in InLine(L, c)

PlacesTypeOK ==
    /\ given \in Givens
    /\ size \in [Classes -> 0 .. MaxCapacity]
    /\ enrolled \in Enrollments
    /\ InLines(line)
    /\ OffersTo(offered, line)
    /\ ranOut \subseteq offered \cup Credits

\* What booking holds for a person and a session.
Booking == [by : Payers \cup {Invoice, Trial}, attended : BOOLEAN]
Bookings == [People \X Sessions -> {Empty} \cup Booking]

DeskTypeOK ==
    /\ scheduled \subseteq Sessions
    /\ booking \in Bookings
    /\ missed \in [Payers -> Nat] /\ counted \in [Sessions -> Nat]
    /\ uses \in [Cards -> 0 .. Uses]
    /\ credit \in [Credits -> {"none", "available", "used", "expired"}]
    /\ card \in [Cards -> {"none", "active", "exhausted"}]

LEMMA TypeParts == ClassesTypeOK <=> PlacesTypeOK /\ DeskTypeOK
<1>1. (\A p \in People, c \in Classes : <<p, c>> \in offered => p \in InLine(line, c))
        /\ offered \in SUBSET (People \X Classes)
      <=> offered \subseteq UNION {Entries(c) : c \in Classes}
  <2>1. ASSUME offered \in SUBSET (People \X Classes),
               \A p \in People, c \in Classes : <<p, c>> \in offered => p \in InLine(line, c)
        PROVE  offered \subseteq UNION {Entries(c) : c \in Classes}
    BY <2>1 DEF Entries
  <2>2. ASSUME offered \subseteq UNION {Entries(c) : c \in Classes}
        PROVE  offered \in SUBSET (People \X Classes)
    <3>1. ASSUME NEW c \in Classes PROVE Entries(c) \subseteq People \X Classes
      BY DEF Entries, InLine
    <3> QED BY <2>2, <3>1
  <2>3. ASSUME offered \subseteq UNION {Entries(c) : c \in Classes},
               NEW p \in People, NEW c \in Classes, <<p, c>> \in offered
        PROVE  p \in InLine(line, c)
    BY <2>3 DEF Entries
  <2> QED BY <2>1, <2>2, <2>3
<1> QED
  BY <1>1 DEF ClassesTypeOK, PlacesTypeOK, DeskTypeOK, OffersTo, Enrollments, Enrollment,
              InLines, Lines, Bookings, Booking

\* Who and what a behaviour is about.
LEMMA GivenTypes ==
    ASSUME given \in Givens
    PROVE  /\ given.people \subseteq People /\ given.classes \subseteq Classes
           /\ given.sessions \subseteq Sessions /\ given.places \in 0 .. MaxCapacity
BY ClassesAssumption

\* An entry that is closed leaves the line; the rest of the lines is the same.
LEMMA ClosingKeepsLines ==
    ASSUME InLines(line), NEW p, NEW c \in Classes, Close(p, c)
    PROVE  /\ InLines(line')
           /\ InLine(line', c) = InLine(line, c) \ {p}
           /\ \A d \in Classes \ {c} : line'[d] = line[d]
<1>1. line[c] \in Lines /\ InOrder(line[c])
  BY DEF InLines
<1>2. Left(line[c], {p}) \in Lines /\ InOrder(Left(line[c], {p}))
  BY <1>1, LeavingKeepsOrder
<1>3. line' \in [Classes -> Lines] /\ line'[c] = Left(line[c], {p})
  BY <1>2 DEF Close, InLines
<1>4. \A d \in Classes \ {c} : line'[d] = line[d]
  BY DEF Close, InLines
<1>5. InLine(line', c) = InLine(line, c) \ {p}
  BY <1>1, <1>3, LeavingKeepsOrder DEF InLine
<1>6. InLines(line')
  BY <1>2, <1>3, <1>4 DEF InLines
<1> QED BY <1>4, <1>5, <1>6

LEMMA OfferTypes ==
    ASSUME NEW C \in SUBSET Classes, NEW E, NEW L, InLines(L), NEW O, OffersTo(O, L)
    PROVE  /\ OffersTo(OfferedNext(C, E, L, O), L)
           /\ O \subseteq OfferedNext(C, E, L, O)
<1>1. O \in SUBSET (People \X Classes)
  BY DEF OffersTo
<1> QED BY <1>1, NextIsOffered DEF OffersTo

LEMMA EnrollmentKinds ==
    /\ Out \in Enrollment /\ Active \in Enrollment
    /\ [Active EXCEPT !.status = "paused"] \in Enrollment
    /\ \A s \in Sessions \cup {NoSession} : [status |-> "trial", on |-> s] \in Enrollment
BY DEF Out, Active, Enrollment

LEMMA EnrollingTypes ==
    ASSUME PlacesTypeOK, NEW p \in People, NEW c \in Classes,
           EnrollActive(p, c) \/ \E s \in given.sessions \cup {NoSession} : EnrollTrial(p, c, s)
    PROVE  /\ enrolled' \in Enrollments
           /\ \E how \in Enrollment : how.status # "none" /\ ~ Live(enrolled, p, c)
                                    /\ enrolled' = [enrolled EXCEPT ![<<p, c>>] = how]
<1>1. \E how \in Enrollment : how.status # "none" /\ EnrollAs(p, c, how)
  <2>1. CASE EnrollActive(p, c)
    BY <2>1, EnrollmentKinds DEF EnrollActive, Active
  <2>2. ASSUME NEW s \in given.sessions \cup {NoSession}, EnrollTrial(p, c, s)
        PROVE  \E how \in Enrollment : how.status # "none" /\ EnrollAs(p, c, how)
    <3>1. s \in Sessions \cup {NoSession}
      BY GivenTypes DEF PlacesTypeOK
    <3>2. [status |-> "trial", on |-> s] \in Enrollment
      BY <3>1, EnrollmentKinds
    <3> QED BY <2>2, <3>2 DEF EnrollTrial
  <2> QED BY <2>1, <2>2
<1> QED BY <1>1 DEF EnrollAs, PlacesTypeOK, Enrollments

LEMMA OneEnrollmentTypes ==
    ASSUME enrolled \in Enrollments, NEW x, NEW how \in Enrollment
    PROVE  [enrolled EXCEPT ![x] = how] \in Enrollments
BY DEF Enrollments

LEMMA PlacesTypesStart == ClassesInit => PlacesTypeOK
<1> SUFFICES ASSUME ClassesInit PROVE PlacesTypeOK
  OBVIOUS
<1>1. InLines(line)
  BY DEF ClassesInit, InLines, Lines, InOrder
<1>2. size \in [Classes -> 0 .. MaxCapacity] /\ given \in Givens
  BY GivenTypes DEF ClassesInit
<1>3. enrolled \in Enrollments
  BY EnrollmentKinds DEF ClassesInit, Enrollments
<1>4. OffersTo(offered, line)
  BY DEF ClassesInit, OffersTo
<1> QED BY <1>1, <1>2, <1>3, <1>4 DEF ClassesInit, PlacesTypeOK

LEMMA PlaceTypesKept ==
    ASSUME PlacesTypeOK, NEW p \in given.people, NEW c \in given.classes, Place(p, c)
    PROVE  PlacesTypeOK'
<1>0. p \in People /\ c \in Classes /\ given.classes \subseteq Classes
  BY GivenTypes DEF PlacesTypeOK
<1> USE DEF PlacesTypeOK, service, desk
<1>1. CASE Enroll(p, c)
  <2>1. enrolled' \in Enrollments
    BY <1>0, <1>1, EnrollingTypes DEF Enroll
  <2> QED BY <1>1, <2>1 DEF Enroll, InLine
<1>2. CASE Enqueue(p, c)
  <2>1. line[c] \in Lines /\ InOrder(line[c]) /\ line \in [Classes -> Lines]
    BY <1>0 DEF InLines
  <2>2. /\ line'[c] = line[c] \cup (InLine(line, c) \cup {p}) \X {p}
        /\ p \notin InLine(line, c)
    BY <1>0, <1>2, <2>1 DEF Enqueue
  <2>6. /\ line'[c] \in Lines /\ InOrder(line'[c])
        /\ \A q \in People : <<q, q>> \in line'[c] <=> q \in InLine(line, c) \cup {p}
    BY <1>0, <2>1, <2>2, JoiningKeepsOrder
  <2>3. \A d \in Classes \ {c} : line'[d] = line[d]
    BY <1>2, <2>1 DEF Enqueue
  <2>4. InLines(line')
    BY <1>0, <1>2, <2>1, <2>6, <2>3 DEF Enqueue, InLines
  <2>5. \A q \in People, d \in Classes : q \in InLine(line, d) => q \in InLine(line', d)
    BY <2>6, <2>3 DEF InLine
  <2> QED BY <1>2, <2>4, <2>5 DEF Enqueue, OffersTo
<1>3. CASE Withdraw(p, c)
  <2>1. enrolled' \in Enrollments
    BY <1>3, EnrollmentKinds, OneEnrollmentTypes DEF Withdraw
  <2>2. OffersTo(offered', line) /\ offered \subseteq offered'
    BY <1>0, <1>3, OfferTypes DEF Withdraw
  <2> QED BY <1>3, <2>1, <2>2 DEF Withdraw, InLine
<1>4. CASE Pause(p, c)
  <2>1. enrolled' \in Enrollments
    BY <1>4, EnrollmentKinds, OneEnrollmentTypes DEF Pause
  <2> QED BY <1>4, <2>1 DEF Pause, InLine
<1>5. CASE Resume(p, c)
  <2>1. enrolled' \in Enrollments
    BY <1>5, EnrollmentKinds, OneEnrollmentTypes DEF Resume
  <2> QED BY <1>5, <2>1 DEF Resume, InLine
<1>6. CASE AcceptOffer(p, c)
  <2>1. enrolled' \in Enrollments
    BY <1>0, <1>6, EnrollingTypes DEF AcceptOffer
  <2>2. /\ InLines(line') /\ InLine(line', c) = InLine(line, c) \ {p}
        /\ \A d \in Classes \ {c} : line'[d] = line[d]
    BY <1>0, <1>6, ClosingKeepsLines DEF AcceptOffer
  <2>3. OffersTo(offered', line')
    BY <1>0, <1>6, <2>2 DEF AcceptOffer, InLine, OffersTo
  <2> QED BY <1>6, <2>1, <2>2, <2>3 DEF AcceptOffer, Close
<1>7. CASE DeclineOffer(p, c)
  <2>1. /\ InLines(line') /\ InLine(line', c) = InLine(line, c) \ {p}
        /\ \A d \in Classes \ {c} : line'[d] = line[d]
    BY <1>0, <1>7, ClosingKeepsLines DEF DeclineOffer
  <2>2. OffersTo(offered \ {<<p, c>>}, line')
    BY <1>0, <2>1 DEF InLine, OffersTo
  <2>3. OffersTo(offered', line') /\ offered \ {<<p, c>>} \subseteq offered'
    BY <1>0, <1>7, <2>1, <2>2, OfferTypes DEF DeclineOffer
  <2> QED BY <1>7, <2>1, <2>3 DEF DeclineOffer, Close
<1>8. CASE RemoveEntry(p, c)
  <2>1. /\ InLines(line') /\ InLine(line', c) = InLine(line, c) \ {p}
        /\ \A d \in Classes \ {c} : line'[d] = line[d]
    BY <1>0, <1>8, ClosingKeepsLines DEF RemoveEntry
  <2>2. OffersTo(offered', line')
    BY <1>0, <1>8, <2>1 DEF RemoveEntry, InLine, OffersTo
  <2> QED BY <1>8, <2>1, <2>2 DEF RemoveEntry, Close
<1>9. CASE OfferRunsOut(p, c)
  BY <1>9 DEF OfferRunsOut, InLine
<1>10. ASSUME NEW d \in given.classes, Promote(p, c, d) PROVE PlacesTypeOK'
  <2>1. enrolled' \in Enrollments
    BY <1>10, EnrollmentKinds DEF Promote, Enrollments
  <2> QED BY <1>10, <2>1 DEF Promote, InLine
<1> QED
  BY <1>1, <1>2, <1>3, <1>4, <1>5, <1>6, <1>7, <1>8, <1>9, <1>10 DEF Place

\* The offers that are over leave the lines.
LEMMA EndingOffersKeepsLines ==
    ASSUME InLines(line), NEW over,
           line' = [c \in Classes |-> Left(line[c], {p \in People : <<p, c>> \in over})]
    PROVE  /\ InLines(line')
           /\ \A p \in People, c \in Classes :
                 p \in InLine(line', c) <=> p \in InLine(line, c) /\ <<p, c>> \notin over
<1>1. ASSUME NEW c \in Classes
      PROVE  /\ line'[c] \in Lines /\ InOrder(line'[c])
             /\ \A p \in People :
                   p \in InLine(line', c) <=> p \in InLine(line, c) /\ <<p, c>> \notin over
  <2> DEFINE P == {p \in People : <<p, c>> \in over}
  <2>1. line[c] \in Lines /\ InOrder(line[c]) /\ line'[c] = Left(line[c], P)
    BY DEF InLines
  <2>2. \A p \in People : p \in P <=> <<p, c>> \in over
    OBVIOUS
  <2> HIDE DEF P
  <2>3. Left(line[c], P) \in Lines /\ InOrder(Left(line[c], P))
    BY <2>1, LeavingKeepsOrder
  <2>4. \A p \in People : p \in InLine(line', c) <=> p \in InLine(line, c) /\ p \notin P
    BY <2>1 DEF InLine, Left
  <2> QED BY <2>1, <2>2, <2>3, <2>4
<1> QED BY <1>1 DEF InLines

LEMMA JobPlaceTypesKept == ASSUME PlacesTypeOK, TuitionJob PROVE PlacesTypeOK'
<1> DEFINE over == offered \cap ranOut
           C == {x[2] : x \in over}
<1>1. PICK resumed \in SUBSET {x \in DOMAIN enrolled : enrolled[x].status = "paused"} :
         /\ line' = [c \in Classes |-> Left(line[c], {p \in People : <<p, c>> \in over})]
         /\ offered' = OfferedNext(C, enrolled, line', offered \ over)
         /\ enrolled' = [x \in DOMAIN enrolled |->
                            IF x \in resumed THEN Active ELSE enrolled[x]]
         /\ ranOut' = ranOut \ over
         /\ UNCHANGED <<given, size>>
  BY DEF TuitionJob
<1>2. /\ InLines(line')
      /\ \A p \in People, c \in Classes :
            p \in InLine(line', c) <=> p \in InLine(line, c) /\ <<p, c>> \notin over
  BY <1>1, EndingOffersKeepsLines DEF PlacesTypeOK
<1>3. C \in SUBSET Classes
  BY DEF PlacesTypeOK, OffersTo
<1>4. OffersTo(offered \ over, line')
  BY <1>2 DEF PlacesTypeOK, OffersTo
<1> HIDE DEF over, C
<1>5. OffersTo(offered', line') /\ offered \ over \subseteq offered'
  BY <1>1, <1>2, <1>3, <1>4, OfferTypes
<1>6. enrolled' \in Enrollments
  BY <1>1, EnrollmentKinds DEF PlacesTypeOK, Enrollments
<1>7. ranOut' \subseteq offered' \cup Credits
  BY <1>1, <1>5 DEF PlacesTypeOK, over
<1> QED BY <1>1, <1>2, <1>5, <1>6, <1>7 DEF PlacesTypeOK

LEMMA PlacesTypesKept ==
    ASSUME PlacesTypeOK, [ClassesNext]_classesVars PROVE PlacesTypeOK'
<1>1. ASSUME NEW p \in given.people, NEW c \in given.classes, Place(p, c) PROVE PlacesTypeOK'
  BY <1>1, PlaceTypesKept
<1>2. ASSUME NEW p \in given.people, NEW s \in given.sessions, Visit(p, s) PROVE PlacesTypeOK'
  <2>1. given' = given /\ UNCHANGED service
    BY <1>2 DEF Visit, BookDropIn, CancelBooking, CreditRunsOut, BookMakeup, Mark, Book, service
  <2>2. p \in People /\ s \in Sessions
    BY GivenTypes DEF PlacesTypeOK
  <2>3. ranOut' = ranOut \/ ranOut' = ranOut \cup {<<p, s>>}
    BY <1>2 DEF Visit, BookDropIn, CancelBooking, CreditRunsOut, BookMakeup, Mark, Book
  <2>4. ranOut' \subseteq offered \cup Credits
    BY <2>2, <2>3 DEF PlacesTypeOK, Credits
  <2> QED BY <2>1, <2>4 DEF PlacesTypeOK, service, InLine
<1>3. ASSUME NEW c \in given.classes, NEW n \in 0 .. MaxCapacity, SetCapacity(c, n)
      PROVE  PlacesTypeOK'
  BY <1>3 DEF SetCapacity, PlacesTypeOK, desk
<1>4. ASSUME UNCHANGED <<service, ranOut>> PROVE PlacesTypeOK'
  BY <1>4 DEF PlacesTypeOK, service
<1>5. ASSUME NEW k \in Cards, NEW s \in given.sessions, BookPunchCard(k, s) PROVE PlacesTypeOK'
  BY <1>5, <1>4 DEF BookPunchCard, Book
<1>6. ASSUME NEW k \in Cards, PurchasePunchCard(k) PROVE PlacesTypeOK'
  BY <1>6, <1>4 DEF PurchasePunchCard
<1>7. ASSUME NEW s \in given.sessions, BookerWaits(s) \/ CancelSession(s) PROVE PlacesTypeOK'
  BY <1>7, <1>4 DEF BookerWaits, CancelSession
<1>8. CASE UNCHANGED classesVars
  BY <1>8, <1>4 DEF classesVars
<1> QED
  BY <1>1, <1>2, <1>3, <1>5, <1>6, <1>7, <1>8, JobPlaceTypesKept DEF ClassesNext

-----------------------------------------------------------------------------
(* Bookings.                                                               *)

\* The bookings kept that x pays for.
Kept(b, x) == {y \in DOMAIN b : b[y] # Empty /\ b[y].by = x}

LEMMA EmptyIsNoBooking == Empty \notin Booking
BY ClassesAssumption DEF Booking, Payers

LEMMA KeptFinite ==
    ASSUME NEW b \in Bookings, NEW x
    PROVE  IsFiniteSet(Kept(b, x)) /\ Cardinality(Kept(b, x)) \in Nat
<1>1. IsFiniteSet(People \X Sessions)
  BY ClassesAssumption, FS_Product
<1>2. IsFiniteSet(Kept(b, x))
  BY <1>1, FS_Subset DEF Kept, Bookings
<1> QED BY <1>2, FS_CardinalityType

\* The bookings b with r, a booking or none, for y.
Put(b, y, r) == [b EXCEPT ![y] = r]

\* Who books pays for one more, and a booking that ends takes it away.
LEMMA KeptBooked ==
    ASSUME NEW b \in Bookings, NEW y \in People \X Sessions, b[y] = Empty, NEW r \in Booking,
           NEW x
    PROVE  LET a == Put(b, y, r) IN
           /\ a \in Bookings
           /\ Cardinality(Kept(a, x)) = Cardinality(Kept(b, x)) + (IF x = r.by THEN 1 ELSE 0)
<1> DEFINE a == Put(b, y, r)
<1>1. a \in Bookings
  BY DEF Bookings, Put
<1>2. r # Empty
  BY EmptyIsNoBooking
<1>3. CASE x = r.by
  <2>1. Kept(a, x) = Kept(b, x) \cup {y} /\ y \notin Kept(b, x)
    BY <1>2, <1>3 DEF Kept, Bookings, Put
  <2>2. Cardinality(Kept(a, x)) = Cardinality(Kept(b, x)) + 1
    BY <2>1, KeptFinite, FS_AddElement
  <2> QED BY <1>1, <1>3, <2>2
<1>4. CASE x # r.by
  <2>1. Kept(a, x) = Kept(b, x)
    BY <1>4 DEF Kept, Bookings, Put
  <2>2. Cardinality(Kept(b, x)) \in Nat
    BY KeptFinite
  <2> QED BY <1>1, <1>4, <2>1, <2>2
<1> QED BY <1>3, <1>4

LEMMA KeptEnded ==
    ASSUME NEW b \in Bookings, NEW y \in People \X Sessions, b[y] # Empty, NEW x
    PROVE  LET a == Put(b, y, Empty) IN
           /\ a \in Bookings
           /\ Cardinality(Kept(b, x)) = Cardinality(Kept(a, x)) + (IF x = b[y].by THEN 1 ELSE 0)
<1> DEFINE a == Put(b, y, Empty)
<1>1. a \in Bookings /\ b[y] \in Booking /\ a[y] = Empty
  BY DEF Bookings, Put
<1>2. b = Put(a, y, b[y])
  BY DEF Bookings, Put
<1> HIDE DEF a
<1>3. Cardinality(Kept(Put(a, y, b[y]), x))
        = Cardinality(Kept(a, x)) + (IF x = b[y].by THEN 1 ELSE 0)
  BY <1>1, KeptBooked
<1> QED BY <1>1, <1>2, <1>3 DEF a

\* Attending is no other payment.
Attend(b, y) == [b EXCEPT ![y].attended = TRUE]

LEMMA KeptAttended ==
    ASSUME NEW b \in Bookings, NEW y \in People \X Sessions, b[y] # Empty, NEW x
    PROVE  /\ Attend(b, y) \in Bookings
           /\ Kept(Attend(b, y), x) = Kept(b, x)
<1> DEFINE a == Attend(b, y)
<1>1. b[y] \in Booking
  BY DEF Bookings
<1>2. [b[y] EXCEPT !.attended = TRUE] \in Booking
  BY <1>1 DEF Booking
<1>3. /\ [b[y] EXCEPT !.attended = TRUE].by = b[y].by
      /\ [b[y] EXCEPT !.attended = TRUE] # Empty
  BY <1>1, <1>2, EmptyIsNoBooking DEF Booking
<1>4. a = [b EXCEPT ![y] = [b[y] EXCEPT !.attended = TRUE]]
  BY DEF Bookings, Attend
<1>5. a \in Bookings
  BY <1>2, <1>4 DEF Bookings
<1>6. Kept(a, x) = Kept(b, x)
  BY <1>3, <1>4 DEF Kept, Bookings
<1> QED BY <1>5, <1>6

-----------------------------------------------------------------------------
(* Trials apart, a class has no more people than places.                   *)

Seated(E, c) == {p \in People : E[<<p, c>>].status \in {"active", "paused"}}
ClassFits(E, z, c) == Cardinality(Seated(E, c)) <= z[c]
ClassesFit == \A c \in Classes : ClassFits(enrolled, size, c)

LEMMA SeatedAreLive ==
    ASSUME NEW E, NEW c
    PROVE  /\ IsFiniteSet(Seated(E, c)) /\ Cardinality(Seated(E, c)) \in Nat
           /\ Cardinality(Seated(E, c)) <= Count(E, c)
<1>1. Seated(E, c) \subseteq {p \in People : Live(E, p, c)}
  BY DEF Seated, Live
<1>2. IsFiniteSet({p \in People : Live(E, p, c)})
  BY CountIsNat
<1> QED BY <1>1, <1>2, FS_Subset, FS_CardinalityType DEF Count

\* A class with a free place may take one more.
LEMMA OneMoreFits ==
    ASSUME NEW E \in Enrollments, NEW z, NEW c \in Classes, z[c] \in Nat,
           NEW p \in People, ~ Live(E, p, c), ~ (Count(E, c) >= z[c]),
           NEW F, Live(F, p, c), \A q \in People \ {p} : F[<<q, c>>] = E[<<q, c>>]
    PROVE  ClassFits(F, z, c)
<1>1. Count(F, c) = Count(E, c) + 1
  BY CountJoined DEF Live
<1>2. /\ Count(E, c) \in Nat
      /\ Cardinality(Seated(F, c)) \in Nat /\ Cardinality(Seated(F, c)) <= Count(F, c)
  BY CountIsNat, SeatedAreLive
<1> QED BY <1>1, <1>2 DEF ClassFits

LEMMA NoMoreFits ==
    ASSUME NEW E, NEW F, NEW z, NEW c \in Classes, z[c] \in Nat, ClassFits(E, z, c),
           \A p \in People : F[<<p, c>>].status \in {"active", "paused"} =>
                             E[<<p, c>>].status \in {"active", "paused"}
    PROVE  ClassFits(F, z, c)
<1>1. Seated(F, c) \subseteq Seated(E, c)
  BY DEF Seated
<1>2. /\ Cardinality(Seated(F, c)) \in Nat /\ Cardinality(Seated(E, c)) \in Nat
      /\ Cardinality(Seated(F, c)) <= Cardinality(Seated(E, c))
  BY <1>1, SeatedAreLive, FS_Subset
<1> QED BY <1>2 DEF ClassFits

LEMMA ClassesFitAtStart == ClassesInit => ClassesFit
<1> SUFFICES ASSUME ClassesInit, NEW c \in Classes PROVE ClassFits(enrolled, size, c)
  BY DEF ClassesFit
<1>1. Seated(enrolled, c) = {}
  BY DEF ClassesInit, Seated, Out
<1>2. Cardinality(Seated(enrolled, c)) = 0
  BY <1>1, FS_EmptySet
<1>3. size[c] \in Nat
  BY GivenTypes DEF ClassesInit
<1> QED BY <1>2, <1>3 DEF ClassFits

LEMMA EnrollingFits ==
    ASSUME PlacesTypeOK, ClassesFit, NEW p \in People, NEW c \in Classes, UNCHANGED size,
           EnrollActive(p, c) \/ \E s \in given.sessions \cup {NoSession} : EnrollTrial(p, c, s)
    PROVE  ClassesFit'
<1> SUFFICES ASSUME NEW d \in Classes PROVE ClassFits(enrolled', size, d)
  BY DEF ClassesFit, ClassFits, Seated
<1>0. enrolled \in Enrollments /\ size[d] \in Nat /\ ClassFits(enrolled, size, d)
  BY DEF PlacesTypeOK, ClassesFit
<1>1. CASE EnrollActive(p, c) /\ d = c
  <2>1. /\ ~ Live(enrolled, p, c) /\ ~ (Count(enrolled, c) >= size[c])
        /\ Live(enrolled', p, c)
        /\ \A q \in People \ {p} : enrolled'[<<q, c>>] = enrolled[<<q, c>>]
    BY <1>0, <1>1 DEF EnrollActive, EnrollAs, Full, Live, Enrollments, Active
  <2> QED BY <1>0, <1>1, <2>1, OneMoreFits
<1>2. CASE EnrollActive(p, c) /\ d # c
  <2>1. \A q \in People : enrolled'[<<q, d>>] = enrolled[<<q, d>>]
    BY <1>0, <1>2 DEF EnrollActive, EnrollAs, Enrollments
  <2> QED BY <1>0, <2>1, NoMoreFits
<1>3. ASSUME NEW s \in given.sessions \cup {NoSession}, EnrollTrial(p, c, s)
      PROVE  ClassFits(enrolled', size, d)
  <2>1. \A q \in People : \/ enrolled'[<<q, d>>] = enrolled[<<q, d>>]
                          \/ enrolled'[<<q, d>>].status = "trial"
    BY <1>0, <1>3 DEF EnrollTrial, EnrollAs, Enrollments
  <2> QED BY <1>0, <2>1, NoMoreFits
<1> QED BY <1>1, <1>2, <1>3

LEMMA ClassesFitKept ==
    ASSUME PlacesTypeOK, ClassesFit, [ClassesNext]_classesVars PROVE ClassesFit'
<1>0. enrolled \in Enrollments /\ \A c \in Classes : size[c] \in Nat
  BY DEF PlacesTypeOK
\* Nobody is seated who was not.
<1>1. ASSUME UNCHANGED size,
             \A p \in People, c \in Classes :
                enrolled'[<<p, c>>].status \in {"active", "paused"} =>
                   enrolled[<<p, c>>].status \in {"active", "paused"}
      PROVE  ClassesFit'
  <2> SUFFICES ASSUME NEW c \in Classes PROVE ClassFits(enrolled', size, c)
    BY <1>1 DEF ClassesFit, ClassFits, Seated
  <2>1. size[c] \in Nat /\ ClassFits(enrolled, size, c)
    BY <1>0 DEF ClassesFit
  <2> QED BY <1>1, <2>1, NoMoreFits
<1>2. ASSUME UNCHANGED <<size, enrolled>> PROVE ClassesFit'
  BY <1>1, <1>2
<1>3. ASSUME NEW p \in given.people, NEW c \in given.classes, Place(p, c) PROVE ClassesFit'
  <2>0. p \in People /\ c \in Classes /\ given.classes \subseteq Classes
    BY GivenTypes DEF PlacesTypeOK
  <2>1. CASE Enroll(p, c)
    BY <2>0, <2>1, EnrollingFits DEF Enroll
  <2>2. CASE Enqueue(p, c) \/ DeclineOffer(p, c) \/ RemoveEntry(p, c) \/ OfferRunsOut(p, c)
    BY <2>2, <1>2 DEF Enqueue, DeclineOffer, RemoveEntry, OfferRunsOut, service
  <2>3. CASE Withdraw(p, c)
    BY <2>3, <1>0, <1>1 DEF Withdraw, Out, Enrollments
  <2>4. CASE Pause(p, c)
    BY <2>4, <1>0, <1>1 DEF Pause, Active, Enrollments
  <2>5. CASE Resume(p, c)
    BY <2>5, <1>0, <1>1 DEF Resume, Active, Enrollments
  <2>6. CASE AcceptOffer(p, c)
    BY <2>0, <2>6, EnrollingFits DEF AcceptOffer
  <2>7. ASSUME NEW d \in given.classes, Promote(p, c, d) PROVE ClassesFit'
    <3> SUFFICES ASSUME NEW e \in Classes PROVE ClassFits(enrolled', size, e)
      BY <2>7 DEF ClassesFit, ClassFits, Seated, Promote
    <3>1. size[e] \in Nat /\ ClassFits(enrolled, size, e)
      BY <1>0 DEF ClassesFit
    <3>2. CASE e = d
      <4>1. /\ ~ Live(enrolled, p, e) /\ ~ (Count(enrolled, e) >= size[e])
            /\ Live(enrolled', p, e)
            /\ \A q \in People \ {p} : enrolled'[<<q, e>>] = enrolled[<<q, e>>]
        BY <2>0, <2>7, <3>2, <1>0 DEF Promote, Full, Live, Enrollments, Active
      <4> QED BY <1>0, <2>0, <3>1, <4>1, OneMoreFits
    <3>3. CASE e # d
      <4>1. \A q \in People : \/ enrolled'[<<q, e>>] = enrolled[<<q, e>>]
                              \/ enrolled'[<<q, e>>].status = "none"
        BY <2>0, <2>7, <3>3, <1>0 DEF Promote, Enrollments, Out
      <4> QED BY <3>1, <4>1, NoMoreFits
    <3> QED BY <3>2, <3>3
  <2> QED BY <1>3, <2>1, <2>2, <2>3, <2>4, <2>5, <2>6, <2>7 DEF Place
<1>4. ASSUME NEW p \in given.people, NEW s \in given.sessions, Visit(p, s) PROVE ClassesFit'
  BY <1>4, <1>2 DEF Visit, BookDropIn, CancelBooking, CreditRunsOut, BookMakeup, Mark, Book,
                    service
<1>5. ASSUME NEW c \in given.classes, NEW n \in 0 .. MaxCapacity, SetCapacity(c, n)
      PROVE  ClassesFit'
  <2> SUFFICES ASSUME NEW d \in Classes PROVE Cardinality(Seated(enrolled, d)) <= size'[d]
    BY <1>5 DEF ClassesFit, ClassFits, Seated, SetCapacity
  <2>1. /\ Cardinality(Seated(enrolled, d)) \in Nat /\ Count(enrolled, d) \in Nat
        /\ Cardinality(Seated(enrolled, d)) <= Count(enrolled, d)
    BY SeatedAreLive, CountIsNat
  <2>2. Cardinality(Seated(enrolled, d)) <= size[d]
    BY DEF ClassesFit, ClassFits
  <2> QED BY <1>5, <1>0, <2>1, <2>2 DEF SetCapacity, PlacesTypeOK
<1>6. ASSUME NEW k \in Cards, NEW s \in given.sessions, BookPunchCard(k, s) PROVE ClassesFit'
  BY <1>6, <1>2 DEF BookPunchCard, Book, service
<1>7. ASSUME NEW k \in Cards, PurchasePunchCard(k) PROVE ClassesFit'
  BY <1>7, <1>2 DEF PurchasePunchCard, service
<1>8. ASSUME NEW s \in given.sessions, BookerWaits(s) \/ CancelSession(s) PROVE ClassesFit'
  BY <1>8, <1>2 DEF BookerWaits, CancelSession, service
<1>9. CASE TuitionJob
  <2>1. PICK resumed \in SUBSET {x \in DOMAIN enrolled : enrolled[x].status = "paused"} :
           /\ enrolled' = [x \in DOMAIN enrolled |->
                              IF x \in resumed THEN Active ELSE enrolled[x]]
           /\ UNCHANGED size
    BY <1>9 DEF TuitionJob
  <2>2. \A p \in People, c \in Classes :
           enrolled'[<<p, c>>].status \in {"active", "paused"} =>
              enrolled[<<p, c>>].status \in {"active", "paused"}
    BY <2>1, <1>0 DEF Enrollments
  <2> QED BY <2>1, <2>2, <1>1
<1>10. CASE UNCHANGED classesVars
  BY <1>10, <1>2 DEF classesVars, service
<1> QED
  BY <1>3, <1>4, <1>5, <1>6, <1>7, <1>8, <1>9, <1>10 DEF ClassesNext

-----------------------------------------------------------------------------
(* The free places of a class with a waitlist are on offer.                *)

\* Without the mishap of the batch, offers of a class run out one at a time.
OneRunsOut ==
    Mishap("batch") \/ \A c \in Classes, p, q \in People :
        <<p, c>> \in offered \cap ranOut /\ <<q, c>> \in offered \cap ranOut => p = q

LEMMA OneRunsOutAtStart == ClassesInit => OneRunsOut
BY DEF ClassesInit, OneRunsOut

\* An offer that is made anew has not run out.
LEMMA OneRunsOutKept ==
    ASSUME PlacesTypeOK, OneRunsOut, [ClassesNext]_classesVars PROVE OneRunsOut'
<1>0. /\ \A p \in People, c \in Classes : <<p, c>> \in ranOut => <<p, c>> \in offered
      /\ \A q : \A p \in People, s \in Sessions, c \in Classes : <<p, s>> # <<q, c>>
      /\ given.people \subseteq People /\ given.classes \subseteq Classes
      /\ given.sessions \subseteq Sessions
  <2>1. \A p, c : <<p, c>> \in Credits => c \in Sessions
    BY DEF Credits
  <2> QED BY <2>1, GivenTypes, ClassesAssumption DEF PlacesTypeOK
<1>1. ASSUME given' = given, \A p \in People, c \in Classes :
                <<p, c>> \in ranOut' => <<p, c>> \in ranOut
      PROVE  OneRunsOut'
  <2>1. ASSUME NEW p \in People, NEW c \in Classes, <<p, c>> \in offered' \cap ranOut'
        PROVE  <<p, c>> \in offered \cap ranOut
    BY <1>0, <1>1, <2>1
  <2> QED BY <1>1, <2>1 DEF OneRunsOut, Mishap
<1>2. ASSUME NEW p \in given.people, NEW c \in given.classes, Place(p, c) PROVE OneRunsOut'
  <2>1. CASE OfferRunsOut(p, c)
    <3>1. CASE Mishap("batch")
      BY <2>1, <3>1 DEF OfferRunsOut, service, OneRunsOut, Mishap
    <3>2. CASE ~ Mishap("batch")
      <4>1. \A q \in People : <<q, c>> \notin offered \cap ranOut
        BY <2>1, <3>2 DEF OfferRunsOut, Mishap
      <4>2. \A q \in People, d \in Classes :
               <<q, d>> \in offered' \cap ranOut' =>
                  <<q, d>> = <<p, c>> \/ <<q, d>> \in offered \cap ranOut
        BY <2>1 DEF OfferRunsOut, service
      <4>3. ASSUME NEW d \in Classes, NEW q \in People, NEW r \in People,
                   <<q, d>> \in offered' \cap ranOut', <<r, d>> \in offered' \cap ranOut'
            PROVE  q = r
        BY <3>2, <4>1, <4>2, <4>3 DEF OneRunsOut
      <4> QED BY <4>3 DEF OneRunsOut
    <3> QED BY <3>1, <3>2
  <2>2. ASSUME Enroll(p, c) \/ Enqueue(p, c) \/ Withdraw(p, c) \/ Pause(p, c) \/ Resume(p, c)
               \/ \E d \in given.classes : Promote(p, c, d)
        PROVE  OneRunsOut'
    BY <2>2, <1>1 DEF Enroll, Enqueue, Withdraw, Pause, Resume, Promote, desk
  <2>3. ASSUME AcceptOffer(p, c) \/ DeclineOffer(p, c) \/ RemoveEntry(p, c) PROVE OneRunsOut'
    <3>1. given' = given /\ ranOut' \subseteq ranOut
      BY <2>3 DEF AcceptOffer, DeclineOffer, RemoveEntry, Close, desk
    <3> QED BY <3>1, <1>1
  <2> QED BY <1>2, <2>1, <2>2, <2>3 DEF Place
<1>3. ASSUME NEW p \in given.people, NEW s \in given.sessions, Visit(p, s) PROVE OneRunsOut'
  <2>1. given' = given /\ (ranOut' = ranOut \/ ranOut' = ranOut \cup {<<p, s>>})
    BY <1>3 DEF Visit, BookDropIn, CancelBooking, CreditRunsOut, BookMakeup, Mark, Book, service
  <2> QED BY <2>1, <1>0, <1>1
<1>4. ASSUME UNCHANGED <<given, ranOut>> PROVE OneRunsOut'
  BY <1>4, <1>1
<1>5. ASSUME NEW c \in given.classes, NEW n \in 0 .. MaxCapacity, SetCapacity(c, n)
      PROVE  OneRunsOut'
  BY <1>5, <1>4 DEF SetCapacity, desk
<1>6. ASSUME NEW k \in Cards, NEW s \in given.sessions, BookPunchCard(k, s) PROVE OneRunsOut'
  BY <1>6, <1>4 DEF BookPunchCard, Book, service
<1>7. ASSUME NEW k \in Cards, PurchasePunchCard(k) PROVE OneRunsOut'
  BY <1>7, <1>4 DEF PurchasePunchCard, service
<1>8. ASSUME NEW s \in given.sessions, BookerWaits(s) \/ CancelSession(s) PROVE OneRunsOut'
  BY <1>8, <1>4 DEF BookerWaits, CancelSession, service
<1>9. CASE TuitionJob
  <2>1. given' = given /\ ranOut' \subseteq ranOut
    BY <1>9 DEF TuitionJob
  <2> QED BY <2>1, <1>1
<1>10. CASE UNCHANGED classesVars
  BY <1>10, <1>4 DEF classesVars, service
<1> QED
  BY <1>2, <1>3, <1>5, <1>6, <1>7, <1>8, <1>9, <1>10 DEF ClassesNext

\* The behaviours in which places pass from one to the next.
Quiet == given.mishaps \cap {"removed", "promoted", "raised", "batch"} = {}

\* The invariant, class by class.
AllOnOffer == Quiet => \A c \in Classes : OnOffer(size[c], enrolled, line, offered, c, 0)

LEMMA AllOnOfferIs == ASSUME PlacesTypeOK PROVE AllOnOffer <=> PlacesAreOffered
<1>1. ASSUME NEW c \in Classes PROVE Of(offered, c) = offered \cap Entries(c)
  <2>1. \A x \in offered : x \in People \X {c} <=> x \in Entries(c)
    BY DEF Entries, PlacesTypeOK, OffersTo, InLine
  <2> QED BY <2>1 DEF Of
<1>2. ASSUME NEW c \in Classes
      PROVE  OnOffer(size[c], enrolled, line, offered, c, 0)
             <=> (Waiting(line, offered, c) # {} =>
                    size[c] <= Count(enrolled, c) + Cardinality(offered \cap Entries(c)))
  <2>1. /\ Count(enrolled, c) \in Nat /\ Cardinality(Of(offered, c)) \in Nat
        /\ Cardinality(offered \cap Entries(c)) = Cardinality(Of(offered, c))
    BY <1>1, CountIsNat, OffersOfClass
  <2> QED BY <2>1 DEF OnOffer
<1> QED BY <1>2 DEF AllOnOffer, Quiet, PlacesAreOffered

\* Nobody new waits, and there are no more free places than before.
LEMMA StillOnOffer ==
    ASSUME NEW n \in Nat, NEW m \in Nat, m <= n, NEW E, NEW F, NEW L, NEW M, NEW O, NEW N,
           NEW c,
           OnOffer(n, E, L, O, c, 0), Waiting(M, N, c) \subseteq Waiting(L, O, c),
           Count(E, c) + Cardinality(Of(O, c)) <= Count(F, c) + Cardinality(Of(N, c))
    PROVE  OnOffer(m, F, M, N, c, 0)
<1>1. /\ Count(E, c) \in Nat /\ Cardinality(Of(O, c)) \in Nat
      /\ Count(F, c) \in Nat /\ Cardinality(Of(N, c)) \in Nat
  BY CountIsNat, OffersOfClass
<1> QED BY <1>1 DEF OnOffer

\* An offer that ends leaves one less.
LEMMA OfferEnds ==
    ASSUME NEW O \in SUBSET (People \X Classes), NEW p, NEW c \in Classes, <<p, c>> \in O
    PROVE  /\ Cardinality(Of(O, c)) = Cardinality(Of(O \ {<<p, c>>}, c)) + 1
           /\ \A d \in Classes \ {c} : Of(O \ {<<p, c>>}, d) = Of(O, d)
<1>1. /\ Of(O, c) = Of(O \ {<<p, c>>}, c) \cup {<<p, c>>}
      /\ <<p, c>> \notin Of(O \ {<<p, c>>}, c)
  BY DEF Of
<1>2. Cardinality(Of(O, c)) = Cardinality(Of(O \ {<<p, c>>}, c)) + 1
  BY <1>1, OffersOfClass, FS_AddElement
<1>3. ASSUME NEW d \in Classes \ {c} PROVE Of(O \ {<<p, c>>}, d) = Of(O, d)
  <2>1. <<p, c>> \notin People \X {d}
    BY <1>3
  <2> QED BY <2>1 DEF Of
<1> QED BY <1>2, <1>3

LEMMA AllOnOfferAtStart == ClassesInit => AllOnOffer
<1> SUFFICES ASSUME ClassesInit, NEW c \in Classes
             PROVE  OnOffer(size[c], enrolled, line, offered, c, 0)
  BY DEF AllOnOffer
<1>1. Waiting(line, offered, c) = {}
  BY DEF ClassesInit, Waiting, InLine
<1> QED BY <1>1 DEF OnOffer

LEMMA EnrollingKeepsOffers ==
    ASSUME PlacesTypeOK, AllOnOffer, Quiet, NEW p \in People, NEW c \in Classes,
           EnrollActive(p, c) \/ \E s \in given.sessions \cup {NoSession} : EnrollTrial(p, c, s)
    PROVE  /\ Count(enrolled', c) = Count(enrolled, c) + 1
           /\ \A d \in Classes \ {c} : Count(enrolled', d) = Count(enrolled, d)
<1>1. PICK how \in Enrollment : /\ how.status # "none" /\ ~ Live(enrolled, p, c)
                               /\ enrolled' = [enrolled EXCEPT ![<<p, c>>] = how]
  BY EnrollingTypes
<1>2. enrolled \in Enrollments
  BY DEF PlacesTypeOK
<1>3. /\ Live(enrolled', p, c)
      /\ \A q \in People \ {p} : Live(enrolled', q, c) <=> Live(enrolled, q, c)
  BY <1>1, <1>2 DEF Live, Enrollments
<1>4. Count(enrolled', c) = Count(enrolled, c) + 1
  BY <1>1, <1>3, CountJoined
<1>5. ASSUME NEW d \in Classes \ {c} PROVE Count(enrolled', d) = Count(enrolled, d)
  <2>1. \A q \in People : Live(enrolled', q, d) <=> Live(enrolled, q, d)
    BY <1>1, <1>2 DEF Live, Enrollments
  <2> QED BY <2>1, CountSame
<1> QED BY <1>4, <1>5

LEMMA GivenKept == [ClassesNext]_classesVars => given' = given
<1> SUFFICES ASSUME [ClassesNext]_classesVars PROVE given' = given
  OBVIOUS
<1> USE DEF service, desk
<1>1. ASSUME NEW p, NEW c, Place(p, c) PROVE given' = given
  BY <1>1 DEF Place, Enroll, Enqueue, Withdraw, Pause, Resume, AcceptOffer, DeclineOffer,
              RemoveEntry, OfferRunsOut, Promote
<1>2. ASSUME NEW p, NEW s, Visit(p, s) PROVE given' = given
  BY <1>2 DEF Visit, BookDropIn, CancelBooking, CreditRunsOut, BookMakeup, Mark, Book
<1>3. ASSUME NEW x, NEW y, SetCapacity(x, y) \/ BookPunchCard(x, y) PROVE given' = given
  BY <1>3 DEF SetCapacity, BookPunchCard, Book
<1>4. ASSUME NEW x, PurchasePunchCard(x) \/ BookerWaits(x) \/ CancelSession(x)
      PROVE  given' = given
  BY <1>4 DEF PurchasePunchCard, BookerWaits, CancelSession
<1>5. CASE TuitionJob
  BY <1>5 DEF TuitionJob
<1>6. CASE UNCHANGED classesVars
  BY <1>6 DEF classesVars
<1> QED BY <1>1, <1>2, <1>3, <1>4, <1>5, <1>6 DEF ClassesNext

LEMMA AllOnOfferKept ==
    ASSUME PlacesTypeOK, PlacesTypeOK', OneRunsOut, AllOnOffer, [ClassesNext]_classesVars
    PROVE  AllOnOffer'
<1>0. given' = given
  BY GivenKept
<1> SUFFICES ASSUME Quiet, NEW c \in Classes
             PROVE  OnOffer(size'[c], enrolled', line', offered', c, 0)
  <2>1. Quiet' <=> Quiet
    BY <1>0 DEF Quiet
  <2> QED BY <2>1 DEF AllOnOffer, OnOffer, Waiting, InLine, Count, Live, Of
<1>1. /\ size[c] \in Nat /\ OnOffer(size[c], enrolled, line, offered, c, 0)
      /\ enrolled \in Enrollments /\ InLines(line) /\ OffersTo(offered, line)
      /\ offered \in SUBSET (People \X Classes)
      /\ Count(enrolled, c) \in Nat /\ Cardinality(Of(offered, c)) \in Nat
  <2>1. OnOffer(size[c], enrolled, line, offered, c, 0)
    BY DEF AllOnOffer
  <2>2. Count(enrolled, c) \in Nat /\ Cardinality(Of(offered, c)) \in Nat
    BY CountIsNat, OffersOfClass
  <2> QED BY <2>1, <2>2 DEF PlacesTypeOK, OffersTo
\* The people in the classes, the lines and the offers are the same.
<1>2. ASSUME size' = size, UNCHANGED <<line, offered>>,
             \A p \in People : Live(enrolled', p, c) <=> Live(enrolled, p, c)
      PROVE  OnOffer(size'[c], enrolled', line', offered', c, 0)
  <2>1. Count(enrolled', c) = Count(enrolled, c)
    BY <1>2, CountSame
  <2> QED BY <1>1, <1>2, <2>1, StillOnOffer
<1>3. ASSUME UNCHANGED service PROVE OnOffer(size'[c], enrolled', line', offered', c, 0)
  BY <1>2, <1>3 DEF service
<1>4. ASSUME NEW p \in given.people, NEW d \in given.classes, Place(p, d)
      PROVE  OnOffer(size'[c], enrolled', line', offered', c, 0)
  <2>0. p \in People /\ d \in Classes
    BY GivenTypes DEF PlacesTypeOK
  <2>1. CASE Enroll(p, d)
    <3>1. Count(enrolled', c) \in Nat /\ Count(enrolled, c) <= Count(enrolled', c)
      BY <2>0, <2>1, <1>1, EnrollingKeepsOffers DEF Enroll
    <3>2. UNCHANGED <<size, line, offered>>
      BY <2>1 DEF Enroll
    <3> QED BY <1>1, <3>1, <3>2, StillOnOffer
  <2>2. CASE Enqueue(p, d)
    <3>1. UNCHANGED <<size, enrolled, offered>>
      BY <2>2 DEF Enqueue
    <3>2. CASE c = d
      <4>1. size[c] <= Count(enrolled, c)
        BY <2>2, <3>2, <1>1 DEF Enqueue, Full
      <4> QED BY <1>1, <3>1, <4>1 DEF OnOffer
    <3>3. CASE c # d
      <4>1. line'[c] = line[c]
        BY <2>2, <3>3, <1>1 DEF Enqueue, InLines
      <4>2. Waiting(line', offered', c) = Waiting(line, offered, c)
        BY <3>1, <4>1 DEF Waiting, InLine
      <4> QED BY <1>1, <3>1, <4>2, StillOnOffer
    <3> QED BY <3>2, <3>3
  <2>3. CASE Withdraw(p, d)
    <3>1. /\ Live(enrolled, p, d) /\ enrolled' = [enrolled EXCEPT ![<<p, d>>] = Out]
          /\ offered' = OfferedNext({d}, enrolled', line, offered)
          /\ UNCHANGED <<size, line>>
      BY <2>3 DEF Withdraw
    <3>2. CASE c = d
      <4>1. /\ ~ Live(enrolled', p, c)
            /\ \A q \in People \ {p} : Live(enrolled, q, c) <=> Live(enrolled', q, c)
        BY <2>0, <3>1, <3>2, <1>1 DEF Live, Enrollments, Out
      <4>2. Count(enrolled, c) = Count(enrolled', c) + 1
        BY <2>0, <3>1, <3>2, <4>1, CountJoined
      <4>3. Count(enrolled', c) \in Nat
        BY CountIsNat
      <4>4. OnOffer(size[c], enrolled', line, offered, c, IF c \in {d} THEN 1 ELSE 0)
        BY <1>1, <3>2, <4>2, <4>3 DEF OnOffer
      <4>5. OnOffer(size[c], enrolled', line, OfferedNext({d}, enrolled', line, offered), c, 0)
        BY <2>0, <1>1, <4>4, PlaceGoesOn
      <4> QED BY <3>1, <4>5
    <3>3. CASE c # d
      <4>1. \A q \in People : Live(enrolled', q, c) <=> Live(enrolled, q, c)
        BY <2>0, <3>1, <3>3, <1>1 DEF Live, Enrollments
      <4>2. Count(enrolled', c) = Count(enrolled, c)
        BY <4>1, CountSame
      <4>4. OnOffer(size[c], enrolled', line, offered, c, IF c \in {d} THEN 1 ELSE 0)
        BY <1>1, <3>3, <4>2 DEF OnOffer
      <4>5. OnOffer(size[c], enrolled', line, OfferedNext({d}, enrolled', line, offered), c, 0)
        BY <2>0, <1>1, <4>4, PlaceGoesOn
      <4> QED BY <3>1, <4>5
    <3> QED BY <3>2, <3>3
  <2>4. CASE Pause(p, d)
    <3>1. \A q \in People : Live(enrolled', q, c) <=> Live(enrolled, q, c)
      BY <2>0, <2>4, <1>1 DEF Pause, Live, Enrollments, Active
    <3> QED BY <1>2, <2>4, <3>1 DEF Pause
  <2>5. CASE Resume(p, d)
    <3>1. \A q \in People : Live(enrolled', q, c) <=> Live(enrolled, q, c)
      BY <2>0, <2>5, <1>1 DEF Resume, Live, Enrollments, Active
    <3> QED BY <1>2, <2>5, <3>1 DEF Resume
  <2>6. CASE AcceptOffer(p, d)
    <3>1. /\ <<p, d>> \in offered /\ Close(p, d)
          /\ offered' = offered \ {<<p, d>>} /\ UNCHANGED size
      BY <2>6 DEF AcceptOffer
    <3>2. /\ InLine(line', d) = InLine(line, d) \ {p}
          /\ \A e \in Classes \ {d} : line'[e] = line[e]
      BY <2>0, <1>1, <3>1, ClosingKeepsLines
    <3>3. Waiting(line', offered', c) \subseteq Waiting(line, offered, c)
      BY <3>1, <3>2 DEF Waiting, InLine
    <3>4. /\ Count(enrolled', d) = Count(enrolled, d) + 1
          /\ \A e \in Classes \ {d} : Count(enrolled', e) = Count(enrolled, e)
      BY <2>0, <2>6, EnrollingKeepsOffers DEF AcceptOffer
    <3>5. /\ Cardinality(Of(offered, d)) = Cardinality(Of(offered', d)) + 1
          /\ \A e \in Classes \ {d} : Of(offered', e) = Of(offered, e)
      BY <2>0, <1>1, <3>1, OfferEnds
    <3>6. Cardinality(Of(offered', c)) \in Nat
      BY OffersOfClass
    <3>7. Count(enrolled, c) + Cardinality(Of(offered, c))
            <= Count(enrolled', c) + Cardinality(Of(offered', c))
      BY <1>1, <3>4, <3>5, <3>6
    <3>8. size[c] <= size[c]
      BY <1>1
    <3>9. OnOffer(size[c], enrolled', line', offered', c, 0)
      BY ONLY <1>1, <3>3, <3>7, <3>8, StillOnOffer
    <3> QED BY <3>1, <3>9
  <2>7. CASE DeclineOffer(p, d)
    <3> DEFINE O == offered \ {<<p, d>>}
    <3>1. /\ <<p, d>> \in offered /\ Close(p, d) /\ UNCHANGED <<size, enrolled>>
          /\ offered' = OfferedNext({d}, enrolled, line', O)
      BY <2>7 DEF DeclineOffer
    <3>2. /\ InLines(line') /\ InLine(line', d) = InLine(line, d) \ {p}
          /\ \A e \in Classes \ {d} : line'[e] = line[e]
      BY <2>0, <1>1, <3>1, ClosingKeepsLines
    <3>3. Waiting(line', O, c) \subseteq Waiting(line, offered, c)
      BY <3>2 DEF Waiting, InLine
    <3>4. /\ Cardinality(Of(offered, d)) = Cardinality(Of(O, d)) + 1
          /\ \A e \in Classes \ {d} : Of(O, e) = Of(offered, e)
      BY <2>0, <1>1, <3>1, OfferEnds
    <3>5. O \in SUBSET (People \X Classes) /\ Cardinality(Of(O, c)) \in Nat
      BY <1>1, OffersOfClass
    <3> HIDE DEF O
    <3>6. OnOffer(size[c], enrolled, line', O, c, IF c \in {d} THEN 1 ELSE 0)
      BY <1>1, <3>3, <3>4, <3>5 DEF OnOffer
    <3>7. OnOffer(size[c], enrolled, line', OfferedNext({d}, enrolled, line', O), c, 0)
      BY <2>0, <1>1, <3>2, <3>5, <3>6, PlaceGoesOn
    <3> QED BY <3>1, <3>7
  <2>8. CASE RemoveEntry(p, d)
    <3>1. /\ <<p, d>> \notin offered /\ Close(p, d)
          /\ offered' = offered /\ UNCHANGED <<size, enrolled>>
      BY <2>8 DEF RemoveEntry, Quiet
    <3>2. /\ InLine(line', d) = InLine(line, d) \ {p}
          /\ \A e \in Classes \ {d} : line'[e] = line[e]
      BY <2>0, <1>1, <3>1, ClosingKeepsLines
    <3>3. Waiting(line', offered', c) \subseteq Waiting(line, offered, c)
      BY <3>1, <3>2 DEF Waiting, InLine
    <3> QED BY <1>1, <3>1, <3>3 DEF OnOffer
  <2>9. CASE OfferRunsOut(p, d)
    BY <2>9, <1>3 DEF OfferRunsOut
  <2>10. ASSUME NEW e \in given.classes, Promote(p, d, e) PROVE FALSE
    BY <2>10 DEF Promote, Quiet
  <2> QED
    BY <1>4, <2>1, <2>2, <2>3, <2>4, <2>5, <2>6, <2>7, <2>8, <2>9, <2>10 DEF Place
<1>5. ASSUME NEW p \in given.people, NEW s \in given.sessions, Visit(p, s)
      PROVE  OnOffer(size'[c], enrolled', line', offered', c, 0)
  BY <1>5, <1>3 DEF Visit, BookDropIn, CancelBooking, CreditRunsOut, BookMakeup, Mark, Book
<1>6. ASSUME NEW d \in given.classes, NEW n \in 0 .. MaxCapacity, SetCapacity(d, n)
      PROVE  OnOffer(size'[c], enrolled', line', offered', c, 0)
  <2>1. size'[c] \in Nat /\ size'[c] <= size[c] /\ UNCHANGED <<enrolled, line, offered>>
    BY <1>1, <1>6 DEF SetCapacity, Quiet, PlacesTypeOK
  <2> QED BY <1>1, <2>1, StillOnOffer
<1>7. ASSUME NEW k \in Cards, NEW s \in given.sessions, BookPunchCard(k, s)
      PROVE  OnOffer(size'[c], enrolled', line', offered', c, 0)
  BY <1>7, <1>3 DEF BookPunchCard, Book
<1>8. ASSUME NEW k \in Cards, PurchasePunchCard(k)
      PROVE  OnOffer(size'[c], enrolled', line', offered', c, 0)
  BY <1>8, <1>3 DEF PurchasePunchCard
<1>9. ASSUME NEW s \in given.sessions, BookerWaits(s) \/ CancelSession(s)
      PROVE  OnOffer(size'[c], enrolled', line', offered', c, 0)
  BY <1>9, <1>3 DEF BookerWaits, CancelSession
<1>10. CASE TuitionJob
  <2> DEFINE over == offered \cap ranOut
             C == {x[2] : x \in over}
             O == offered \ over
  <2>1. PICK resumed \in SUBSET {x \in DOMAIN enrolled : enrolled[x].status = "paused"} :
           /\ line' = [d \in Classes |-> Left(line[d], {p \in People : <<p, d>> \in over})]
           /\ offered' = OfferedNext(C, enrolled, line', O)
           /\ enrolled' = [x \in DOMAIN enrolled |->
                              IF x \in resumed THEN Active ELSE enrolled[x]]
           /\ UNCHANGED size
    BY <1>10 DEF TuitionJob
  <2>2. /\ InLines(line')
        /\ \A p \in People, d \in Classes :
              p \in InLine(line', d) <=> p \in InLine(line, d) /\ <<p, d>> \notin over
    BY <1>1, <2>1, EndingOffersKeepsLines
  <2>3. C \in SUBSET Classes /\ O \in SUBSET (People \X Classes)
    BY <1>1
  <2>4. Waiting(line', O, c) \subseteq Waiting(line, offered, c)
    BY <2>2 DEF Waiting, InLine
  <2>5. ASSUME NEW p \in People, <<p, c>> \in over
        PROVE  O \cap (People \X {c}) = (offered \ {<<p, c>>}) \cap (People \X {c})
    <3>1. \A q \in People : <<q, c>> \in over => q = p
      BY <2>5 DEF OneRunsOut, Quiet, Mishap
    <3> QED BY <2>5, <3>1
  <2>6. ASSUME c \notin C PROVE O \cap (People \X {c}) = offered \cap (People \X {c})
    <3>1. \A q \in People : <<q, c>> \notin over
      BY <2>6
    <3> QED BY <3>1
  <2>7. ASSUME c \in C PROVE \E p \in People : <<p, c>> \in over
    BY <2>7, <1>1
  <2> HIDE DEF C, O
  <2>8. Cardinality(Of(O, c)) \in Nat
    BY OffersOfClass
  <2>9. OnOffer(size[c], enrolled, line', O, c, IF c \in C THEN 1 ELSE 0)
    <3>1. CASE c \in C
      <4>1. PICK p \in People : <<p, c>> \in over
        BY <2>7, <3>1
      <4>2. Of(O, c) = Of(offered \ {<<p, c>>}, c)
        BY <2>5, <4>1 DEF Of
      <4>3. Cardinality(Of(offered, c)) = Cardinality(Of(O, c)) + 1
        BY <1>1, <4>1, <4>2, OfferEnds
      <4> QED BY <1>1, <2>4, <2>8, <3>1, <4>3 DEF OnOffer
    <3>2. CASE c \notin C
      BY <1>1, <2>4, <2>6, <2>8, <3>2 DEF OnOffer, Of
    <3> QED BY <3>1, <3>2
  <2>10. OnOffer(size[c], enrolled, line', OfferedNext(C, enrolled, line', O), c, 0)
    BY <1>1, <2>2, <2>3, <2>9, PlaceGoesOn
  <2>11. \A p \in People : Live(enrolled', p, c) <=> Live(enrolled, p, c)
    BY <2>1, <1>1 DEF Live, Enrollments, Active
  <2>12. Count(enrolled', c) = Count(enrolled, c)
    BY <2>11, CountSame
  <2> QED BY <2>1, <2>10, <2>12 DEF OnOffer
<1>11. CASE UNCHANGED classesVars
  BY <1>11, <1>3 DEF classesVars
<1> QED
  BY <1>4, <1>5, <1>6, <1>7, <1>8, <1>9, <1>10, <1>11 DEF ClassesNext

-----------------------------------------------------------------------------
(* Bookings are paid for, and sessions are not overbooked.                 *)

\* What PaidBy counts.
Paid(b, m, x) == Cardinality(Kept(b, x)) + m[x]

CreditsAgree(b, m, status) ==
    \A x \in Credits : Paid(b, m, x) = IF status[x] = "used" THEN 1 ELSE 0

\* Nothing was ever paid for with a card that is not bought.
CardAgrees(n, status, left) ==
    IF status = "none" THEN n = 0 ELSE left + n = Uses /\ status = Remaining(left)
CardsAgree(b, m, status, left) == \A k \in Cards : CardAgrees(Paid(b, m, k), status[k], left[k])

\* The places of s held by bookings that are no trials.
HeldIn(b, s) == {p \in People : b[<<p, s>>] # Empty /\ b[<<p, s>>].by # Trial}
SessionsFit(b) == \A s \in Sessions : Cardinality(HeldIn(b, s)) <= Room[s]

\* Without the race nobody goes by an old count.
Punctual == Mishap("race") \/ (counted = Room /\ SessionsFit(booking))

DeskInv ==
    /\ DeskTypeOK
    /\ CreditsAgree(booking, missed, credit)
    /\ CardsAgree(booking, missed, card, uses)
    /\ Punctual

LEMMA PaidIsNat ==
    ASSUME NEW b \in Bookings, NEW m \in [Payers -> Nat], NEW x \in Payers
    PROVE  Paid(b, m, x) \in Nat
BY KeptFinite DEF Paid

LEMMA HeldFinite ==
    ASSUME NEW b, NEW s
    PROVE  IsFiniteSet(HeldIn(b, s)) /\ Cardinality(HeldIn(b, s)) \in Nat
BY ClassesAssumption, FS_Subset, FS_CardinalityType DEF HeldIn

LEMMA PaidBooked ==
    ASSUME NEW b \in Bookings, NEW m \in [Payers -> Nat],
           NEW y \in People \X Sessions, b[y] = Empty, NEW r \in Booking, NEW x \in Payers
    PROVE  Paid(Put(b, y, r), m, x) = Paid(b, m, x) + (IF x = r.by THEN 1 ELSE 0)
<1> DEFINE a == Put(b, y, r)
<1>1. Cardinality(Kept(a, x)) = Cardinality(Kept(b, x)) + (IF x = r.by THEN 1 ELSE 0)
  BY KeptBooked
<1>2. Cardinality(Kept(b, x)) \in Nat /\ m[x] \in Nat
  BY KeptFinite
<1> HIDE DEF a
<1>3. Paid(a, m, x) = Paid(b, m, x) + (IF x = r.by THEN 1 ELSE 0)
  BY <1>1, <1>2 DEF Paid
<1> QED BY <1>3 DEF a

LEMMA PaidEnded ==
    ASSUME NEW b \in Bookings, NEW m \in [Payers -> Nat],
           NEW y \in People \X Sessions, b[y] # Empty, NEW x \in Payers
    PROVE  Paid(b, m, x) = Paid(Put(b, y, Empty), m, x) + (IF x = b[y].by THEN 1 ELSE 0)
<1> DEFINE a == Put(b, y, Empty)
<1>1. a \in Bookings /\ Cardinality(Kept(b, x)) = Cardinality(Kept(a, x))
                                                + (IF x = b[y].by THEN 1 ELSE 0)
  BY KeptEnded
<1> HIDE DEF a
<1>2. Cardinality(Kept(a, x)) \in Nat /\ m[x] \in Nat
  BY <1>1, KeptFinite
<1>3. Paid(b, m, x) = Paid(a, m, x) + (IF x = b[y].by THEN 1 ELSE 0)
  BY <1>1, <1>2 DEF Paid
<1> QED BY <1>3 DEF a

\* Bookings that end leave room; one that is made takes a place of its session.
LEMMA FewerFit ==
    ASSUME NEW b, NEW a, SessionsFit(b),
           \A p \in People, s \in Sessions :
              a[<<p, s>>] # Empty /\ a[<<p, s>>].by # Trial =>
                 b[<<p, s>>] # Empty /\ b[<<p, s>>].by # Trial
    PROVE  SessionsFit(a)
<1> SUFFICES ASSUME NEW s \in Sessions PROVE Cardinality(HeldIn(a, s)) <= Room[s]
  BY DEF SessionsFit
<1>1. HeldIn(a, s) \subseteq HeldIn(b, s)
  BY DEF HeldIn
<1>2. /\ Cardinality(HeldIn(a, s)) <= Cardinality(HeldIn(b, s))
      /\ Cardinality(HeldIn(a, s)) \in Nat /\ Cardinality(HeldIn(b, s)) \in Nat
  BY <1>1, HeldFinite, FS_Subset
<1>3. Cardinality(HeldIn(b, s)) <= Room[s] /\ Room[s] \in Nat
  BY ClassesAssumption DEF SessionsFit
<1> QED BY <1>2, <1>3

LEMMA TakenCovers ==
    ASSUME NEW s
    PROVE  /\ Taken(s) \in Nat
           /\ Cardinality(HeldIn(booking, s)) <= Taken(s)
<1> DEFINE T == {p \in People : booking[<<p, s>>] # Empty}
           U == {p \in People : \/ enrolled[<<p, ClassOf[s]>>] = Active
                               \/ enrolled[<<p, ClassOf[s]>>].on = s}
<1>1. IsFiniteSet(T) /\ IsFiniteSet(U)
  BY ClassesAssumption, FS_Subset
<1>2. HeldIn(booking, s) \subseteq T
  BY DEF HeldIn
<1>3. Taken(s) = Cardinality(U) + Cardinality(T)
  BY DEF Taken
<1> HIDE DEF T, U
<1>4. Cardinality(T) \in Nat /\ Cardinality(U) \in Nat
  BY <1>1, FS_CardinalityType
<1>5. /\ Cardinality(HeldIn(booking, s)) <= Cardinality(T)
      /\ Cardinality(HeldIn(booking, s)) \in Nat
  BY <1>1, <1>2, HeldFinite, FS_Subset
<1> QED BY <1>3, <1>4, <1>5

LEMMA AtMostOneMore ==
    ASSUME NEW S, IsFiniteSet(S), NEW x
    PROVE  Cardinality(S \cup {x}) <= Cardinality(S) + 1
<1> DEFINE n == Cardinality(S)
           m == Cardinality(S \cup {x})
<1>1. n \in Nat
  BY FS_CardinalityType
<1>2. m = IF x \in S THEN n ELSE n + 1
  BY FS_AddElement
<1> HIDE DEF n, m
<1>3. m <= n + 1
  BY <1>1, <1>2
<1> QED BY <1>3 DEF n, m

LEMMA OneMoreBooked ==
    ASSUME NEW b \in Bookings, SessionsFit(b), NEW p \in People, NEW s \in Sessions,
           Cardinality(HeldIn(b, s)) < Room[s], NEW r, NEW a, a = [b EXCEPT ![<<p, s>>] = r]
    PROVE  SessionsFit(a)
<1> SUFFICES ASSUME NEW t \in Sessions PROVE Cardinality(HeldIn(a, t)) <= Room[t]
  BY DEF SessionsFit
<1>0. Room[t] \in Nat /\ Cardinality(HeldIn(b, t)) <= Room[t]
  BY ClassesAssumption DEF SessionsFit
<1>1. CASE t = s
  <2>1. HeldIn(a, t) \subseteq HeldIn(b, t) \cup {p}
    BY <1>1 DEF HeldIn, Bookings
  <2>2. IsFiniteSet(HeldIn(b, t) \cup {p})
    BY HeldFinite, FS_AddElement
  <2>3. Cardinality(HeldIn(b, t) \cup {p}) <= Cardinality(HeldIn(b, t)) + 1
    BY HeldFinite, AtMostOneMore
  <2>4. /\ Cardinality(HeldIn(a, t)) <= Cardinality(HeldIn(b, t) \cup {p})
        /\ Cardinality(HeldIn(b, t) \cup {p}) \in Nat
    BY <2>1, <2>2, FS_Subset, FS_CardinalityType
  <2>5. Cardinality(HeldIn(a, t)) \in Nat /\ Cardinality(HeldIn(b, t)) \in Nat
    BY HeldFinite
  <2> QED BY <1>0, <1>1, <2>3, <2>4, <2>5
<1>2. CASE t # s
  <2>1. HeldIn(a, t) = HeldIn(b, t)
    BY <1>2 DEF HeldIn, Bookings
  <2> QED BY <1>0, <2>1
<1> QED BY <1>1, <1>2

LEMMA PayersApart ==
    /\ Credits \subseteq Payers /\ Cards \subseteq Payers /\ Credits \cap Cards = {}
    /\ Invoice \notin Payers /\ Trial \notin Payers
BY ClassesAssumption DEF Payers

\* Nothing is paid for or given back, and nobody is booked.
LEMMA DeskSame ==
    ASSUME DeskInv, given' = given, UNCHANGED desk PROVE DeskInv'
BY DEF DeskInv, desk, DeskTypeOK, CreditsAgree, CardsAgree, Paid, Punctual, Mishap, SessionsFit,
       HeldIn, Kept

\* A booking paid for by x, with money, a credit or a card.
LEMMA BookingTypes ==
    ASSUME DeskInv, NEW p \in People, NEW s \in Sessions, NEW x \in Payers \cup {Invoice},
           given' = given, Book(p, s, x)
    PROVE  /\ booking' \in Bookings /\ counted' \in [Sessions -> Nat] /\ missed' = missed
           /\ scheduled' = scheduled
           /\ \A z \in Payers : Paid(booking', missed, z)
                                = Paid(booking, missed, z) + (IF z = x THEN 1 ELSE 0)
           /\ Punctual'
<1> DEFINE y == <<p, s>>
           r == [by |-> x, attended |-> FALSE]
<1>1. /\ booking \in Bookings /\ missed \in [Payers -> Nat] /\ counted \in [Sessions -> Nat]
      /\ Room \in [Sessions -> Nat]
  BY ClassesAssumption DEF DeskInv, DeskTypeOK
<1>2. y \in People \X Sessions /\ r \in Booking /\ r.by = x
  BY DEF Booking
<1>3. /\ booking[y] = Empty /\ booking' = [booking EXCEPT ![y] = r]
      /\ UNCHANGED <<missed, scheduled>>
      /\ \/ Taken(s) < Room[s] /\ counted' = counted
         \/ counted[s] < Room[s] /\ counted' = [counted EXCEPT ![s] = Room[s]]
  BY DEF Book
<1> HIDE DEF y, r
<1>4. booking' \in Bookings /\ counted' \in [Sessions -> Nat]
  BY <1>1, <1>2, <1>3 DEF Bookings
<1>5. ASSUME NEW z \in Payers
      PROVE  Paid(booking', missed, z) = Paid(booking, missed, z) + (IF z = x THEN 1 ELSE 0)
  <2>1. Paid(Put(booking, y, r), missed, z)
          = Paid(booking, missed, z) + (IF z = r.by THEN 1 ELSE 0)
    BY <1>1, <1>2, <1>3, PaidBooked
  <2> QED BY <1>2, <1>3, <2>1 DEF Put
<1>6. Punctual'
  <2> SUFFICES ASSUME ~ Mishap("race") PROVE counted' = Room /\ SessionsFit(booking')
    BY DEF Punctual, Mishap, SessionsFit, HeldIn
  <2>1. counted = Room /\ SessionsFit(booking)
    BY DEF DeskInv, Punctual
  <2>2. Taken(s) < Room[s] /\ counted' = counted
    BY <1>1, <1>3, <2>1
  <2>3. Cardinality(HeldIn(booking, s)) < Room[s]
    BY <1>1, <2>2, TakenCovers, HeldFinite
  <2>4. SessionsFit(booking')
    BY <1>1, <1>3, <2>1, <2>3, OneMoreBooked DEF y
  <2> QED BY <2>1, <2>2, <2>4
<1> QED BY <1>3, <1>4, <1>5, <1>6

\* A trial is nobody's payment and counts in no session.
LEMMA TrialDesk ==
    ASSUME DeskInv, NEW p \in People, NEW s, given' = given,
           UNCHANGED <<scheduled, missed, credit, card, uses, counted>>,
           \/ booking' = booking
           \/ /\ s \in Sessions /\ booking[<<p, s>>] = Empty
              /\ booking' = [booking EXCEPT ![<<p, s>>] = [by |-> Trial, attended |-> FALSE]]
    PROVE  DeskInv'
<1>1. CASE booking' = booking
  BY <1>1, DeskSame DEF desk
<1>2. CASE /\ s \in Sessions /\ booking[<<p, s>>] = Empty
           /\ booking' = [booking EXCEPT ![<<p, s>>] = [by |-> Trial, attended |-> FALSE]]
  <2> DEFINE y == <<p, s>>
             r == [by |-> Trial, attended |-> FALSE]
  <2>1. booking \in Bookings /\ missed \in [Payers -> Nat]
    BY DEF DeskInv, DeskTypeOK
  <2>2. /\ y \in People \X Sessions /\ r \in Booking /\ r.by = Trial
        /\ booking[y] = Empty /\ booking' = [booking EXCEPT ![y] = r]
    BY <1>2 DEF Booking
  <2> HIDE DEF y, r
  <2>3. booking' \in Bookings
    BY <2>1, <2>2 DEF Bookings
  <2>4. ASSUME NEW z \in Payers PROVE Paid(booking', missed, z) = Paid(booking, missed, z)
    <3>1. Paid(Put(booking, y, r), missed, z)
            = Paid(booking, missed, z) + (IF z = r.by THEN 1 ELSE 0)
      BY <2>1, <2>2, PaidBooked
    <3>2. z # Trial /\ Paid(booking, missed, z) \in Nat
      BY <2>1, PayersApart, PaidIsNat
    <3> QED BY <2>2, <3>1, <3>2 DEF Put
  <2>5. ASSUME SessionsFit(booking) PROVE SessionsFit(booking')
    <3>1. \A q \in People, t \in Sessions :
             booking'[<<q, t>>] # Empty /\ booking'[<<q, t>>].by # Trial =>
                booking[<<q, t>>] # Empty /\ booking[<<q, t>>].by # Trial
      BY <2>1, <2>2 DEF Bookings
    <3> QED BY <2>5, <3>1, FewerFit
  <2>6. DeskTypeOK'
    BY <2>3 DEF DeskInv, DeskTypeOK
  <2>7. CreditsAgree(booking', missed', credit') /\ CardsAgree(booking', missed', card', uses')
    BY <2>4, PayersApart DEF DeskInv, CreditsAgree, CardsAgree
  <2>8. Punctual'
    BY <2>5 DEF DeskInv, Punctual, Mishap
  <2> QED BY <2>6, <2>7, <2>8 DEF DeskInv
<1> QED BY <1>1, <1>2

LEMMA DropInDesk ==
    ASSUME DeskInv, given' = given, NEW p \in People, NEW s \in Sessions, BookDropIn(p, s)
    PROVE  DeskInv'
<1>1. Book(p, s, Invoice) /\ UNCHANGED <<credit, card, uses>>
  BY DEF BookDropIn
<1>2. /\ booking' \in Bookings /\ counted' \in [Sessions -> Nat] /\ missed' = missed
      /\ scheduled' = scheduled /\ Punctual'
      /\ \A z \in Payers : Paid(booking', missed, z)
                           = Paid(booking, missed, z) + (IF z = Invoice THEN 1 ELSE 0)
  BY <1>1, BookingTypes
<1>3. ASSUME NEW z \in Payers PROVE Paid(booking', missed', z) = Paid(booking, missed, z)
  <2>1. Paid(booking, missed, z) \in Nat
    BY PaidIsNat DEF DeskInv, DeskTypeOK
  <2> QED BY <1>2, <2>1, PayersApart
<1>4. DeskTypeOK'
  BY <1>1, <1>2 DEF DeskInv, DeskTypeOK
<1>5. CreditsAgree(booking', missed', credit') /\ CardsAgree(booking', missed', card', uses')
  BY <1>1, <1>3, PayersApart DEF DeskInv, CreditsAgree, CardsAgree
<1> QED BY <1>2, <1>4, <1>5 DEF DeskInv

LEMMA MakeupDesk ==
    ASSUME DeskInv, given' = given, NEW p \in People, NEW from \in Sessions, NEW s \in Sessions,
           BookMakeup(p, from, s)
    PROVE  DeskInv'
<1> DEFINE x == <<p, from>>
<1>0. x \in Credits /\ x \in Payers
  BY PayersApart DEF Credits
<1>1. /\ credit[x] = "available" /\ Book(p, s, x) /\ credit' = [credit EXCEPT ![x] = "used"]
      /\ UNCHANGED <<card, uses>>
  BY DEF BookMakeup
<1> HIDE DEF x
<1>2. /\ booking' \in Bookings /\ counted' \in [Sessions -> Nat] /\ missed' = missed
      /\ scheduled' = scheduled /\ Punctual'
      /\ \A z \in Payers : Paid(booking', missed, z)
                           = Paid(booking, missed, z) + (IF z = x THEN 1 ELSE 0)
  BY <1>0, <1>1, BookingTypes
<1>3. \A z \in Payers : Paid(booking, missed, z) \in Nat
  BY PaidIsNat DEF DeskInv, DeskTypeOK
<1>4. DeskTypeOK'
  BY <1>1, <1>2 DEF DeskInv, DeskTypeOK
<1>5. CreditsAgree(booking', missed', credit')
  <2> SUFFICES ASSUME NEW z \in Credits
               PROVE  Paid(booking', missed', z) = IF credit'[z] = "used" THEN 1 ELSE 0
    BY DEF CreditsAgree
  <2>1. /\ z \in Payers /\ Paid(booking, missed, z) = IF credit[z] = "used" THEN 1 ELSE 0
        /\ credit \in [Credits -> {"none", "available", "used", "expired"}]
    BY PayersApart DEF DeskInv, CreditsAgree, DeskTypeOK
  <2>2. CASE z = x
    <3>1. Paid(booking', missed', z) = Paid(booking, missed, z) + 1 /\ credit'[z] = "used"
      BY <1>1, <1>2, <2>1, <2>2
    <3>2. Paid(booking, missed, z) = 0
      BY <1>1, <2>1, <2>2
    <3> QED BY <3>1, <3>2
  <2>3. CASE z # x
    <3>1. Paid(booking', missed', z) = Paid(booking, missed, z) /\ credit'[z] = credit[z]
      BY <1>1, <1>2, <1>3, <2>1, <2>3
    <3> QED BY <3>1, <2>1
  <2> QED BY <2>2, <2>3
<1>6. CardsAgree(booking', missed', card', uses')
  <2>1. ASSUME NEW k \in Cards PROVE Paid(booking', missed', k) = Paid(booking, missed, k)
    BY <1>0, <1>2, <1>3, PayersApart
  <2> QED BY <1>1, <2>1 DEF DeskInv, CardsAgree
<1> QED BY <1>2, <1>4, <1>5, <1>6 DEF DeskInv

LEMMA PunchCardDesk ==
    ASSUME DeskInv, given' = given, NEW k \in Cards, NEW s \in Sessions, BookPunchCard(k, s)
    PROVE  DeskInv'
<1>0. k \in Payers /\ OwnerOf[k] \in People
  BY PayersApart, ClassesAssumption
<1>1. /\ card[k] = "active" /\ uses[k] >= 1 /\ Book(OwnerOf[k], s, k)
      /\ uses' = [uses EXCEPT ![k] = @ - 1]
      /\ card' = [card EXCEPT ![k] = Remaining(uses'[k])]
      /\ UNCHANGED credit
  BY DEF BookPunchCard
<1>2. /\ booking' \in Bookings /\ counted' \in [Sessions -> Nat] /\ missed' = missed
      /\ scheduled' = scheduled /\ Punctual'
      /\ \A z \in Payers : Paid(booking', missed, z)
                           = Paid(booking, missed, z) + (IF z = k THEN 1 ELSE 0)
  BY <1>0, <1>1, BookingTypes
<1>3. \A z \in Payers : Paid(booking, missed, z) \in Nat
  BY PaidIsNat DEF DeskInv, DeskTypeOK
<1>4. /\ uses \in [Cards -> 0 .. Uses] /\ card \in [Cards -> {"none", "active", "exhausted"}]
      /\ Uses \in Nat
  BY ClassesAssumption DEF DeskInv, DeskTypeOK
<1>5. /\ uses' \in [Cards -> 0 .. Uses] /\ uses'[k] = uses[k] - 1
      /\ \A z \in Cards \ {k} : uses'[z] = uses[z]
  BY <1>1, <1>4
<1>6. /\ card' \in [Cards -> {"none", "active", "exhausted"}] /\ card'[k] = Remaining(uses'[k])
      /\ \A z \in Cards \ {k} : card'[z] = card[z]
  <2>1. Remaining(uses'[k]) \in {"none", "active", "exhausted"}
    BY DEF Remaining
  <2> QED BY <1>1, <1>4, <2>1
<1>7. DeskTypeOK'
  BY <1>1, <1>2, <1>5, <1>6 DEF DeskInv, DeskTypeOK
<1>8. CreditsAgree(booking', missed', credit')
  <2>1. ASSUME NEW z \in Credits PROVE Paid(booking', missed', z) = Paid(booking, missed, z)
    BY <1>2, <1>3, PayersApart
  <2> QED BY <1>1, <2>1 DEF DeskInv, CreditsAgree
<1>9. CardsAgree(booking', missed', card', uses')
  <2> SUFFICES ASSUME NEW z \in Cards
               PROVE  CardAgrees(Paid(booking', missed', z), card'[z], uses'[z])
    BY DEF CardsAgree
  <2>1. z \in Payers /\ CardAgrees(Paid(booking, missed, z), card[z], uses[z])
    BY PayersApart DEF DeskInv, CardsAgree
  <2>2. CASE z = k
    <3>1. uses[k] + Paid(booking, missed, k) = Uses
      BY <1>1, <2>1, <2>2 DEF CardAgrees
    <3>2. uses[k] \in Nat /\ Paid(booking, missed, k) \in Nat
      BY <1>0, <1>3, <1>4
    <3>3. Paid(booking', missed', k) = Paid(booking, missed, k) + 1
      BY <1>0, <1>2
    <3>4. uses'[k] + Paid(booking', missed', k) = Uses
      BY <1>5, <3>1, <3>2, <3>3
    <3>5. card'[k] # "none"
      BY <1>6 DEF Remaining
    <3> QED BY <1>6, <2>2, <3>4, <3>5 DEF CardAgrees
  <2>3. CASE z # k
    <3>1. Paid(booking', missed', z) = Paid(booking, missed, z)
      BY <1>2, <1>3, <2>1, <2>3
    <3> QED BY <1>5, <1>6, <2>1, <2>3, <3>1
  <2> QED BY <2>2, <2>3
<1> QED BY <1>2, <1>7, <1>8, <1>9 DEF DeskInv

LEMMA CancelDesk ==
    ASSUME DeskInv, given' = given, NEW p \in People, NEW s \in Sessions, CancelBooking(p, s)
    PROVE  DeskInv'
<1> DEFINE y == <<p, s>>
           x == booking[y].by
<1>1. /\ booking[y] # Empty /\ booking' = Put(booking, y, Empty)
      /\ credit' = [c \in Credits |-> IF c = x THEN "available" ELSE credit[c]]
      /\ uses' = [k \in Cards |-> IF k = x THEN uses[k] + 1 ELSE uses[k]]
      /\ card' = [k \in Cards |-> IF k = x THEN "active" ELSE card[k]]
      /\ UNCHANGED <<scheduled, missed, counted>>
  BY DEF CancelBooking, Put
<1>2. y \in People \X Sessions
  OBVIOUS
<1> HIDE DEF y
<1>3. /\ booking \in Bookings /\ missed \in [Payers -> Nat] /\ Uses \in Nat
      /\ uses \in [Cards -> 0 .. Uses] /\ card \in [Cards -> {"none", "active", "exhausted"}]
      /\ credit \in [Credits -> {"none", "available", "used", "expired"}]
  BY ClassesAssumption DEF DeskInv, DeskTypeOK
<1>4. booking' \in Bookings
  BY <1>1, <1>2, <1>3 DEF Bookings, Put
<1>5. ASSUME NEW z \in Payers
      PROVE  /\ Paid(booking', missed', z) \in Nat
             /\ Paid(booking, missed, z) = Paid(booking', missed', z) + (IF z = x THEN 1 ELSE 0)
  <2>1. Paid(booking, missed, z)
          = Paid(Put(booking, y, Empty), missed, z) + (IF z = booking[y].by THEN 1 ELSE 0)
    BY <1>1, <1>2, <1>3, PaidEnded
  <2>2. Paid(booking', missed, z) \in Nat
    BY <1>3, <1>4, PaidIsNat
  <2> QED BY <1>1, <2>1, <2>2
<1> HIDE DEF x
<1>6. CreditsAgree(booking', missed', credit')
  <2> SUFFICES ASSUME NEW z \in Credits
               PROVE  Paid(booking', missed', z) = IF credit'[z] = "used" THEN 1 ELSE 0
    BY DEF CreditsAgree
  <2>1. z \in Payers /\ Paid(booking, missed, z) = IF credit[z] = "used" THEN 1 ELSE 0
    BY PayersApart DEF DeskInv, CreditsAgree
  <2>2. CASE z = x
    <3>1. Paid(booking', missed', z) = 0
      BY <1>5, <2>1, <2>2
    <3> QED BY <1>1, <2>2, <3>1
  <2>3. CASE z # x
    <3>1. Paid(booking', missed', z) = Paid(booking, missed, z)
      BY <1>5, <2>1, <2>3
    <3> QED BY <1>1, <2>1, <2>3, <3>1
  <2> QED BY <2>2, <2>3
<1>7. ASSUME NEW k \in Cards
      PROVE  /\ uses'[k] \in 0 .. Uses
             /\ CardAgrees(Paid(booking', missed', k), card'[k], uses'[k])
  <2>1. /\ k \in Payers /\ CardAgrees(Paid(booking, missed, k), card[k], uses[k])
        /\ uses[k] \in 0 .. Uses
    BY <1>3, PayersApart DEF DeskInv, CardsAgree
  <2>2. CASE k = x
    <3>1. /\ Paid(booking, missed, k) = Paid(booking', missed', k) + 1
          /\ Paid(booking', missed', k) \in Nat
      BY <1>5, <2>1, <2>2
    <3>2. uses[k] + Paid(booking, missed, k) = Uses
      BY <2>1, <3>1 DEF CardAgrees
    <3>3. uses'[k] = uses[k] + 1 /\ card'[k] = "active"
      BY <1>1, <2>2
    <3>4. uses'[k] + Paid(booking', missed', k) = Uses /\ uses'[k] \in 0 .. Uses /\ uses'[k] # 0
      BY <1>3, <2>1, <3>1, <3>2, <3>3
    <3> QED BY <3>3, <3>4 DEF CardAgrees, Remaining
  <2>3. CASE k # x
    <3>1. Paid(booking', missed', k) = Paid(booking, missed, k)
      BY <1>5, <2>1, <2>3
    <3> QED BY <1>1, <2>1, <2>3, <3>1
  <2> QED BY <2>2, <2>3
<1>8. DeskTypeOK'
  <2>1. uses' \in [Cards -> 0 .. Uses]
    BY <1>1, <1>7
  <2> QED BY <1>1, <1>3, <1>4, <2>1 DEF DeskInv, DeskTypeOK
<1>9. Punctual'
  <2>1. ASSUME SessionsFit(booking) PROVE SessionsFit(booking')
    <3>1. \A q \in People, t \in Sessions :
             booking'[<<q, t>>] # Empty /\ booking'[<<q, t>>].by # Trial =>
                booking[<<q, t>>] # Empty /\ booking[<<q, t>>].by # Trial
      BY <1>1, <1>3 DEF Bookings, Put
    <3> QED BY <2>1, <3>1, FewerFit
  <2> QED BY <1>1, <2>1 DEF DeskInv, Punctual, Mishap
<1> QED BY <1>6, <1>7, <1>8, <1>9 DEF DeskInv, CardsAgree

\* A credit is granted where there was none.
LEMMA GrantedTypes ==
    ASSUME DeskInv, NEW p \in People, NEW s \in Sessions, NEW status,
           status = credit \/ status = Granted(p, s)
    PROVE  /\ status \in [Credits -> {"none", "available", "used", "expired"}]
           /\ \A z \in Credits : status[z] = "used" <=> credit[z] = "used"
<1>1. credit \in [Credits -> {"none", "available", "used", "expired"}]
  BY DEF DeskInv, DeskTypeOK
<1>2. \/ status = credit
      \/ /\ credit[<<p, s>>] = "none"
         /\ status = [credit EXCEPT ![<<p, s>>] = "available"]
  BY DEF Granted
<1> QED BY <1>1, <1>2

\* What paid for a booking that ends as no_show has paid for it.
LEMMA PaidMissed ==
    ASSUME NEW b \in Bookings, NEW m \in [Payers -> Nat],
           NEW y \in People \X Sessions, b[y] # Empty,
           NEW n, n = [x \in Payers |-> m[x] + (IF x = b[y].by THEN 1 ELSE 0)], NEW x \in Payers
    PROVE  /\ n \in [Payers -> Nat]
           /\ Paid(Put(b, y, Empty), n, x) = Paid(b, m, x)
<1> DEFINE a == Put(b, y, Empty)
<1>1. a \in Bookings /\ Cardinality(Kept(b, x)) = Cardinality(Kept(a, x))
                                                + (IF x = b[y].by THEN 1 ELSE 0)
  BY KeptEnded
<1> HIDE DEF a
<1>2. n \in [Payers -> Nat] /\ n[x] = m[x] + (IF x = b[y].by THEN 1 ELSE 0)
  OBVIOUS
<1>3. Cardinality(Kept(a, x)) \in Nat /\ m[x] \in Nat
  BY <1>1, KeptFinite
<1>4. Paid(a, n, x) = Paid(b, m, x)
  BY <1>1, <1>2, <1>3 DEF Paid
<1> QED BY <1>2, <1>4 DEF a

LEMMA MarkDesk ==
    ASSUME DeskInv, given' = given, NEW p \in People, NEW s \in Sessions, NEW how,
           Mark(p, s, how)
    PROVE  DeskInv'
<1> DEFINE y == <<p, s>>
<1>1. /\ credit' = credit \/ credit' = Granted(p, s)
      /\ UNCHANGED <<scheduled, card, uses, counted>>
      /\ \/ UNCHANGED <<booking, missed>>
         \/ /\ booking[y] # Empty
            /\ booking' = Attend(booking, y) /\ UNCHANGED missed
         \/ /\ booking[y] # Empty /\ booking' = Put(booking, y, Empty)
            /\ missed' = [x \in Payers |-> missed[x] + (IF x = booking[y].by THEN 1 ELSE 0)]
  BY DEF Mark, Put, Attend
<1>2. y \in People \X Sessions
  OBVIOUS
<1> HIDE DEF y
<1>3. booking \in Bookings /\ missed \in [Payers -> Nat]
  BY DEF DeskInv, DeskTypeOK
<1>4. /\ credit' \in [Credits -> {"none", "available", "used", "expired"}]
      /\ \A z \in Credits : credit'[z] = "used" <=> credit[z] = "used"
  BY <1>1, GrantedTypes
<1>5. /\ booking' \in Bookings /\ missed' \in [Payers -> Nat]
      /\ \A z \in Payers : Paid(booking', missed', z) = Paid(booking, missed, z)
      /\ \A q \in People, t \in Sessions :
             booking'[<<q, t>>] # Empty /\ booking'[<<q, t>>].by # Trial =>
                booking[<<q, t>>] # Empty /\ booking[<<q, t>>].by # Trial
  <2>1. CASE UNCHANGED <<booking, missed>>
    BY <1>3, <2>1
  <2>2. CASE /\ booking[y] # Empty
             /\ booking' = Attend(booking, y) /\ UNCHANGED missed
    <3>1. booking' \in Bookings /\ \A z : Kept(booking', z) = Kept(booking, z)
      BY <1>2, <1>3, <2>2, KeptAttended
    <3>2. \A z \in Payers : Paid(booking', missed', z) = Paid(booking, missed, z)
      BY <2>2, <3>1 DEF Paid
    <3>3. booking[y] \in Booking
      BY <1>2, <1>3, <2>2 DEF Bookings
    <3>4. \A q \in People, t \in Sessions :
             \/ booking'[<<q, t>>] = booking[<<q, t>>]
             \/ <<q, t>> = y /\ booking'[<<q, t>>].by = booking[<<q, t>>].by
      BY <1>2, <1>3, <2>2, <3>3 DEF Bookings, Booking, Attend
    <3> QED BY <1>3, <2>2, <3>1, <3>2, <3>4
  <2>3. CASE /\ booking[y] # Empty /\ booking' = Put(booking, y, Empty)
             /\ missed' = [x \in Payers |-> missed[x] + (IF x = booking[y].by THEN 1 ELSE 0)]
    <3>1. booking' \in Bookings
      BY <1>2, <1>3, <2>3 DEF Bookings, Put
    <3>2. missed' \in [Payers -> Nat]
      BY <1>3, <2>3
    <3>3. ASSUME NEW z \in Payers PROVE Paid(booking', missed', z) = Paid(booking, missed, z)
      BY <1>2, <1>3, <2>3, PaidMissed
    <3>4. \A q \in People, t \in Sessions :
             booking'[<<q, t>>] = booking[<<q, t>>] \/ booking'[<<q, t>>] = Empty
      BY <1>2, <1>3, <2>3 DEF Bookings, Put
    <3> QED BY <3>1, <3>2, <3>3, <3>4
  <2> QED BY <1>1, <2>1, <2>2, <2>3
<1>6. DeskTypeOK'
  BY <1>1, <1>4, <1>5 DEF DeskInv, DeskTypeOK
<1>7. CreditsAgree(booking', missed', credit')
  BY <1>4, <1>5, PayersApart DEF DeskInv, CreditsAgree
<1>8. CardsAgree(booking', missed', card', uses')
  BY <1>1, <1>5, PayersApart DEF DeskInv, CardsAgree
<1>9. Punctual'
  <2>1. ASSUME SessionsFit(booking) PROVE SessionsFit(booking')
    BY <1>5, <2>1, FewerFit
  <2> QED BY <1>1, <2>1 DEF DeskInv, Punctual, Mishap
<1> QED BY <1>6, <1>7, <1>8, <1>9 DEF DeskInv

LEMMA PurchaseDesk ==
    ASSUME DeskInv, given' = given, NEW k \in Cards, PurchasePunchCard(k) PROVE DeskInv'
<1>1. /\ card[k] = "none" /\ card' = [card EXCEPT ![k] = "active"]
      /\ uses' = [uses EXCEPT ![k] = Uses]
      /\ UNCHANGED <<scheduled, booking, missed, credit, counted>>
  BY DEF PurchasePunchCard
<1>2. /\ uses \in [Cards -> 0 .. Uses] /\ card \in [Cards -> {"none", "active", "exhausted"}]
      /\ Uses \in Nat \ {0}
  BY ClassesAssumption DEF DeskInv, DeskTypeOK
<1>3. DeskTypeOK'
  BY <1>1, <1>2 DEF DeskInv, DeskTypeOK
<1>4. CardsAgree(booking', missed', card', uses')
  <2> SUFFICES ASSUME NEW z \in Cards
               PROVE  CardAgrees(Paid(booking, missed, z), card'[z], uses'[z])
    BY <1>1 DEF CardsAgree
  <2>1. CardAgrees(Paid(booking, missed, z), card[z], uses[z])
    BY DEF DeskInv, CardsAgree
  <2>2. CASE z = k
    <3>1. Paid(booking, missed, z) = 0
      BY <1>1, <2>1, <2>2 DEF CardAgrees
    <3> QED BY <1>1, <1>2, <2>2, <3>1 DEF CardAgrees, Remaining
  <2>3. CASE z # k
    BY <1>1, <1>2, <2>1, <2>3
  <2> QED BY <2>2, <2>3
<1>5. CreditsAgree(booking', missed', credit') /\ Punctual'
  BY <1>1 DEF DeskInv, Punctual, Mishap
<1> QED BY <1>3, <1>4, <1>5 DEF DeskInv

LEMMA ExpiryDesk == ASSUME DeskInv, given' = given, TuitionJob PROVE DeskInv'
<1>1. /\ credit' = [x \in Credits |->
             IF x \in ranOut /\ credit[x] = "available" THEN "expired" ELSE credit[x]]
      /\ UNCHANGED <<scheduled, booking, missed, card, uses, counted>>
  BY DEF TuitionJob
<1>2. DeskTypeOK'
  BY <1>1 DEF DeskInv, DeskTypeOK
<1>3. CreditsAgree(booking', missed', credit')
  BY <1>1 DEF DeskInv, CreditsAgree
<1>4. CardsAgree(booking', missed', card', uses') /\ Punctual'
  BY <1>1 DEF DeskInv, Punctual, Mishap
<1> QED BY <1>2, <1>3, <1>4 DEF DeskInv

\* What a booking goes by is a count of its session.
LEMMA WaitingDesk ==
    ASSUME DeskInv, given' = given, NEW s \in Sessions, BookerWaits(s) \/ CancelSession(s)
    PROVE  DeskInv'
<1>1. /\ UNCHANGED <<booking, missed, credit, card, uses>>
      /\ scheduled' \subseteq scheduled
      /\ counted' = counted \/ (Mishap("race") /\ counted' = [counted EXCEPT ![s] = Taken(s)])
  BY DEF BookerWaits, CancelSession, Mishap
<1>2. DeskTypeOK'
  BY <1>1, TakenCovers DEF DeskInv, DeskTypeOK
<1>3. Punctual'
  BY <1>1 DEF DeskInv, Punctual, Mishap
<1> QED BY <1>1, <1>2, <1>3 DEF DeskInv

LEMMA DeskAtStart == ClassesInit => DeskInv
<1> SUFFICES ASSUME ClassesInit PROVE DeskInv
  OBVIOUS
<1>1. DeskTypeOK
  BY ClassesAssumption DEF ClassesInit, DeskTypeOK, Bookings
<1>2. ASSUME NEW x \in Payers PROVE Paid(booking, missed, x) = 0
  <2>1. Kept(booking, x) = {} /\ missed[x] = 0
    BY <1>2 DEF ClassesInit, Kept
  <2>2. Cardinality(Kept(booking, x)) = 0
    BY <2>1, FS_EmptySet
  <2> QED BY <2>1, <2>2 DEF Paid
<1>3. CreditsAgree(booking, missed, credit) /\ CardsAgree(booking, missed, card, uses)
  BY <1>2, PayersApart DEF ClassesInit, CreditsAgree, CardsAgree, CardAgrees
<1>4. SessionsFit(booking)
  <2> SUFFICES ASSUME NEW s \in Sessions PROVE Cardinality(HeldIn(booking, s)) <= Room[s]
    BY DEF SessionsFit
  <2>1. HeldIn(booking, s) = {}
    BY DEF ClassesInit, HeldIn
  <2>2. Cardinality(HeldIn(booking, s)) = 0
    BY <2>1, FS_EmptySet
  <2> QED BY <2>2, ClassesAssumption
<1>5. Punctual
  BY <1>4 DEF ClassesInit, Punctual
<1> QED BY <1>1, <1>3, <1>5 DEF DeskInv

LEMMA DeskKept ==
    ASSUME PlacesTypeOK, DeskInv, [ClassesNext]_classesVars PROVE DeskInv'
<1>0. given' = given
  BY GivenKept
<1>1. ASSUME NEW p \in given.people, NEW c \in given.classes, Place(p, c) PROVE DeskInv'
  <2>0. p \in People
    BY GivenTypes DEF PlacesTypeOK
  <2>1. ASSUME \/ EnrollActive(p, c)
               \/ \E s \in given.sessions \cup {NoSession} : EnrollTrial(p, c, s),
               UNCHANGED <<scheduled, missed, credit, card, uses, counted>>
        PROVE  DeskInv'
    <3>1. CASE EnrollActive(p, c)
      BY <1>0, <2>0, <2>1, <3>1, TrialDesk DEF EnrollActive
    <3>2. ASSUME NEW s \in given.sessions \cup {NoSession}, EnrollTrial(p, c, s) PROVE DeskInv'
      <4>1. CASE booking' = booking
        BY <1>0, <2>0, <2>1, <4>1, TrialDesk
      <4>2. CASE booking' # booking
        <5>1. /\ s \in scheduled /\ booking[<<p, s>>] = Empty
              /\ booking' = [booking EXCEPT ![<<p, s>>] = [by |-> Trial, attended |-> FALSE]]
          BY <3>2, <4>2 DEF EnrollTrial
        <5>2. s \in Sessions
          BY <5>1 DEF DeskInv, DeskTypeOK
        <5> QED BY <1>0, <2>0, <2>1, <5>1, <5>2, TrialDesk
      <4> QED BY <4>1, <4>2
    <3> QED BY <2>1, <3>1, <3>2
  <2>2. CASE Enroll(p, c)
    BY <2>1, <2>2 DEF Enroll
  <2>3. CASE AcceptOffer(p, c)
    BY <2>1, <2>3 DEF AcceptOffer
  <2>4. ASSUME UNCHANGED desk PROVE DeskInv'
    BY <1>0, <2>4, DeskSame
  <2>5. CASE \/ Enqueue(p, c) \/ Withdraw(p, c) \/ Pause(p, c) \/ Resume(p, c)
             \/ DeclineOffer(p, c) \/ RemoveEntry(p, c) \/ OfferRunsOut(p, c)
             \/ \E d \in given.classes : Promote(p, c, d)
    BY <2>4, <2>5 DEF Enqueue, Withdraw, Pause, Resume, DeclineOffer, RemoveEntry, OfferRunsOut,
                      Promote
  <2> QED BY <1>1, <2>2, <2>3, <2>5 DEF Place
<1>2. ASSUME NEW p \in given.people, NEW s \in given.sessions, Visit(p, s) PROVE DeskInv'
  <2>0. p \in People /\ s \in Sessions /\ given.sessions \subseteq Sessions
    BY GivenTypes DEF PlacesTypeOK
  <2>1. CASE BookDropIn(p, s)
    BY <1>0, <2>0, <2>1, DropInDesk
  <2>2. CASE CancelBooking(p, s)
    BY <1>0, <2>0, <2>2, CancelDesk
  <2>3. CASE CreditRunsOut(p, s)
    BY <1>0, <2>3, DeskSame DEF CreditRunsOut
  <2>4. ASSUME NEW from \in given.sessions, BookMakeup(p, from, s) PROVE DeskInv'
    BY <1>0, <2>0, <2>4, MakeupDesk
  <2>5. ASSUME NEW how \in {"present", "absent", "excused"}, Mark(p, s, how) PROVE DeskInv'
    BY <1>0, <2>0, <2>5, MarkDesk
  <2> QED BY <1>2, <2>1, <2>2, <2>3, <2>4, <2>5 DEF Visit
<1>3. ASSUME NEW c \in given.classes, NEW n \in 0 .. MaxCapacity, SetCapacity(c, n)
      PROVE  DeskInv'
  BY <1>0, <1>3, DeskSame DEF SetCapacity
<1>4. ASSUME NEW k \in Cards, NEW s \in given.sessions, BookPunchCard(k, s) PROVE DeskInv'
  <2>1. s \in Sessions
    BY GivenTypes DEF PlacesTypeOK
  <2> QED BY <1>0, <1>4, <2>1, PunchCardDesk
<1>5. ASSUME NEW k \in Cards, PurchasePunchCard(k) PROVE DeskInv'
  BY <1>0, <1>5, PurchaseDesk
<1>6. ASSUME NEW s \in given.sessions, BookerWaits(s) \/ CancelSession(s) PROVE DeskInv'
  <2>1. s \in Sessions
    BY GivenTypes DEF PlacesTypeOK
  <2> QED BY <1>0, <1>6, <2>1, WaitingDesk
<1>7. CASE TuitionJob
  BY <1>0, <1>7, ExpiryDesk
<1>8. CASE UNCHANGED classesVars
  BY <1>0, <1>8, DeskSame DEF classesVars
<1> QED
  BY <1>1, <1>2, <1>3, <1>4, <1>5, <1>6, <1>7, <1>8 DEF ClassesNext

-----------------------------------------------------------------------------
(* The theorems.                                                           *)

ClassesInv ==
    /\ PlacesTypeOK
    /\ ClassesFit
    /\ OneRunsOut
    /\ AllOnOffer
    /\ DeskInv

\* The payments and the sessions of the invariant are those of BookingsArePaid.
LEMMA InvariantIsPaid == ClassesInv => BookingsArePaid
<1> SUFFICES ASSUME ClassesInv PROVE BookingsArePaid
  OBVIOUS
<1>1. \A x : PaidBy(x) = Paid(booking, missed, x)
  BY DEF PaidBy, Paid, Kept
<1>2. \A x \in Credits : PaidBy(x) = IF credit[x] = "used" THEN 1 ELSE 0
  BY <1>1 DEF ClassesInv, DeskInv, CreditsAgree
<1>3. \A k \in Cards : card[k] # "none" =>
         uses[k] + PaidBy(k) = Uses /\ card[k] = Remaining(uses[k])
  BY <1>1 DEF ClassesInv, DeskInv, CardsAgree, CardAgrees
<1>4. \A s \in Sessions : Mishap("race") \/
         Room[s] >= Cardinality({p \in People : /\ booking[<<p, s>>] # Empty
                                                /\ booking[<<p, s>>].by # Trial})
  BY DEF ClassesInv, DeskInv, Punctual, SessionsFit, HeldIn
<1>5. \A c \in Classes :
         size[c] >= Cardinality({p \in People :
                                    enrolled[<<p, c>>].status \in {"active", "paused"}})
  BY DEF ClassesInv, ClassesFit, ClassFits, Seated
<1> QED BY <1>2, <1>3, <1>4, <1>5 DEF BookingsArePaid

THEOREM ClassesInductive == ClassesSpec => []ClassesInv
<1>1. ClassesInit => ClassesInv
  BY PlacesTypesStart, ClassesFitAtStart, OneRunsOutAtStart, AllOnOfferAtStart, DeskAtStart
  DEF ClassesInv
<1>2. ClassesInv /\ [ClassesNext]_classesVars => ClassesInv'
  <2> SUFFICES ASSUME ClassesInv, [ClassesNext]_classesVars PROVE ClassesInv'
    OBVIOUS
  <2>1. PlacesTypeOK'
    BY PlacesTypesKept DEF ClassesInv
  <2>2. ClassesFit'
    BY ClassesFitKept DEF ClassesInv
  <2>3. OneRunsOut'
    BY OneRunsOutKept DEF ClassesInv
  <2>4. AllOnOffer'
    BY <2>1, AllOnOfferKept DEF ClassesInv
  <2>5. DeskInv'
    BY DeskKept DEF ClassesInv
  <2> QED BY <2>1, <2>2, <2>3, <2>4, <2>5 DEF ClassesInv
<1> QED BY <1>1, <1>2, PTL DEF ClassesSpec

\* Lines stay in order, offers are to people in them, and no card gets more
\* uses than it had.
THEOREM ClassesTypeCorrect == ClassesSpec => []ClassesTypeOK
<1>1. ClassesInv => ClassesTypeOK
  BY TypeParts DEF ClassesInv, DeskInv
<1> QED BY <1>1, ClassesInductive, PTL

\* Every booking is paid for once and every payment buys one booking; sessions
\* (unless a booking waited) and classes (trials apart) are not overbooked.
THEOREM BookingsPaid == ClassesSpec => []BookingsArePaid
BY InvariantIsPaid, ClassesInductive, PTL

\* While somebody waits for a class, its free places are on offer.
THEOREM PlacesOffered == ClassesSpec => []PlacesAreOffered
<1>1. ClassesInv => PlacesAreOffered
  BY AllOnOfferIs DEF ClassesInv
<1> QED BY <1>1, ClassesInductive, PTL

=============================================================================
