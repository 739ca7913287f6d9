-------------------- MODULE RegistrationLifecycleProofs --------------------
(***************************************************************************)
(* Proofs about RegistrationLifecycle, for any offerings, programs, lines  *)
(* and capacities, and whatever mishaps a behaviour is given.              *)
(***************************************************************************)
EXTENDS RegistrationLifecycle, FoldLemmas

-----------------------------------------------------------------------------
(* The invariant.                                                          *)

Deadlines == {"ahead", "extended", "passed", "overdue"}
HoldStates == {"none", "active", "released", "converted"}

\* The rows a chain of database states goes through.
Databases ==
    [confirmed : [Subjects -> Nat], held : [Subjects -> Nat], cart : [Carts -> CartStatus],
     lines : [Carts -> SUBSET Lines], hold : [Carts -> [Subjects -> HoldStates]],
     deadline : [Carts -> Deadlines], entry : [WaitLines -> EntryStatus]]

\* A cart has the lines that are its own, one for a participant in a program.
OwnLines(D) ==
    \A c \in Carts : /\ \A l \in D.lines[c] : CartOf[l] = c
                     /\ \A k, l \in D.lines[c] : SameRegistration(k, l) => k = l

\* A waitlist entry has no cart before it is offered.
NoCartYet(D) ==
    \A w \in WaitLines : D.entry[w] \in {"none", "waiting"} => D.cart[CartOf[w]] = "none"

\* A participant has one offer in a program.
OneOffer(D) ==
    \A v, w \in WaitLines :
        /\ D.entry[v] = "offered" /\ D.entry[w] = "offered"
        /\ PersonOf[v] = PersonOf[w]
        /\ ProgramOf[OfferingOf[v]] = ProgramOf[OfferingOf[w]]
        => v = w

\* Registrations come with the quote.
Unquoted(D, r) ==
    \A l \in Lines : D.cart[CartOf[l]] \in {"none", "open"} =>
        \A o \in Offerings : r[l][o] = "none"

Rows(D, r) == D \in Databases /\ OwnLines(D) /\ NoCartYet(D) /\ OneOffer(D) /\ Unquoted(D, r)

OneLive(r) ==
    \A q, s \in Lines \X Offerings :
        /\ r[q[1]][q[2]] \in Live /\ r[s[1]][s[2]] \in Live
        /\ PersonOf[q[1]] = PersonOf[s[1]]
        /\ ProgramOf[q[2]] = ProgramOf[s[2]]
        => q = s

LifecycleInv == LifecycleTypeOK /\ Rows(Database, reg) /\ OneLive(reg)

\* How entries go on: none that is over comes back, and none of those that
\* still wait is overtaken.
EntriesGoOn(D, E) ==
    \A w \in WaitLines :
        /\ D.entry[w] \in {"accepted", "expired", "declined"} => E.entry[w] = D.entry[w]
        /\ D.entry[w] = "waiting" /\ E.entry[w] = "offered" =>
              \A v \in WaitLines :
                  /\ OfferingOf[v] = OfferingOf[w]
                  /\ D.entry[v] = "waiting" /\ E.entry[v] \in {"waiting", "offered"}
                  => position[w] <= position[v]

-----------------------------------------------------------------------------
(* Constants and rows.                                                     *)

\* What the assumption on the constants gives.
LEMMA Parameters ==
    /\ IsFiniteSet(Offerings) /\ IsFiniteSet(Lines) /\ IsFiniteSet(WaitLines)
    /\ WaitLines \subseteq Lines
    /\ \A l \in Lines : OfferingOf[l] \in Offerings /\ CartOf[l] \in Carts
    /\ \A w \in WaitLines, l \in Lines : CartOf[l] = CartOf[w] => l = w
    /\ \A g \in Givens : g.lines \subseteq Lines /\ g.destinations \subseteq Offerings
BY LifecycleAssumption, FS_Subset DEF Carts

\* The lines that take a place can be counted.
LEMMA PlacesCounted ==
    ASSUME NEW D \in Databases, NEW c \in Carts, NEW s \in Subjects
    PROVE  Places(D, c, s) \in Nat /\ (s \notin CartSubjects(D, c) => Places(D, c, s) = 0)
<1>1. In(D, c, s) \subseteq Lines
  BY DEF In, Databases
<1>2. IsFiniteSet(In(D, c, s))
  BY <1>1, Parameters, FS_Subset
<1>3. Places(D, c, s) \in Nat
  BY <1>2, FS_CardinalityType DEF Places
<1>4. s \notin CartSubjects(D, c) => In(D, c, s) = {}
  BY DEF CartSubjects
<1> QED BY <1>3, <1>4, FS_EmptySet DEF Places

\* The rows of a well-typed state.
LEMMA DatabaseFields ==
    LifecycleTypeOK => Database \in Databases
BY DEF LifecycleTypeOK, Database, Databases, Deadlines, HoldStates

\* Held places less some are as many, at least none.
LEMMA LessIsNat == \A n, k \in Nat : Less(n, k) \in Nat
BY DEF Less

\* What is invariant of the rows depends on carts, lines and entries.
LEMMA SameRows ==
    ASSUME NEW D, NEW r, Rows(D, r), NEW E \in Databases,
           E.cart = D.cart, E.lines = D.lines, E.entry = D.entry
    PROVE  Rows(E, r)
BY DEF Rows, OwnLines, NoCartYet, OneOffer, Unquoted

\* A cart that is there may expire.
LEMMA ExpireKeeps ==
    ASSUME NEW D, NEW r, Rows(D, r), NEW c \in Carts, D.cart[c] # "none"
    PROVE  Rows(Expire(D, c), r) /\ Expire(D, c).entry = D.entry
<1> DEFINE E == Expire(D, c)
<1>1. /\ E \in Databases /\ E.lines = D.lines /\ E.entry = D.entry
      /\ \A d \in Carts : E.cart[d] = IF d = c THEN "expired" ELSE D.cart[d]
  BY DEF Rows, Databases, Expire, CartStatus
<1> HIDE DEF E
<1>2. OwnLines(E) /\ OneOffer(E)
  BY <1>1 DEF Rows, OwnLines, OneOffer
<1>3. NoCartYet(E)
  BY <1>1, Parameters DEF Rows, NoCartYet
<1>4. Unquoted(E, r)
  BY <1>1, Parameters DEF Rows, Unquoted
<1> QED BY <1>1, <1>2, <1>3, <1>4 DEF Rows, E

\* Giving up holds changes hold rows and counters only.
LEMMA GiveUpKeeps ==
    ASSUME NEW D, NEW r, Rows(D, r), NEW c \in Carts, NEW o
    PROVE  LET E == GiveUpHolds(D, c, o) IN
           Rows(E, r) /\ E.entry = D.entry /\ E.cart = D.cart
<1> DEFINE M == MarkActive(D, c, "released")
           E == GiveUpHolds(D, c, o)
<1>1. /\ M \in Databases /\ M.lines = D.lines /\ M.entry = D.entry /\ M.cart = D.cart
  <2> DEFINE row == [s \in Subjects |->
                        IF D.hold[c][s] = "active" THEN "released" ELSE D.hold[c][s]]
  <2>1. row \in [Subjects -> HoldStates]
    BY DEF Rows, Databases, HoldStates
  <2>2. [D.hold EXCEPT ![c] = row] \in [Carts -> [Subjects -> HoldStates]]
    BY <2>1 DEF Rows, Databases
  <2>3. M = [D EXCEPT !.hold = [D.hold EXCEPT ![c] = row]]
    BY DEF MarkActive
  <2> HIDE DEF row
  <2> QED BY <2>2, <2>3 DEF Rows, Databases
<1> HIDE DEF M
<1>2. /\ E \in Databases /\ E.lines = M.lines /\ E.entry = M.entry /\ E.cart = M.cart
  <2>1. [s \in Subjects |-> IF s \in SubjectsOf[o] THEN Less(M.held[s], 1) ELSE M.held[s]]
           \in [Subjects -> Nat]
    BY <1>1, LessIsNat DEF Databases
  <2> QED BY <1>1, <2>1 DEF M, GiveUpHolds, OneHeldLess, Databases
<1> QED BY <1>1, <1>2, SameRows

\* A confirmed place that is freed changes a counter only.
LEMMA FreeKeeps ==
    ASSUME NEW D, NEW r, Rows(D, r), NEW o \in Offerings, CanFree(D, o)
    PROVE  Rows(FreeConfirmed(D, o), r) /\ FreeConfirmed(D, o).entry = D.entry
<1> DEFINE E == FreeConfirmed(D, o)
<1>1. [s \in Subjects |-> IF s \in SubjectsOf[o] THEN D.confirmed[s] - 1 ELSE D.confirmed[s]]
         \in [Subjects -> Nat]
  BY DEF Rows, Databases, CanFree
<1>2. E \in Databases /\ E.cart = D.cart /\ E.lines = D.lines /\ E.entry = D.entry
  BY <1>1 DEF Rows, Databases, FreeConfirmed
<1> QED BY <1>2, SameRows

-----------------------------------------------------------------------------
(* The waitlist moves on.                                                  *)

\* One of those who wait has waited longest.
LEMMA FirstWaits ==
    ASSUME position \in [WaitLines -> Nat], NEW D, NEW o, Waiting(D, o) # {}
    PROVE  /\ First(D, o) \in Waiting(D, o)
           /\ \A v \in Waiting(D, o) : position[First(D, o)] <= position[v]
<1> DEFINE P == {position[w] : w \in Waiting(D, o)}
<1>1. P \subseteq Nat /\ P # {}
  BY DEF Waiting
<1>2. PICK m \in P : \A n \in P : ~ (<<n, m>> \in OpToRel(<, Nat))
  BY <1>1, NatLessThanWellFounded, WFMin
<1>3. \A n \in P : m <= n
  <2> SUFFICES ASSUME NEW n \in P PROVE m <= n
    OBVIOUS
  <2>1. m \in Nat /\ n \in Nat
    BY <1>1
  <2>2. ~ (n < m)
    BY <1>2, <2>1 DEF OpToRel
  <2> QED BY <2>1, <2>2
<1>4. \E w \in Waiting(D, o) : \A v \in Waiting(D, o) : position[w] <= position[v]
  BY <1>3
<1> QED BY <1>4 DEF First

\* Stale offers expire.
LEMMA AfterStaleKeeps ==
    ASSUME NEW D, NEW r, Rows(D, r), NEW o \in Offerings
    PROVE  LET E == AfterStale(D, o) IN
           /\ Rows(E, r)
           /\ \A w \in WaitLines :
                 E.entry[w] = IF w \in Stale(D, o) THEN "expired" ELSE D.entry[w]
<1> DEFINE gone == Stale(D, o)
           goneCarts == {CartOf[w] : w \in gone}
           Back(s) == Cardinality({w \in gone : D.hold[CartOf[w]][s] = "active"})
           E == AfterStale(D, o)
<1>1. gone \subseteq WaitLines /\ goneCarts \subseteq Carts /\ D \in Databases
  BY Parameters DEF Stale, Rows
<1>2. ASSUME NEW s \in Subjects PROVE Back(s) \in Nat
  <2>1. IsFiniteSet({w \in gone : D.hold[CartOf[w]][s] = "active"})
    BY <1>1, Parameters, FS_Subset
  <2> QED BY <2>1, FS_CardinalityType
<1>3. ASSUME NEW c \in Carts
      PROVE MarkActive(D, c, "released").hold[c] \in [Subjects -> HoldStates]
  BY <1>1 DEF Databases, MarkActive, HoldStates
<1>4. /\ E \in Databases /\ E.lines = D.lines
      /\ \A c \in Carts : E.cart[c] = IF c \in goneCarts THEN "expired" ELSE D.cart[c]
      /\ \A w \in WaitLines : E.entry[w] = IF w \in gone THEN "expired" ELSE D.entry[w]
  <2> DEFINE held1 == [s \in Subjects |-> Less(D.held[s], Back(s))]
             hold1 == [c \in Carts |->
                          IF c \in goneCarts THEN MarkActive(D, c, "released").hold[c]
                                       ELSE D.hold[c]]
             cart1 == [c \in Carts |-> IF c \in goneCarts THEN "expired" ELSE D.cart[c]]
             entry1 == [w \in WaitLines |-> IF w \in gone THEN "expired" ELSE D.entry[w]]
  <2>1. held1 \in [Subjects -> Nat]
    BY <1>1, <1>2, LessIsNat DEF Databases
  <2>2. hold1 \in [Carts -> [Subjects -> HoldStates]]
    BY <1>1, <1>3 DEF Databases
  <2>3. cart1 \in [Carts -> CartStatus] /\ entry1 \in [WaitLines -> EntryStatus]
    BY <1>1 DEF Databases, CartStatus, EntryStatus
  <2>4. E = [D EXCEPT !.held = held1, !.hold = hold1, !.cart = cart1, !.entry = entry1]
    BY DEF AfterStale
  <2>5. /\ E \in Databases /\ E.lines = D.lines /\ E.cart = cart1 /\ E.entry = entry1
    <3> HIDE DEF held1, hold1, cart1, entry1, E
    <3> QED BY <1>1, <2>1, <2>2, <2>3, <2>4 DEF Databases
  <2> HIDE DEF E
  <2> QED BY <2>5
<1> HIDE DEF E
<1>5. OwnLines(E)
  BY <1>4 DEF Rows, OwnLines
<1>6. NoCartYet(E)
  <2> SUFFICES ASSUME NEW w \in WaitLines, E.entry[w] \in {"none", "waiting"}
               PROVE  E.cart[CartOf[w]] = "none"
    BY DEF NoCartYet
  <2>1. w \notin gone /\ D.cart[CartOf[w]] = "none"
    BY <1>4 DEF Rows, NoCartYet
  <2>2. CartOf[w] \notin goneCarts
    BY <1>1, <2>1, Parameters
  <2> QED BY <1>4, <2>1, <2>2, Parameters
<1>7. OneOffer(E)
  BY <1>4 DEF Rows, OneOffer
<1>8. Unquoted(E, r)
  BY <1>4, Parameters DEF Rows, Unquoted
<1> HIDE DEF gone
<1> QED BY <1>4, <1>5, <1>6, <1>7, <1>8 DEF Rows, E, gone

\* An offer gives its entry a cart.
LEMMA OfferedKeeps ==
    ASSUME NEW D, NEW r, Rows(D, r), NEW w \in WaitLines, Offerable(D, w)
    PROVE  LET E == Offered(D, w) IN
           /\ Rows(E, r)
           /\ \A v \in WaitLines : E.entry[v] = IF v = w THEN "offered" ELSE D.entry[v]
<1> DEFINE c == CartOf[w]
           S == SubjectsOf[OfferingOf[w]]
           E == Offered(D, w)
<1>1. c \in Carts /\ D \in Databases /\ D.entry[w] = "waiting" /\ D.cart[c] = "none"
      /\ ~OtherOffer(D, w)
  BY Parameters DEF Offerable, Rows, NoCartYet
<1>2. /\ E \in Databases
      /\ \A d \in Carts : /\ E.cart[d] = IF d = c THEN "open" ELSE D.cart[d]
                          /\ E.lines[d] = IF d = c THEN {w} ELSE D.lines[d]
      /\ \A v \in WaitLines : E.entry[v] = IF v = w THEN "offered" ELSE D.entry[v]
  <2> DEFINE held1 == [s \in Subjects |-> IF s \in S THEN D.held[s] + 1 ELSE D.held[s]]
             hold1 == [D.hold EXCEPT ![c] =
                          [s \in Subjects |-> IF s \in S THEN "active" ELSE "none"]]
             cart1 == [D.cart EXCEPT ![c] = "open"]
             lines1 == [D.lines EXCEPT ![c] = {w}]
             entry1 == [D.entry EXCEPT ![w] = "offered"]
  <2>1. held1 \in [Subjects -> Nat] /\ hold1 \in [Carts -> [Subjects -> HoldStates]]
    BY <1>1 DEF Databases, HoldStates
  <2>2. /\ cart1 \in [Carts -> CartStatus] /\ entry1 \in [WaitLines -> EntryStatus]
        /\ lines1 \in [Carts -> SUBSET Lines]
    BY <1>1, Parameters DEF Databases, CartStatus, EntryStatus
  <2>3. E = [D EXCEPT !.cart = cart1, !.lines = lines1, !.hold = hold1, !.held = held1,
                      !.entry = entry1]
    BY DEF Offered
  <2>4. E \in Databases /\ E.lines = lines1 /\ E.cart = cart1 /\ E.entry = entry1
    <3> HIDE DEF held1, hold1, cart1, lines1, entry1, E
    <3> QED BY <1>1, <2>1, <2>2, <2>3 DEF Databases
  <2> HIDE DEF E
  <2> QED BY <1>1, <2>4 DEF Databases
<1> HIDE DEF E
<1>3. OwnLines(E)
  BY <1>2 DEF Rows, OwnLines
<1>4. NoCartYet(E)
  BY <1>2, Parameters DEF Rows, NoCartYet
<1>5. OneOffer(E)
  BY <1>1, <1>2 DEF Rows, OneOffer, OtherOffer
<1>6. Unquoted(E, r)
  BY <1>1, <1>2, Parameters DEF Rows, Unquoted
<1> QED BY <1>2, <1>3, <1>4, <1>5, <1>6 DEF Rows, E

\* advanceWaitlist keeps the rows in order, and takes the entries in turn.
LEMMA AdvancedKeeps ==
    ASSUME position \in [WaitLines -> Nat], NEW D, NEW r, Rows(D, r), NEW o \in Offerings
    PROVE  /\ Rows(Advanced(o, D), r)
           /\ EntriesGoOn(D, Advanced(o, D))
           /\ \A w \in WaitLines : OfferingOf[w] # o => Advanced(o, D).entry[w] = D.entry[w]
<1> DEFINE E == AfterStale(D, o)
           F == First(E, o)
<1>1. /\ Rows(E, r)
      /\ \A w \in WaitLines : E.entry[w] = IF w \in Stale(D, o) THEN "expired" ELSE D.entry[w]
  BY AfterStaleKeeps
<1>2. \A w \in WaitLines : w \in Stale(D, o) => D.entry[w] = "offered" /\ OfferingOf[w] = o
  BY DEF Stale
<1> HIDE DEF E
<1>3. CASE Advanced(o, D) = E
  BY <1>1, <1>2, <1>3 DEF EntriesGoOn
<1>4. CASE Waiting(E, o) # {} /\ Offerable(E, F) /\ Advanced(o, D) = Offered(E, F)
  <2>1. F \in Waiting(E, o) /\ \A v \in Waiting(E, o) : position[F] <= position[v]
    BY <1>4, FirstWaits
  <2>2. F \in WaitLines /\ OfferingOf[F] = o /\ E.entry[F] = "waiting" /\ D.entry[F] = "waiting"
    BY <1>1, <1>2, <2>1 DEF Waiting
  <2>3. /\ Rows(Offered(E, F), r)
        /\ \A v \in WaitLines : Offered(E, F).entry[v] = IF v = F THEN "offered" ELSE E.entry[v]
    BY <1>1, <1>4, <2>2, OfferedKeeps
  <2>4. \A v \in WaitLines : OfferingOf[v] = o /\ D.entry[v] = "waiting" => v \in Waiting(E, o)
    BY <1>1, <1>2 DEF Waiting
  <2> HIDE DEF F
  <2> QED BY <1>1, <1>2, <1>4, <2>1, <2>2, <2>3, <2>4 DEF EntriesGoOn
<1> QED BY <1>3, <1>4 DEF Advanced, E

\* A cart that is confirmed closes its accepted offer.
LEMMA ConfirmKeeps ==
    ASSUME NEW r, Rows(Database, r), NEW c \in Carts, Confirmable(c)
    PROVE  LET E == ConfirmPlaces(Database, c) IN
           Rows(E, r) /\ EntriesGoOn(Database, E) /\ E.cart[c] = "completed" /\ E.lines = lines
<1> DEFINE D == Database
           E == ConfirmPlaces(D, c)
           row == [s \in Subjects |->
                      IF D.hold[c][s] = "active" THEN "converted" ELSE D.hold[c][s]]
           held1 == [s \in Subjects |-> D.held[s] - Places(D, c, s)]
           confirmed1 == [s \in Subjects |-> D.confirmed[s] + Places(D, c, s)]
           hold1 == [D.hold EXCEPT ![c] = row]
           cart1 == [D.cart EXCEPT ![c] = "completed"]
           entry1 == [w \in WaitLines |->
               IF CartOf[w] = c /\ D.entry[w] = "offered" /\ accepted[w] THEN "accepted"
               ELSE D.entry[w]]
<1>1. /\ D \in Databases /\ D.held = held /\ D.cart = cart /\ D.entry = entry /\ D.lines = lines
      /\ cart[c] \in {"open", "awaiting_payment"}
  BY DEF Database, Rows, Confirmable
<1>2. \A s \in Subjects : Places(D, c, s) \in Nat /\ Places(D, c, s) <= D.held[s]
  <2> SUFFICES ASSUME NEW s \in Subjects
               PROVE  Places(D, c, s) \in Nat /\ Places(D, c, s) <= D.held[s]
    OBVIOUS
  <2>1. Places(D, c, s) \in Nat /\ (s \notin CartSubjects(D, c) => Places(D, c, s) = 0)
    BY <1>1, PlacesCounted
  <2>2. s \in CartSubjects(D, c) => D.held[s] >= Places(D, c, s)
    BY <1>1 DEF Confirmable
  <2>3. D.held[s] \in Nat
    BY <1>1 DEF Databases
  <2> QED BY <2>1, <2>2, <2>3
<1> HIDE DEF D
<1>3. held1 \in [Subjects -> Nat] /\ confirmed1 \in [Subjects -> Nat]
  BY <1>1, <1>2 DEF Databases
<1>4. row \in [Subjects -> HoldStates] /\ hold1 \in [Carts -> [Subjects -> HoldStates]]
  <2>1. row \in [Subjects -> HoldStates]
    BY <1>1 DEF Databases, HoldStates
  <2> HIDE DEF row
  <2> QED BY <1>1, <2>1 DEF Databases
<1>5. cart1 \in [Carts -> CartStatus] /\ entry1 \in [WaitLines -> EntryStatus]
  BY <1>1 DEF Databases, CartStatus, EntryStatus
<1>6. E = [D EXCEPT !.hold = hold1, !.held = held1, !.confirmed = confirmed1, !.cart = cart1,
                    !.entry = entry1]
  <2>1. MarkActive(D, c, "converted") = [D EXCEPT !.hold = hold1]
    BY DEF MarkActive
  <2> HIDE DEF hold1
  <2> QED BY <1>1, <2>1 DEF ConfirmPlaces, Databases
<1>7. E \in Databases /\ E.cart = cart1 /\ E.entry = entry1 /\ E.lines = D.lines
  <2> HIDE DEF E, row, held1, confirmed1, hold1, cart1, entry1
  <2> QED BY <1>1, <1>3, <1>4, <1>5, <1>6 DEF Databases
<1>8. /\ \A d \in Carts : E.cart[d] = IF d = c THEN "completed" ELSE D.cart[d]
      /\ \A w \in WaitLines : E.entry[w] = D.entry[w]
                              \/ (D.entry[w] = "offered" /\ E.entry[w] = "accepted")
  <2>1. /\ D.cart \in [Carts -> CartStatus] /\ D.entry \in [WaitLines -> EntryStatus]
        /\ E.cart = cart1 /\ E.entry = entry1
    <3> HIDE DEF E, cart1, entry1
    <3> QED BY <1>1, <1>7 DEF Databases
  <2> HIDE DEF E
  <2>2. \A d \in Carts : E.cart[d] = IF d = c THEN "completed" ELSE D.cart[d]
    BY <2>1
  <2>3. \A w \in WaitLines : E.entry[w] = D.entry[w]
                              \/ (D.entry[w] = "offered" /\ E.entry[w] = "accepted")
    <3> SUFFICES ASSUME NEW w \in WaitLines
                 PROVE  E.entry[w] = D.entry[w]
                        \/ (D.entry[w] = "offered" /\ E.entry[w] = "accepted")
      OBVIOUS
    <3>1. E.entry[w] = entry1[w]
      BY <2>1
    <3>2. entry1[w] = IF CartOf[w] = c /\ D.entry[w] = "offered" /\ accepted[w] THEN "accepted"
                      ELSE D.entry[w]
      OBVIOUS
    <3> HIDE DEF entry1
    <3> QED BY <3>1, <3>2
  <2> QED BY <2>2, <2>3
<1> HIDE DEF E
<1>9. Rows(D, r)
  BY DEF D
<1>10. OwnLines(E)
  BY <1>7, <1>9 DEF Rows, OwnLines
<1>11. NoCartYet(E)
  BY <1>1, <1>8, <1>9, Parameters DEF Rows, NoCartYet
<1>12. OneOffer(E)
  BY <1>8, <1>9 DEF Rows, OneOffer
<1>13. Unquoted(E, r)
  BY <1>8, <1>9, Parameters DEF Rows, Unquoted
<1>14. EntriesGoOn(D, E)
  BY <1>8 DEF EntriesGoOn
<1> QED BY <1>1, <1>7, <1>8, <1>10, <1>11, <1>12, <1>13, <1>14 DEF Rows, D, E

-----------------------------------------------------------------------------
(* What follows of a step.                                                 *)

OtherTypes ==
    /\ given \in Givens
    /\ over \in [WaitLines -> BOOLEAN]
    /\ position \in [WaitLines -> Nat]
    /\ accepted \in [WaitLines -> BOOLEAN]
    /\ reg \in [Lines -> [Offerings -> RegStatus]]
    /\ invoice \in [Carts -> {"none", "open", "free", "processing", "paid", "void"}]
    /\ failedOnce \in [Carts -> BOOLEAN]

\* A state is well-typed when its rows and its other variables are.
LEMMA TypesSplit == LifecycleTypeOK <=> Database \in Databases /\ OtherTypes
<1> DEFINE D == Database
<1>1. /\ D.confirmed = confirmed /\ D.held = held /\ D.cart = cart /\ D.lines = lines
      /\ D.hold = hold /\ D.deadline = deadline /\ D.entry = entry
  BY DEF Database
<1>2. D \in Databases =>
         /\ D.confirmed \in [Subjects -> Nat] /\ D.held \in [Subjects -> Nat]
         /\ D.cart \in [Carts -> CartStatus] /\ D.lines \in [Carts -> SUBSET Lines]
         /\ D.hold \in [Carts -> [Subjects -> HoldStates]]
         /\ D.deadline \in [Carts -> Deadlines] /\ D.entry \in [WaitLines -> EntryStatus]
  <2> HIDE DEF D
  <2> QED BY DEF Databases
<1>3. OtherTypes /\ D \in Databases => LifecycleTypeOK
  <2> HIDE DEF D
  <2> QED BY <1>1, <1>2 DEF OtherTypes, LifecycleTypeOK, Deadlines, HoldStates
<1> QED BY <1>3, DatabaseFields DEF OtherTypes, LifecycleTypeOK

\* The rows are those that are written.
LEMMA WrittenRows ==
    ASSUME NEW D \in Databases, Write(D)
    PROVE  Database' = D
BY DEF Write, Database, Databases

\* A step that leaves the variables of the rows alone leaves the rows alone.
LEMMA SameDatabase ==
    ASSUME UNCHANGED <<counts, carts, entry>>
    PROVE  Database' = Database
BY DEF counts, carts, Database

\* What a step is to keep, and may never do.
GoodStep == LifecycleInv' /\ ClosedStep /\ TurnStep

\* How registrations go on when no participant gets one.
RegsGoOn ==
    \A l \in Lines, o \in Offerings :
        /\ reg[l][o] = "none" => reg'[l][o] = "none"
        /\ reg'[l][o] \in Live => reg[l][o] \in Live
        /\ reg[l][o] \in Closed => reg'[l][o] = reg[l][o]

\* A step is good when its rows stay in order and its entries go on, no second
\* registration goes live and no closed one comes back.
LEMMA StepIsGood ==
    ASSUME LifecycleInv, OtherTypes', Rows(Database', reg'), EntriesGoOn(Database, Database'),
           OneLive(reg'),
           \A l \in Lines, o \in Offerings : reg[l][o] \in Closed => reg'[l][o] = reg[l][o]
    PROVE  GoodStep
<1>1. LifecycleTypeOK'
  <2>1. (Database \in Databases /\ OtherTypes)'
    BY DEF Rows
  <2> QED BY <2>1, TypesSplit, PTL
<1>2. Database.entry = entry /\ (Database').entry = entry'
  BY DEF Database
<1>3. ClosedStep
  BY <1>2 DEF ClosedStep, EntriesGoOn
<1>4. TurnStep
  BY <1>2 DEF TurnStep, EntriesGoOn
<1> QED BY <1>1, <1>3, <1>4 DEF GoodStep, LifecycleInv

\* A step after which nobody has a registration who had none.
LEMMA QuietStepIsGood ==
    ASSUME LifecycleInv, OtherTypes', Rows(Database', reg), EntriesGoOn(Database, Database'),
           RegsGoOn
    PROVE  GoodStep
<1>1. OneLive(reg')
  BY DEF LifecycleInv, OneLive, RegsGoOn
<1>2. Rows(Database', reg')
  BY DEF Rows, Unquoted, RegsGoOn
<1> QED BY <1>1, <1>2, StepIsGood DEF RegsGoOn

\* Entries that stay as they are go on.
LEMMA NothingMoves == EntriesGoOn(Database, Database)
BY DEF EntriesGoOn

\* A step that writes the end of a chain of rows.
LEMMA GoodWrite ==
    ASSUME LifecycleInv, NEW D, Write(D), Rows(D, reg), EntriesGoOn(Database, D),
           OtherTypes', RegsGoOn
    PROVE  GoodStep
<1>1. Database' = D
  BY WrittenRows DEF Rows
<1> QED BY <1>1, QuietStepIsGood

\* A step that leaves the rows alone.
LEMMA GoodStay ==
    ASSUME LifecycleInv, UNCHANGED <<counts, carts, entry>>, OtherTypes', RegsGoOn
    PROVE  GoodStep
<1>1. Database' = Database
  BY SameDatabase
<1> QED BY <1>1, NothingMoves, QuietStepIsGood DEF LifecycleInv

\* What the invariant says, for the lemmas to cite.
LEMMA InvTypes ==
    ASSUME LifecycleInv
    PROVE  OtherTypes /\ Database \in Databases /\ Rows(Database, reg) /\ OneLive(reg)
BY TypesSplit DEF LifecycleInv

\* Registrations that stay as they are go on.
LEMMA RegsStay == UNCHANGED reg => RegsGoOn
BY DEF RegsGoOn

\* Entries that are declined, or not touched, before the waitlist moves on.
DeclinedOf(D, o) ==
    \A w \in WaitLines :
        \/ D.entry[w] = entry[w]
        \/ /\ OfferingOf[w] = o /\ D.entry[w] = "declined"
           /\ entry[w] \in {"waiting", "offered"}

\* A transaction that ends with advanceWaitlist.
LEMMA AdvanceGoesOn ==
    ASSUME LifecycleInv, NEW D, NEW o \in Offerings, Rows(D, reg), DeclinedOf(D, o),
           AdvanceAndWrite(D, o)
    PROVE  Rows(Database', reg) /\ EntriesGoOn(Database, Database')
<1> DEFINE E == Advanced(o, D)
<1>1. Rows(E, reg) /\ EntriesGoOn(D, E)
  BY AdvancedKeeps, InvTypes DEF OtherTypes
<1>2. Database' = E
  BY <1>1, WrittenRows DEF AdvanceAndWrite, Rows
<1>3. Database.entry = entry
  BY DEF Database
<1> HIDE DEF E
<1>4. ASSUME NEW w \in WaitLines, entry[w] \in {"accepted", "expired", "declined"}
      PROVE  E.entry[w] = entry[w]
  BY <1>1, <1>4 DEF EntriesGoOn, DeclinedOf
<1>5. ASSUME NEW w \in WaitLines, entry[w] = "waiting", E.entry[w] = "offered",
             NEW v \in WaitLines, OfferingOf[v] = OfferingOf[w], entry[v] = "waiting",
             E.entry[v] \in {"waiting", "offered"}
      PROVE  position[w] <= position[v]
  <2>1. D.entry[w] = "waiting" /\ D.entry[v] = "waiting"
    BY <1>1, <1>5 DEF EntriesGoOn, DeclinedOf
  <2> QED BY <1>1, <1>5, <2>1 DEF EntriesGoOn
<1>6. EntriesGoOn(Database, E)
  BY <1>3, <1>4, <1>5 DEF EntriesGoOn
<1> QED BY <1>1, <1>2, <1>6

-----------------------------------------------------------------------------
(* The waitlist's actions.                                                 *)

\* The largest of finitely many positions is one of them.
LEMMA LargestPosition ==
    ASSUME position \in [WaitLines -> Nat], NEW o
    PROVE  Max({0} \cup {position[v] : v \in {u \in WaitLines : OfferingOf[u] = o}}) \in Nat
<1> DEFINE W == {u \in WaitLines : OfferingOf[u] = o}
           P == {0} \cup {position[v] : v \in W}
           up(v) == {u \in W : position[u] >= position[v]}
           ups == {up(v) : v \in W}
<1>1. W \in SUBSET WaitLines /\ IsFiniteSet(W) /\ \A v \in W : position[v] \in Nat
  BY Parameters, FS_Subset
<1>2. \E z \in P : \A y \in P : z >= y
  <2>1. CASE W = {}
    BY <2>1
  <2>2. CASE W # {}
    <3> HIDE DEF W
    <3>1. ups \in SUBSET SUBSET W /\ ups # {}
      BY <2>2
    <3> HIDE DEF ups
    <3>2. PICK T \in ups : \A U \in ups : U \subseteq T => U = T
      BY <1>1, <3>1, SmallestSet
    <3>3. PICK v \in W : T = up(v)
      BY DEF ups
    <3>4. ASSUME NEW u \in W PROVE position[v] >= position[u]
      <4>1. position[u] \in Nat /\ position[v] \in Nat
        BY <1>1
      <4>2. ASSUME position[u] > position[v] PROVE FALSE
        <5>1. \A x \in W : position[x] >= position[u] => position[x] >= position[v]
          BY <1>1, <4>1, <4>2
        <5>2. up(u) \subseteq up(v) /\ up(u) \in ups
          BY <5>1 DEF ups
        <5>3. v \in up(v) /\ v \notin up(u)
          BY <4>1, <4>2
        <5> HIDE DEF up
        <5> QED BY <3>2, <3>3, <5>2, <5>3
      <4> QED BY <4>1, <4>2
    <3>5. position[v] \in P /\ \A y \in P : position[v] >= y
      BY <1>1, <3>4
    <3> QED BY <3>5
  <2> QED BY <2>1, <2>2
<1>3. P \subseteq Nat
  BY <1>1
<1> HIDE DEF P
<1>4. Max(P) \in P
  BY <1>2 DEF Max
<1> QED BY <1>3, <1>4 DEF P

\* A new entry waits without a cart.
LEMMA JoinKeeps ==
    ASSUME LifecycleInv, NEW w \in WaitLines, Join(w)
    PROVE  GoodStep
<1> DEFINE D == Database
           E == Database'
<1>1. Rows(D, reg) /\ OtherTypes /\ D.entry = entry /\ entry[w] = "none"
  BY InvTypes DEF Join, Database
<1>2. E = [D EXCEPT !.entry = [entry EXCEPT ![w] = "waiting"]]
  BY DEF Join, counts, carts, Database
<1>3. OtherTypes'
  <2> DEFINE last == Max({0} \cup {position[v] : v \in
                             {u \in WaitLines : OfferingOf[u] = OfferingOf[w]}})
  <2>1. last \in Nat /\ position' = [position EXCEPT ![w] = 1 + last]
    BY <1>1, LargestPosition DEF Join, OtherTypes
  <2> HIDE DEF last
  <2>2. position' \in [WaitLines -> Nat]
    BY <1>1, <2>1 DEF OtherTypes
  <2> QED BY <1>1, <2>2 DEF Join, OtherTypes
<1> HIDE DEF D, E
<1>4. /\ E \in Databases /\ E.cart = D.cart /\ E.lines = D.lines
      /\ \A v \in WaitLines : E.entry[v] = IF v = w THEN "waiting" ELSE D.entry[v]
  BY <1>1, <1>2 DEF Rows, Databases, EntryStatus
<1>5. Rows(E, reg)
  <2>1. NoCartYet(E)
    BY <1>1, <1>4 DEF Rows, NoCartYet
  <2>2. OwnLines(E) /\ OneOffer(E) /\ Unquoted(E, reg)
    BY <1>1, <1>4 DEF Rows, OwnLines, OneOffer, Unquoted
  <2> QED BY <1>4, <2>1, <2>2 DEF Rows
<1>6. EntriesGoOn(D, E)
  BY <1>1, <1>4 DEF EntriesGoOn
<1> QED BY <1>3, <1>5, <1>6, RegsStay, QuietStepIsGood DEF D, E, Join

\* Staff may offer out of turn, and only what is not offered elsewhere.
LEMMA StaffOfferKeeps ==
    ASSUME LifecycleInv, NEW w \in WaitLines, StaffOffer(w)
    PROVE  GoodStep
<1> DEFINE D == Database
           E == Offered(Database, w)
<1>1. Rows(D, reg) /\ OtherTypes /\ OneLive(reg) /\ D.entry = entry
  BY InvTypes DEF Database
<1>2. Offerable(D, w) /\ Write(E) /\ UNCHANGED reg
  BY DEF StaffOffer
<1>3. OtherTypes'
  BY <1>1 DEF StaffOffer, OtherTypes
<1>4. D.entry[w] = "waiting"
  BY <1>2 DEF Offerable
<1> HIDE DEF D, E
<1>5. /\ Rows(E, reg)
      /\ \A v \in WaitLines : E.entry[v] = IF v = w THEN "offered" ELSE D.entry[v]
  BY <1>1, <1>2, OfferedKeeps DEF D, E
<1>6. Database' = E /\ entry' = E.entry
  BY <1>2, <1>5, WrittenRows DEF Rows, Write
<1>7. LifecycleTypeOK'
  <2>1. (Database \in Databases /\ OtherTypes)'
    BY <1>3, <1>5, <1>6 DEF Rows
  <2> QED BY <2>1, TypesSplit, PTL
<1>8. ClosedStep
  BY <1>1, <1>2, <1>4, <1>5, <1>6 DEF ClosedStep
<1>9. TurnStep
  BY <1>1, <1>5, <1>6 DEF TurnStep
<1>10. LifecycleInv'
  BY <1>1, <1>2, <1>5, <1>6, <1>7 DEF LifecycleInv
<1> QED BY <1>8, <1>9, <1>10 DEF GoodStep

\* Accepting touches no row of the chain.
LEMMA AcceptKeeps ==
    ASSUME LifecycleInv, NEW w \in WaitLines, Accept(w)
    PROVE  GoodStep
<1>1. OtherTypes'
  BY InvTypes DEF OtherTypes, Accept
<1> QED BY <1>1, RegsStay, GoodStay DEF Accept

\* Time touches no row of the chain.
LEMMA OfferRunsOutKeeps ==
    ASSUME LifecycleInv, NEW w \in WaitLines, OfferRunsOut(w)
    PROVE  GoodStep
<1>1. OtherTypes'
  BY InvTypes DEF OtherTypes, OfferRunsOut
<1> QED BY <1>1, RegsStay, GoodStay DEF OfferRunsOut

\* A declined entry is over before the waitlist moves on.
LEMMA CloseEntryKeeps ==
    ASSUME LifecycleInv, NEW w \in WaitLines, CloseEntry(w)
    PROVE  GoodStep
<1> DEFINE c == CartOf[w]
           o == OfferingOf[w]
           B == Database
           D == [B EXCEPT !.entry[w] = "declined"]
           E == IF B.cart[c] = "none" THEN D ELSE Expire(GiveUpHolds(D, c, o), c)
<1>1. /\ Rows(B, reg) /\ OtherTypes /\ c \in Carts /\ o \in Offerings
      /\ B.entry = entry /\ B.cart = cart /\ B.entry[w] \in {"waiting", "offered"}
  BY InvTypes, Parameters DEF CloseEntry, Database
<1>2. OtherTypes' /\ RegsGoOn
  BY <1>1, RegsStay DEF CloseEntry, OtherTypes
<1>3. AdvanceAndWrite(E, o)
  BY <1>1 DEF CloseEntry
<1> HIDE DEF B, c, o
<1>4. /\ D \in Databases /\ D.cart = B.cart /\ D.lines = B.lines
      /\ \A v \in WaitLines : D.entry[v] = IF v = w THEN "declined" ELSE B.entry[v]
  BY <1>1 DEF Rows, Databases, EntryStatus
<1> HIDE DEF D
<1>5. Rows(D, reg)
  <2>1. NoCartYet(D)
    BY <1>1, <1>4 DEF Rows, NoCartYet
  <2>2. OwnLines(D) /\ OneOffer(D) /\ Unquoted(D, reg)
    BY <1>1, <1>4 DEF Rows, OwnLines, OneOffer, Unquoted
  <2> QED BY <1>4, <2>1, <2>2 DEF Rows
<1>6. Rows(E, reg) /\ E.entry = D.entry
  <2>1. CASE B.cart[c] = "none"
    BY <1>5, <2>1
  <2>2. CASE B.cart[c] # "none"
    <3> DEFINE F == GiveUpHolds(D, c, o)
    <3>1. Rows(F, reg) /\ F.entry = D.entry /\ F.cart = D.cart
      BY <1>1, <1>5, GiveUpKeeps
    <3> HIDE DEF F
    <3>2. Rows(Expire(F, c), reg) /\ Expire(F, c).entry = F.entry
      BY <1>1, <1>4, <2>2, <3>1, ExpireKeeps
    <3> QED BY <2>2, <3>1, <3>2 DEF F
  <2> QED BY <2>1, <2>2
<1> HIDE DEF E
<1>7. DeclinedOf(E, o)
  BY <1>1, <1>4, <1>6 DEF DeclinedOf, o
<1> QED BY <1>1, <1>2, <1>3, <1>6, <1>7, AdvanceGoesOn, QuietStepIsGood

\* The job's fold over the offerings keeps what advanceWaitlist keeps, and each
\* offering's entries move once.
LEMMA AllAdvanced ==
    ASSUME LifecycleInv, NEW due \in SUBSET Offerings
    PROVE  LET E == FoldSet(Advanced, Database, due) IN
           Rows(E, reg) /\ EntriesGoOn(Database, E)
<1> DEFINE B == Database
           IsRun(g) == g = [s \in SUBSET due |-> IF s = {} THEN B
                                ELSE Advanced(FirstOf(s), g[s \ {FirstOf(s)}])]
           h == CHOOSE g : IsRun(g)
           V == {D \in Databases : Rows(D, reg)}
           op == [x \in due \X V |-> Advanced(x[1], x[2])]
<1>1. FoldSet(Advanced, Database, due) = h[due]
  BY DEF FoldSet, MapThenFoldSet, FirstOf
<1>2. B \in V /\ IsFiniteSet(due) /\ position \in [WaitLines -> Nat]
  BY InvTypes, Parameters, FS_Subset DEF OtherTypes
<1>3. op \in [due \X V -> V]
  BY <1>2, AdvancedKeeps DEF Rows
<1> HIDE DEF V, B
<1>4. PICK g : Chain(op, B, V, due, g)
  <2> HIDE DEF op
  <2> QED BY <1>2, <1>3, ChainExists
<1>5. IsRun(g)
  <2>1. ASSUME NEW s \in SUBSET due, s # {}
        PROVE  g[s] = Advanced(FirstOf(s), g[s \ {FirstOf(s)}])
    <3>1. FirstOf(s) \in due /\ g[s \ {FirstOf(s)}] \in V
      BY <1>4, <2>1, FirstTakenOut DEF Chain
    <3> QED BY <1>4, <2>1, <3>1 DEF Chain
  <2> QED BY <1>4, <2>1 DEF Chain
<1>6. IsRun(h)
  <2> HIDE DEF IsRun
  <2> QED BY <1>5
<1>7. /\ h[{}] = B
      /\ \A s \in SUBSET due : s # {} => h[s] = Advanced(FirstOf(s), h[s \ {FirstOf(s)}])
  <2> HIDE DEF h
  <2> QED BY <1>6
<1> HIDE DEF h, IsRun
<1> DEFINE Goes(s) == /\ Rows(h[s], reg) /\ EntriesGoOn(B, h[s])
                      /\ \A w \in WaitLines : OfferingOf[w] \notin s =>
                               h[s].entry[w] = B.entry[w]
           bad == {s \in SUBSET due : ~Goes(s)}
<1>8. Goes({})
  BY <1>7, InvTypes DEF B, EntriesGoOn
<1>9. ASSUME NEW s \in SUBSET due, s # {}, Goes(s \ {FirstOf(s)})
      PROVE  Goes(s)
  <2> DEFINE o == FirstOf(s)
             D == h[s \ {o}]
             E == h[s]
  <2>1. o \in s /\ o \in Offerings
    BY <1>9, FirstTakenOut
  <2>2. Rows(D, reg) /\ EntriesGoOn(B, D)
        /\ \A w \in WaitLines : OfferingOf[w] \notin s \ {o} => D.entry[w] = B.entry[w]
    BY <1>9
  <2>3. E = Advanced(o, D)
    BY <1>7, <1>9
  <2> HIDE DEF D, E, o
  <2>4. /\ Rows(E, reg) /\ EntriesGoOn(D, E)
        /\ \A w \in WaitLines : OfferingOf[w] # o => E.entry[w] = D.entry[w]
    BY <1>2, <2>1, <2>2, <2>3, AdvancedKeeps
  <2>5. ASSUME NEW w \in WaitLines, B.entry[w] \in {"accepted", "expired", "declined"}
        PROVE  E.entry[w] = B.entry[w]
    BY <2>2, <2>4, <2>5 DEF EntriesGoOn
  <2>6. ASSUME NEW w \in WaitLines, B.entry[w] = "waiting", E.entry[w] = "offered",
               NEW v \in WaitLines, OfferingOf[v] = OfferingOf[w], B.entry[v] = "waiting",
               E.entry[v] \in {"waiting", "offered"}
        PROVE  position[w] <= position[v]
    <3>1. CASE OfferingOf[w] = o
      <4>1. D.entry[w] = "waiting" /\ D.entry[v] = "waiting"
        BY <2>2, <2>6, <3>1
      <4> QED BY <2>4, <2>6, <4>1 DEF EntriesGoOn
    <3>2. CASE OfferingOf[w] # o
      <4>1. D.entry[w] = "offered" /\ D.entry[v] \in {"waiting", "offered"}
        BY <2>4, <2>6, <3>2
      <4> QED BY <2>2, <2>6, <4>1 DEF EntriesGoOn
    <3> QED BY <3>1, <3>2
  <2>7. EntriesGoOn(B, E)
    BY <2>5, <2>6 DEF EntriesGoOn
  <2>8. \A w \in WaitLines : OfferingOf[w] \notin s => E.entry[w] = B.entry[w]
    BY <2>1, <2>2, <2>4
  <2> QED BY <2>4, <2>7, <2>8 DEF E
<1> HIDE DEF Goes
<1>10. bad = {}
  <2> SUFFICES ASSUME bad # {} PROVE FALSE
    OBVIOUS
  <2>1. PICK s \in bad : \A u \in bad : u \subseteq s => u = s
    <3>1. bad \in SUBSET SUBSET due
      OBVIOUS
    <3> HIDE DEF bad
    <3> QED BY <1>2, <3>1, SmallestSet
  <2>2. s \in SUBSET due /\ s # {}
    BY <1>8
  <2>3. s \ {FirstOf(s)} \in SUBSET due /\ s \ {FirstOf(s)} # s
    BY <2>2, FirstTakenOut
  <2>4. Goes(s \ {FirstOf(s)})
    BY <2>1, <2>3
  <2> QED BY <1>9, <2>2, <2>4
<1>11. Goes(due)
  BY <1>10
<1> QED BY <1>1, <1>11 DEF Goes, B

\* The job writes the end of the fold.
LEMMA RemindersJobKeeps ==
    ASSUME LifecycleInv, RemindersJob
    PROVE  GoodStep
<1> DEFINE due == {o \in Offerings : Stale(Database, o) # {}}
           D == FoldSet(Advanced, Database, due)
<1>1. OtherTypes' /\ RegsGoOn
  BY InvTypes, RegsStay DEF RemindersJob, OtherTypes
<1>2. Write(D)
  BY DEF RemindersJob
<1>3. Rows(D, reg) /\ EntriesGoOn(Database, D)
  <2>1. due \in SUBSET Offerings
    OBVIOUS
  <2> HIDE DEF due
  <2> QED BY <2>1, AllAdvanced
<1> HIDE DEF D
<1> QED BY <1>1, <1>2, <1>3, GoodWrite

-----------------------------------------------------------------------------
(* The actions of carts.                                                   *)

\* A cart that is there goes on, and none opens again.
LEMMA CartsGoOn ==
    ASSUME NEW D, NEW r, Rows(D, r), NEW E \in Databases, E.lines = D.lines, E.entry = D.entry,
           \A c \in Carts : /\ D.cart[c] = "none" => E.cart[c] = "none"
                            /\ E.cart[c] \in {"none", "open"} => D.cart[c] \in {"none", "open"}
    PROVE  Rows(E, r) /\ EntriesGoOn(D, E)
<1>1. OwnLines(E) /\ OneOffer(E)
  BY DEF Rows, OwnLines, OneOffer
<1>2. NoCartYet(E)
  BY Parameters DEF Rows, NoCartYet
<1>3. Unquoted(E, r)
  BY Parameters DEF Rows, Unquoted
<1> QED BY <1>1, <1>2, <1>3 DEF Rows, EntriesGoOn

\* The fields of the rows, as the actions name them.
LEMMA RowFields ==
    /\ Database.confirmed = confirmed /\ Database.held = held /\ Database.cart = cart
    /\ Database.lines = lines /\ Database.hold = hold /\ Database.deadline = deadline
    /\ Database.entry = entry
BY DEF Database

\* The variables that make up the rows, with their types.
LEMMA RowTypes ==
    ASSUME LifecycleInv
    PROVE  /\ confirmed \in [Subjects -> Nat] /\ held \in [Subjects -> Nat]
           /\ cart \in [Carts -> CartStatus] /\ lines \in [Carts -> SUBSET Lines]
           /\ hold \in [Carts -> [Subjects -> HoldStates]]
           /\ deadline \in [Carts -> Deadlines] /\ entry \in [WaitLines -> EntryStatus]
BY DEF LifecycleInv, LifecycleTypeOK, HoldStates, Deadlines

\* Rows made of fields of their types.
LEMMA Updated ==
    ASSUME NEW D \in Databases, NEW confirmed1 \in [Subjects -> Nat],
           NEW held1 \in [Subjects -> Nat], NEW cart1 \in [Carts -> CartStatus],
           NEW hold1 \in [Carts -> [Subjects -> HoldStates]],
           NEW deadline1 \in [Carts -> Deadlines], NEW lines1 \in [Carts -> SUBSET Lines]
    PROVE  LET E == [D EXCEPT !.confirmed = confirmed1, !.held = held1, !.cart = cart1,
                              !.lines = lines1, !.hold = hold1, !.deadline = deadline1]
           IN  /\ E \in Databases /\ E.confirmed = confirmed1 /\ E.held = held1
               /\ E.cart = cart1 /\ E.lines = lines1 /\ E.hold = hold1
               /\ E.deadline = deadline1 /\ E.entry = D.entry
BY DEF Databases

\* A new cart has lines of its own and no registration yet.
LEMMA StartCartKeeps ==
    ASSUME LifecycleInv, NEW c \in Carts, NEW L \in SUBSET given.lines, StartCart(c, L)
    PROVE  GoodStep
<1> DEFINE B == Database
           D == [B EXCEPT !.cart[c] = "open", !.lines[c] = L]
           held1 == [s \in Subjects |-> held[s] + Places(D, c, s)]
           row == [s \in Subjects |-> IF s \in CartSubjects(D, c) THEN "active" ELSE "none"]
           E == [D EXCEPT !.held = held1, !.hold[c] = row]
           cart1 == [cart EXCEPT ![c] = "open"]
           lines1 == [lines EXCEPT ![c] = L]
           hold1 == [hold EXCEPT ![c] = row]
<1>1. /\ Rows(B, reg) /\ B \in Databases /\ OtherTypes /\ L \subseteq Lines
      /\ cart[c] = "none" /\ c \notin WaitCarts
      /\ \A l \in L : CartOf[l] = c
      /\ \A k, l \in L : SameRegistration(k, l) => k = l
  BY InvTypes, Parameters DEF StartCart, OtherTypes
<1>2. Write(E)
  BY DEF StartCart
<1>3. OtherTypes' /\ RegsGoOn
  BY <1>1, RegsStay DEF StartCart, OtherTypes
<1>4. cart1 \in [Carts -> CartStatus] /\ lines1 \in [Carts -> SUBSET Lines]
  BY <1>1, RowTypes DEF CartStatus
<1>5. D = [B EXCEPT !.cart = cart1, !.lines = lines1]
  BY RowFields
<1>6. D \in Databases /\ D.hold = hold
  <2> HIDE DEF cart1, lines1, D
  <2> QED BY <1>1, <1>4, <1>5, RowFields DEF Databases
<1>7. held1 \in [Subjects -> Nat]
  <2> HIDE DEF D
  <2> QED BY <1>6, PlacesCounted, RowTypes
<1>8. hold1 \in [Carts -> [Subjects -> HoldStates]]
  <2>1. row \in [Subjects -> HoldStates]
    BY DEF HoldStates
  <2> HIDE DEF row
  <2> QED BY <2>1, RowTypes
<1>9. E = [D EXCEPT !.held = held1, !.hold = hold1]
  <2> HIDE DEF D, row
  <2> QED BY <1>6
<1>10. E \in Databases /\ E.cart = cart1 /\ E.lines = lines1 /\ E.entry = B.entry
  <2>1. D.cart = cart1 /\ D.lines = lines1 /\ D.entry = B.entry
    <3> HIDE DEF cart1, lines1, D
    <3> QED BY <1>1, <1>5 DEF Databases
  <2> HIDE DEF held1, hold1, cart1, lines1, D, E
  <2> QED BY <1>6, <1>7, <1>8, <1>9, <2>1 DEF Databases
<1> HIDE DEF E
<1>11. /\ \A d \in Carts : /\ E.cart[d] = IF d = c THEN "open" ELSE B.cart[d]
                           /\ E.lines[d] = IF d = c THEN L ELSE B.lines[d]
       /\ B.cart[c] = "none"
  BY <1>1, <1>10, RowTypes, RowFields
<1> HIDE DEF B
<1>12. OwnLines(E)
  BY <1>1, <1>11 DEF Rows, OwnLines
<1>13. NoCartYet(E)
  BY <1>1, <1>10, <1>11, Parameters DEF Rows, NoCartYet, WaitCarts
<1>14. OneOffer(E)
  BY <1>1, <1>10 DEF Rows, OneOffer
<1>15. Unquoted(E, reg)
  BY <1>1, <1>11, Parameters DEF Rows, Unquoted
<1>16. Rows(E, reg)
  BY <1>10, <1>12, <1>13, <1>14, <1>15 DEF Rows
<1>17. EntriesGoOn(B, E)
  BY <1>10 DEF EntriesGoOn
<1> QED BY <1>2, <1>3, <1>16, <1>17, GoodWrite DEF B

\* A payment under way touches no row of the chain.
LEMMA StartPaymentKeeps ==
    ASSUME LifecycleInv, NEW c \in Carts, StartPayment(c)
    PROVE  GoodStep
<1>1. OtherTypes'
  BY InvTypes DEF OtherTypes, StartPayment, waitlist
<1> QED BY <1>1, RegsStay, GoodStay DEF StartPayment, waitlist

\* Time touches deadlines only.
LEMMA DeadlinePassesKeeps ==
    ASSUME LifecycleInv, NEW c \in Carts, DeadlinePasses(c)
    PROVE  GoodStep
<1> DEFINE E == Database'
<1>1. OtherTypes' /\ RegsGoOn
  BY InvTypes, RegsStay DEF OtherTypes, DeadlinePasses
<1>2. deadline' \in [Carts -> Deadlines]
  BY RowTypes DEF DeadlinePasses, Deadlines
<1>3. E \in Databases /\ E.cart = cart /\ E.lines = lines /\ E.entry = entry
  BY <1>2, RowTypes DEF DeadlinePasses, counts, Database, Databases
<1> HIDE DEF E
<1>4. Rows(E, reg) /\ EntriesGoOn(Database, E)
  BY <1>3, InvTypes, RowFields, CartsGoOn
<1> QED BY <1>1, <1>4, QuietStepIsGood DEF E

\* Registrations whose status is restated were live before and are after.
LEMMA Restated ==
    ASSUME LifecycleInv, NEW c, NEW old \in Live, NEW new \in Live,
           reg' = Restate(c, old, new)
    PROVE  RegsGoOn /\ reg' \in [Lines -> [Offerings -> RegStatus]]
<1>1. reg \in [Lines -> [Offerings -> RegStatus]]
  BY InvTypes DEF OtherTypes
<1>2. \A l \in Lines, o \in Offerings :
         reg'[l][o] = IF CartOf[l] = c /\ reg[l][o] = old THEN new ELSE reg[l][o]
  BY DEF Restate
<1>3. reg' \in [Lines -> [Offerings -> RegStatus]]
  BY <1>1 DEF Restate, Live, RegStatus
<1> QED BY <1>2, <1>3 DEF RegsGoOn, Live, Closed

\* A confirmation restates live registrations.
LEMMA PaymentConfirmsKeeps ==
    ASSUME LifecycleInv, NEW c \in Carts, NEW settled \in BOOLEAN, PaymentConfirms(c, settled)
    PROVE  GoodStep
<1>1. invoice' \in [Carts -> {"none", "open", "free", "processing", "paid", "void"}]
  BY InvTypes DEF OtherTypes, PaymentConfirms
<1>2. CASE Confirmable(c)
  <2>1. Write(ConfirmPlaces(Database, c)) /\ reg' = Restate(c, "pending_payment", "confirmed")
    BY <1>2 DEF PaymentConfirms
  <2>2. RegsGoOn /\ reg' \in [Lines -> [Offerings -> RegStatus]]
    BY <2>1, Restated DEF Live
  <2>3. OtherTypes'
    BY <1>1, <2>2, InvTypes DEF OtherTypes, PaymentConfirms
  <2>4. Rows(ConfirmPlaces(Database, c), reg)
       /\ EntriesGoOn(Database, ConfirmPlaces(Database, c))
    BY <1>2, InvTypes, ConfirmKeeps
  <2> QED BY <2>1, <2>2, <2>3, <2>4, GoodWrite
<1>3. CASE ~Confirmable(c)
  <2>1. UNCHANGED <<counts, carts, entry, reg>>
    BY <1>3 DEF PaymentConfirms
  <2>2. OtherTypes'
    BY <1>1, <2>1, InvTypes DEF OtherTypes, PaymentConfirms
  <2> QED BY <2>1, <2>2, RegsStay, GoodStay
<1> QED BY <1>2, <1>3

\* A failed payment restates live registrations; what it takes back was confirmed.
LEMMA PaymentFailsKeeps ==
    ASSUME LifecycleInv, NEW c \in Carts, PaymentFails(c)
    PROVE  GoodStep
<1>1. invoice' \in [Carts -> {"none", "open", "free", "processing", "paid", "void"}]
  BY InvTypes DEF OtherTypes, PaymentFails
<1>2. CASE ~Keepable(c)
  <2>1. UNCHANGED <<counts, carts, entry, reg, failedOnce>>
    BY <1>2 DEF PaymentFails
  <2>2. OtherTypes'
    BY <1>1, <2>1, InvTypes DEF OtherTypes, PaymentFails
  <2> QED BY <2>1, <2>2, RegsStay, GoodStay
<1>3. CASE Keepable(c)
  <2> DEFINE D == Database
             back(s) == IF hold[c][s] = "converted" THEN Places(D, c, s) ELSE 0
             confirmed1 == [s \in Subjects |-> confirmed[s] - back(s)]
             held1 == [s \in Subjects |-> held[s] + back(s)]
             row == [s \in Subjects |-> IF hold[c][s] = "none" THEN "none" ELSE "active"]
             hold1 == [hold EXCEPT ![c] = row]
             cart1 == [cart EXCEPT ![c] = "awaiting_payment"]
             deadline1 == [deadline EXCEPT ![c] = "extended"]
             E == [D EXCEPT !.confirmed = confirmed1, !.held = held1, !.hold[c] = row,
                            !.cart[c] = "awaiting_payment", !.deadline[c] = "extended"]
  <2>1. Write(E) /\ reg' = Restate(c, "confirmed", "pending_payment")
        /\ failedOnce' = [failedOnce EXCEPT ![c] = TRUE]
    BY <1>3 DEF PaymentFails
  <2>2. RegsGoOn /\ reg' \in [Lines -> [Offerings -> RegStatus]]
    BY <2>1, Restated DEF Live
  <2>3. OtherTypes'
    BY <1>1, <2>1, <2>2, InvTypes DEF OtherTypes, PaymentFails
  <2>4. D \in Databases /\ Rows(D, reg)
    BY InvTypes
  <2>5. ASSUME NEW s \in Subjects
        PROVE  back(s) \in Nat /\ confirmed[s] - back(s) \in Nat
    <3>1. Places(D, c, s) \in Nat /\ (s \notin CartSubjects(D, c) => Places(D, c, s) = 0)
      BY <2>4, PlacesCounted
    <3>2. s \in CartSubjects(D, c) /\ hold[c][s] = "converted" =>
             confirmed[s] >= Places(D, c, s)
      BY <1>3 DEF Keepable
    <3>3. confirmed[s] \in Nat
      BY RowTypes
    <3> HIDE DEF D
    <3> QED BY <3>1, <3>2, <3>3
  <2>6. confirmed1 \in [Subjects -> Nat] /\ held1 \in [Subjects -> Nat]
    <3> HIDE DEF back
    <3> QED BY <2>5, RowTypes
  <2>7. hold1 \in [Carts -> [Subjects -> HoldStates]]
    <3>1. row \in [Subjects -> HoldStates]
      BY DEF HoldStates
    <3> HIDE DEF row
    <3> QED BY <3>1, RowTypes
  <2>8. cart1 \in [Carts -> CartStatus] /\ deadline1 \in [Carts -> Deadlines]
    BY RowTypes DEF CartStatus, Deadlines
  <2>9. E = [D EXCEPT !.confirmed = confirmed1, !.held = held1, !.cart = cart1,
                      !.hold = hold1, !.deadline = deadline1]
    <3> HIDE DEF row, confirmed1, held1, D
    <3> QED BY RowFields DEF D
  <2>10. E \in Databases /\ E.cart = cart1 /\ E.lines = D.lines /\ E.entry = D.entry
    <3> HIDE DEF confirmed1, held1, hold1, cart1, deadline1, D, E
    <3> QED BY <2>4, <2>6, <2>7, <2>8, <2>9 DEF Databases
  <2>11. \A d \in Carts : /\ D.cart[d] = "none" => E.cart[d] = "none"
                          /\ E.cart[d] \in {"none", "open"} => D.cart[d] \in {"none", "open"}
    <3>1. \A d \in Carts : E.cart[d] = IF d = c THEN "awaiting_payment" ELSE cart[d]
      BY <2>10, RowTypes
    <3>2. cart[c] # "none" /\ D.cart = cart
      BY <1>3, RowFields DEF Keepable
    <3> HIDE DEF D, E
    <3> QED BY <3>1, <3>2
  <2> HIDE DEF D, E
  <2>12. Rows(E, reg) /\ EntriesGoOn(D, E)
    BY <2>4, <2>10, <2>11, CartsGoOn
  <2> QED BY <2>1, <2>2, <2>3, <2>12, GoodWrite DEF D
<1> QED BY <1>2, <1>3

\* The job gives back no more than is held.
LEMMA HoldExpiryJobKeeps ==
    ASSUME LifecycleInv, NEW c \in Carts, HoldExpiryJob(c)
    PROVE  GoodStep
<1> DEFINE B == Database
           D == MarkActive(B, c, "released")
           row == [s \in Subjects |->
                      IF B.hold[c][s] = "active" THEN "released" ELSE B.hold[c][s]]
           held1 == [s \in Subjects |->
                        IF hold[c][s] = "active" THEN held[s] - Places(D, c, s) ELSE held[s]]
           hold1 == [hold EXCEPT ![c] = row]
           cart1 == [cart EXCEPT ![c] = IF @ = "open" THEN "expired" ELSE @]
           E == [D EXCEPT !.held = held1, !.cart[c] = IF @ = "open" THEN "expired" ELSE @]
<1>1. B \in Databases /\ Rows(B, reg)
  BY InvTypes
<1>2. OtherTypes' /\ RegsGoOn
  BY InvTypes, RegsStay DEF HoldExpiryJob, OtherTypes
<1>3. Write(E) /\ \A s \in ActiveHolds(B, c) : held[s] >= Places(B, c, s)
  BY DEF HoldExpiryJob
<1>4. hold1 \in [Carts -> [Subjects -> HoldStates]]
  <2>1. row \in [Subjects -> HoldStates]
    BY RowFields, RowTypes DEF HoldStates
  <2> HIDE DEF row
  <2> QED BY <2>1, RowTypes
<1>5. D = [B EXCEPT !.hold = hold1]
  BY RowFields DEF MarkActive
<1>6. \A s : Places(D, c, s) = Places(B, c, s)
  <2>1. D.lines = B.lines
    <3> HIDE DEF hold1, B
    <3> QED BY <1>1, <1>5 DEF Databases
  <2> QED BY <2>1 DEF Places, In
<1>7. held1 \in [Subjects -> Nat]
  <2> SUFFICES ASSUME NEW s \in Subjects
               PROVE  (IF hold[c][s] = "active" THEN held[s] - Places(D, c, s)
                       ELSE held[s]) \in Nat
    OBVIOUS
  <2>1. Places(D, c, s) \in Nat /\ held[s] \in Nat
    BY <1>1, <1>6, PlacesCounted, RowTypes
  <2>2. hold[c][s] = "active" => held[s] >= Places(D, c, s)
    BY <1>3, <1>6, RowFields DEF ActiveHolds
  <2> HIDE DEF D
  <2> QED BY <2>1, <2>2
<1>8. cart1 \in [Carts -> CartStatus]
  BY RowTypes DEF CartStatus
<1>9. E = [B EXCEPT !.held = held1, !.cart = cart1, !.hold = hold1]
  <2>1. D.cart = cart
    <3> HIDE DEF hold1, B
    <3> QED BY <1>1, <1>5, RowFields DEF Databases, B
  <2> HIDE DEF held1, hold1, B
  <2> QED BY <1>5, <2>1
<1>10. E \in Databases /\ E.cart = cart1 /\ E.lines = B.lines /\ E.entry = B.entry
  <2> HIDE DEF held1, hold1, cart1, B, E
  <2> QED BY <1>1, <1>4, <1>7, <1>8, <1>9 DEF Databases
<1>11. \A d \in Carts : /\ B.cart[d] = "none" => E.cart[d] = "none"
                        /\ E.cart[d] \in {"none", "open"} => B.cart[d] \in {"none", "open"}
  <2>1. \A d \in Carts : E.cart[d] = IF d = c /\ cart[c] = "open" THEN "expired" ELSE cart[d]
    BY <1>10, RowTypes
  <2>2. B.cart = cart
    BY RowFields
  <2> HIDE DEF B, E
  <2> QED BY <2>1, <2>2
<1> HIDE DEF B, E
<1>12. Rows(E, reg) /\ EntriesGoOn(B, E)
  BY <1>1, <1>10, <1>11, CartsGoOn
<1> QED BY <1>2, <1>3, <1>12, GoodWrite DEF B

\* The registrations a quote makes are the first of their participants.
LEMMA QuotedRegs ==
    ASSUME LifecycleInv, NEW c \in Carts, cart[c] = "open",
           \A l \in lines[c] : ~InProgram(l, OfferingOf[l]), NEW st \in Live,
           reg' = [l \in Lines |-> [o \in Offerings |->
                      IF l \in lines[c] /\ o = OfferingOf[l] THEN st ELSE reg[l][o]]]
    PROVE  /\ reg' \in [Lines -> [Offerings -> RegStatus]]
           /\ OneLive(reg')
           /\ \A l \in Lines, o \in Offerings : reg[l][o] \in Closed => reg'[l][o] = reg[l][o]
           /\ \A l \in Lines : CartOf[l] # c => \A o \in Offerings : reg'[l][o] = reg[l][o]
<1> DEFINE New(l, o) == l \in lines[c] /\ o = OfferingOf[l]
<1>1. /\ reg \in [Lines -> [Offerings -> RegStatus]] /\ Rows(Database, reg) /\ OneLive(reg)
      /\ \A l \in lines[c] : l \in Lines /\ CartOf[l] = c /\ OfferingOf[l] \in Offerings
      /\ \A k, l \in lines[c] : SameRegistration(k, l) => k = l
  BY InvTypes, RowFields, RowTypes, Parameters DEF OtherTypes, Rows, OwnLines
<1>2. \A l \in Lines, o \in Offerings : reg'[l][o] = IF New(l, o) THEN st ELSE reg[l][o]
  OBVIOUS
<1>3. \A l \in Lines, o \in Offerings : New(l, o) => reg[l][o] = "none"
  BY <1>1, RowFields DEF Rows, Unquoted
<1>4. reg' \in [Lines -> [Offerings -> RegStatus]]
  BY <1>1 DEF Live, RegStatus
<1>5. ASSUME NEW q \in Lines \X Offerings, NEW s \in Lines \X Offerings,
             New(q[1], q[2]), reg'[s[1]][s[2]] \in Live,
             PersonOf[q[1]] = PersonOf[s[1]], ProgramOf[q[2]] = ProgramOf[s[2]]
      PROVE  q = s
  <2>1. CASE New(s[1], s[2])
    BY <1>1, <1>5, <2>1 DEF SameRegistration
  <2>2. CASE ~New(s[1], s[2])
    <3>1. reg[s[1]][s[2]] \in Live
      BY <1>2, <1>5, <2>2
    <3>2. InProgram(q[1], OfferingOf[q[1]])
      BY <1>5, <3>1 DEF InProgram
    <3> QED BY <1>5, <3>2
  <2> QED BY <2>1, <2>2
<1>6. OneLive(reg')
  <2> SUFFICES ASSUME NEW q \in Lines \X Offerings, NEW s \in Lines \X Offerings,
                      reg'[q[1]][q[2]] \in Live, reg'[s[1]][s[2]] \in Live,
                      PersonOf[q[1]] = PersonOf[s[1]], ProgramOf[q[2]] = ProgramOf[s[2]]
               PROVE  q = s
    BY DEF OneLive
  <2>1. CASE New(q[1], q[2]) \/ New(s[1], s[2])
    <3> HIDE DEF New
    <3> QED BY <1>5, <2>1
  <2>2. CASE ~New(q[1], q[2]) /\ ~New(s[1], s[2])
    <3>1. reg[q[1]][q[2]] \in Live /\ reg[s[1]][s[2]] \in Live
      BY <1>2, <2>2
    <3> QED BY <1>1, <3>1 DEF OneLive
  <2> QED BY <2>1, <2>2
<1>7. \A l \in Lines, o \in Offerings : reg[l][o] \in Closed => reg'[l][o] = reg[l][o]
  <2> HIDE DEF New
  <2> QED BY <1>2, <1>3 DEF Closed
<1>8. \A l \in Lines : CartOf[l] # c => \A o \in Offerings : reg'[l][o] = reg[l][o]
  BY <1>1, <1>2
<1> QED BY <1>4, <1>6, <1>7, <1>8

\* A quote makes the registrations of its lines.
LEMMA QuoteKeeps ==
    ASSUME LifecycleInv, NEW c \in Carts, NEW free \in BOOLEAN, Quote(c, free)
    PROVE  GoodStep
<1> DEFINE B == Database
           approval == \E l \in lines[c] : OfferingOf[l] \in RequiresApproval
           straight == free /\ ~approval
           st == IF straight THEN "confirmed"
                 ELSE IF approval THEN "pending_approval" ELSE "pending_payment"
           A == [B EXCEPT !.cart[c] = "awaiting_payment",
                          !.deadline[c] = IF approval THEN "extended" ELSE @]
           E == IF straight THEN ConfirmPlaces(B, c) ELSE A
           r == [l \in Lines |-> [o \in Offerings |->
                    IF l \in lines[c] /\ o = OfferingOf[l] THEN st ELSE reg[l][o]]]
<1>1. /\ cart[c] = "open" /\ Confirmable(c)
      /\ \A l \in lines[c] : ~InProgram(l, OfferingOf[l])
  BY DEF Quote
<1>2. Write(E) /\ reg' = r
  <2>1. CASE straight
    BY <2>1 DEF Quote
  <2>2. CASE ~straight
    BY <2>2 DEF Quote
  <2> QED BY <2>1, <2>2
<1>3. /\ reg' \in [Lines -> [Offerings -> RegStatus]] /\ OneLive(reg')
      /\ \A l \in Lines, o \in Offerings : reg[l][o] \in Closed => reg'[l][o] = reg[l][o]
      /\ \A l \in Lines : CartOf[l] # c => \A o \in Offerings : reg'[l][o] = reg[l][o]
  <2>1. st \in Live
    BY DEF Live
  <2> HIDE DEF st
  <2> QED BY <1>1, <1>2, <2>1, QuotedRegs
<1>4. OtherTypes'
  <2>1. invoice' \in [Carts -> {"none", "open", "free", "processing", "paid", "void"}]
    BY InvTypes DEF OtherTypes, Quote
  <2> QED BY <1>3, <2>1, InvTypes DEF OtherTypes, Quote
<1>5. /\ Rows(E, reg) /\ EntriesGoOn(B, E) /\ E.cart[c] \in {"completed", "awaiting_payment"}
  <2>1. CASE straight
    <3>1. Rows(B, reg)
      BY InvTypes
    <3>2. LET F == ConfirmPlaces(B, c) IN
          Rows(F, reg) /\ EntriesGoOn(B, F) /\ F.cart[c] = "completed"
      BY <1>1, <3>1, ConfirmKeeps
    <3> QED BY <2>1, <3>2
  <2>2. CASE ~straight
    <3> DEFINE cart1 == [cart EXCEPT ![c] = "awaiting_payment"]
               deadline1 == [deadline EXCEPT ![c] = IF approval THEN "extended" ELSE @]
    <3>1. B \in Databases /\ Rows(B, reg)
      BY InvTypes
    <3>2. cart1 \in [Carts -> CartStatus] /\ deadline1 \in [Carts -> Deadlines]
      BY RowTypes DEF CartStatus, Deadlines
    <3>3. A = [B EXCEPT !.cart = cart1, !.deadline = deadline1]
      BY RowFields
    <3>4. A \in Databases /\ A.cart = cart1 /\ A.lines = B.lines /\ A.entry = B.entry
      <4> HIDE DEF cart1, deadline1, B, A
      <4> QED BY <3>1, <3>2, <3>3 DEF Databases
    <3>5. /\ \A d \in Carts : A.cart[d] = IF d = c THEN "awaiting_payment" ELSE B.cart[d]
          /\ B.cart[c] = "open"
      BY <1>1, <3>4, RowTypes, RowFields
    <3> HIDE DEF A, B
    <3>6. \A d \in Carts : /\ B.cart[d] = "none" => A.cart[d] = "none"
                           /\ A.cart[d] \in {"none", "open"} => B.cart[d] \in {"none", "open"}
      BY <3>5
    <3>7. Rows(A, reg) /\ EntriesGoOn(B, A)
      BY <3>1, <3>4, <3>6, CartsGoOn
    <3> QED BY <2>2, <3>5, <3>7
  <2> QED BY <2>1, <2>2
<1> HIDE DEF E
<1>6. Database' = E
  BY <1>2, <1>5, WrittenRows DEF Rows
<1>7. Unquoted(E, reg')
  BY <1>3, <1>5 DEF Rows, Unquoted
<1> QED BY <1>3, <1>4, <1>5, <1>6, <1>7, StepIsGood DEF Rows

-----------------------------------------------------------------------------
(* The actions of registrations.                                           *)

\* The cart of a live registration was quoted.
LEMMA CartOfLive ==
    ASSUME LifecycleInv, NEW l \in Lines, NEW o \in Offerings, reg[l][o] \in Live
    PROVE  /\ CartOf[l] \in Carts
           /\ \A D : Rows(D, reg) => D.cart[CartOf[l]] \notin {"none", "open"}
BY Parameters DEF Rows, Unquoted, Live

\* A live registration is closed.
LEMMA RegClosed ==
    ASSUME LifecycleInv, NEW l \in Lines, NEW o \in Offerings, reg[l][o] \in Live,
           NEW st \in RegStatus, st # "none",
           reg' = [reg EXCEPT ![l][o] = st]
    PROVE  RegsGoOn /\ reg' \in [Lines -> [Offerings -> RegStatus]]
<1>1. reg \in [Lines -> [Offerings -> RegStatus]]
  BY InvTypes DEF OtherTypes
<1>2. \A k \in Lines, q \in Offerings :
         reg'[k][q] = IF k = l /\ q = o THEN st ELSE reg[k][q]
  BY <1>1
<1>3. reg' \in [Lines -> [Offerings -> RegStatus]]
  BY <1>1
<1> QED BY <1>2, <1>3 DEF RegsGoOn, Live, Closed

\* An invoice that is voided, or not, has a status.
LEMMA VoidedType ==
    ASSUME LifecycleInv, NEW c, NEW l, NEW o
    PROVE  Voided(c, l, o) \in [Carts -> {"none", "open", "free", "processing", "paid", "void"}]
BY InvTypes DEF OtherTypes, Voided

\* The end of the actions that free a place in offering o.
LEMMA AdvancedIsGood ==
    ASSUME LifecycleInv, NEW D, NEW o \in Offerings, Rows(D, reg), D.entry = entry,
           AdvanceAndWrite(D, o), OtherTypes', RegsGoOn
    PROVE  GoodStep
<1>1. DeclinedOf(D, o)
  BY DEF DeclinedOf
<1> QED BY <1>1, AdvanceGoesOn, QuietStepIsGood

\* A canceled registration was live.
LEMMA CancelKeeps ==
    ASSUME LifecycleInv, NEW l \in Lines, NEW o \in Offerings, Cancel(l, o)
    PROVE  GoodStep
<1> DEFINE c == CartOf[l]
           last == Registered(c, Live) = {<<l, o>>}
           B == Database
<1>1. /\ reg[l][o] \in Live /\ reg' = [reg EXCEPT ![l][o] = "canceled"]
      /\ Rows(B, reg) /\ B.entry = entry /\ OtherTypes
  BY InvTypes, RowFields DEF Cancel
<1>2. RegsGoOn /\ reg' \in [Lines -> [Offerings -> RegStatus]]
  BY <1>1, RegClosed DEF RegStatus
<1>3. invoice' \in [Carts -> {"none", "open", "free", "processing", "paid", "void"}]
  BY <1>1, VoidedType DEF Cancel, OtherTypes
<1>4. OtherTypes'
  BY <1>1, <1>2, <1>3 DEF Cancel, OtherTypes
<1>5. CASE reg[l][o] = "confirmed"
  <2>1. CanFree(B, o) /\ AdvanceAndWrite(FreeConfirmed(B, o), o)
    BY <1>5 DEF Cancel
  <2>2. Rows(FreeConfirmed(B, o), reg) /\ FreeConfirmed(B, o).entry = entry
    BY <1>1, <2>1, FreeKeeps
  <2> QED BY <1>2, <1>4, <2>1, <2>2, AdvancedIsGood
<1>6. CASE reg[l][o] # "confirmed"
  <2> DEFINE G == GiveUpHolds(B, c, o)
             D == IF last THEN ExpireUnlessCompleted(G, c) ELSE B
  <2>1. AdvanceAndWrite(D, o)
    BY <1>6 DEF Cancel
  <2>2. c \in Carts /\ Rows(G, reg) /\ G.entry = entry
    BY <1>1, CartOfLive, GiveUpKeeps
  <2>3. G.cart[c] # "none"
    BY <1>1, <2>2, CartOfLive
  <2> HIDE DEF G
  <2>4. Rows(Expire(G, c), reg) /\ Expire(G, c).entry = entry
    BY <2>2, <2>3, ExpireKeeps
  <2>5. Rows(D, reg) /\ D.entry = entry
    BY <1>1, <2>2, <2>4 DEF ExpireUnlessCompleted
  <2> HIDE DEF D
  <2> QED BY <1>2, <1>4, <2>1, <2>5, AdvancedIsGood
<1> QED BY <1>5, <1>6

\* A declined registration was live.
LEMMA DeclineRegistrationKeeps ==
    ASSUME LifecycleInv, NEW l \in Lines, NEW o \in Offerings, DeclineRegistration(l, o)
    PROVE  GoodStep
<1> DEFINE c == CartOf[l]
           G == GiveUpHolds(Database, c, o)
<1>1. /\ reg[l][o] \in Live /\ reg' = [reg EXCEPT ![l][o] = "canceled"]
      /\ Rows(Database, reg) /\ Database.entry = entry /\ OtherTypes
      /\ AdvanceAndWrite(Expire(G, c), o)
  BY InvTypes, RowFields DEF DeclineRegistration, Live
<1>2. RegsGoOn /\ reg' \in [Lines -> [Offerings -> RegStatus]]
  BY <1>1, RegClosed DEF RegStatus
<1>3. invoice' \in [Carts -> {"none", "open", "free", "processing", "paid", "void"}]
  BY VoidedType DEF DeclineRegistration
<1>4. OtherTypes'
  BY <1>1, <1>2, <1>3 DEF DeclineRegistration, OtherTypes
<1>5. c \in Carts /\ Rows(G, reg) /\ G.entry = entry
  BY <1>1, CartOfLive, GiveUpKeeps
<1>6. G.cart[c] # "none"
  BY <1>1, <1>5, CartOfLive
<1> HIDE DEF G
<1>7. Rows(Expire(G, c), reg) /\ Expire(G, c).entry = entry
  BY <1>5, <1>6, ExpireKeeps
<1> QED BY <1>1, <1>2, <1>4, <1>7, AdvancedIsGood

\* An approved registration stays live; the places of a free cart were held.
LEMMA ApproveRegistrationKeeps ==
    ASSUME LifecycleInv, NEW l \in Lines, NEW o \in Offerings, ApproveRegistration(l, o)
    PROVE  GoodStep
<1> DEFINE c == CartOf[l]
           B == Database
<1>1. reg[l][o] = "pending_approval" /\ Rows(B, reg) /\ B \in Databases
  BY InvTypes DEF ApproveRegistration
<1>2. c \in Carts /\ cart[c] \notin {"none", "open"}
  BY <1>1, CartOfLive, RowFields DEF Live
<1>3. CASE invoice[c] = "free"
  <2> DEFINE M == MarkActive(B, c, "converted")
             row == [s \in Subjects |->
                        IF B.hold[c][s] = "active" THEN "converted" ELSE B.hold[c][s]]
             held1 == [s \in Subjects |->
                          IF hold[c][s] = "active" THEN held[s] - Places(B, c, s) ELSE held[s]]
             confirmed1 == [s \in Subjects |->
                          IF hold[c][s] = "active" THEN confirmed[s] + Places(B, c, s)
                          ELSE confirmed[s]]
             hold1 == [hold EXCEPT ![c] = row]
             cart1 == [cart EXCEPT ![c] = "completed"]
             E == [M EXCEPT !.held = held1, !.confirmed = confirmed1, !.cart[c] = "completed"]
  <2>1. /\ Write(E) /\ reg' = [reg EXCEPT ![l][o] = "confirmed"]
        /\ \A s \in ActiveHolds(B, c) : held[s] >= Places(B, c, s)
    BY <1>3 DEF ApproveRegistration
  <2>2. RegsGoOn /\ reg' \in [Lines -> [Offerings -> RegStatus]]
    BY <1>1, <2>1, RegClosed DEF RegStatus, Live
  <2>3. OtherTypes'
    BY <2>2, InvTypes DEF ApproveRegistration, OtherTypes
  <2>4. hold1 \in [Carts -> [Subjects -> HoldStates]]
    <3>1. row \in [Subjects -> HoldStates]
      BY <1>2, RowFields, RowTypes DEF HoldStates
    <3> HIDE DEF row
    <3> QED BY <3>1, RowTypes
  <2>5. ASSUME NEW s \in Subjects
        PROVE  /\ Places(B, c, s) \in Nat
               /\ hold[c][s] = "active" => held[s] - Places(B, c, s) \in Nat
    <3>1. Places(B, c, s) \in Nat /\ held[s] \in Nat
      BY <1>1, <1>2, PlacesCounted, RowTypes
    <3>2. hold[c][s] = "active" => held[s] >= Places(B, c, s)
      BY <2>1, RowFields DEF ActiveHolds
    <3> HIDE DEF B
    <3> QED BY <3>1, <3>2
  <2>6. held1 \in [Subjects -> Nat] /\ confirmed1 \in [Subjects -> Nat]
    <3> HIDE DEF B
    <3> QED BY <2>5, RowTypes
  <2>7. cart1 \in [Carts -> CartStatus]
    BY RowTypes DEF CartStatus
  <2>8. M = [B EXCEPT !.hold = hold1]
    BY RowFields DEF MarkActive
  <2>9. E = [B EXCEPT !.hold = hold1, !.held = held1, !.confirmed = confirmed1, !.cart = cart1]
    <3>1. M.cart = cart
      <4> HIDE DEF hold1, B
      <4> QED BY <1>1, <2>8, RowFields DEF Databases, B
    <3> HIDE DEF held1, confirmed1, hold1, B
    <3> QED BY <2>8, <3>1
  <2>10. E \in Databases /\ E.cart = cart1 /\ E.lines = B.lines /\ E.entry = B.entry
    <3> HIDE DEF held1, confirmed1, hold1, cart1, B, E
    <3> QED BY <1>1, <2>4, <2>6, <2>7, <2>9 DEF Databases
  <2>11. \A d \in Carts : /\ B.cart[d] = "none" => E.cart[d] = "none"
                          /\ E.cart[d] \in {"none", "open"} => B.cart[d] \in {"none", "open"}
    <3>1. \A d \in Carts : E.cart[d] = IF d = c THEN "completed" ELSE cart[d]
      BY <2>10, RowTypes
    <3>2. B.cart = cart
      BY RowFields
    <3> HIDE DEF B, E
    <3> QED BY <1>2, <3>1, <3>2
  <2> HIDE DEF B, E
  <2>12. Rows(E, reg) /\ EntriesGoOn(B, E)
    BY <1>1, <2>10, <2>11, CartsGoOn
  <2> QED BY <2>1, <2>2, <2>3, <2>12, GoodWrite DEF B
<1>4. CASE invoice[c] # "free"
  <2> DEFINE deadline1 == [deadline EXCEPT ![c] = "extended"]
             E == [B EXCEPT !.deadline[c] = "extended"]
  <2>1. Write(E) /\ reg' = [reg EXCEPT ![l][o] = "pending_payment"]
    BY <1>4 DEF ApproveRegistration
  <2>2. RegsGoOn /\ reg' \in [Lines -> [Offerings -> RegStatus]]
    BY <1>1, <2>1, RegClosed DEF RegStatus, Live
  <2>3. OtherTypes'
    BY <2>2, InvTypes DEF ApproveRegistration, OtherTypes
  <2>4. deadline1 \in [Carts -> Deadlines] /\ E = [B EXCEPT !.deadline = deadline1]
    BY RowTypes, RowFields DEF Deadlines
  <2>5. E \in Databases /\ E.cart = B.cart /\ E.lines = B.lines /\ E.entry = B.entry
    <3> HIDE DEF deadline1, B, E
    <3> QED BY <1>1, <2>4 DEF Databases
  <2> HIDE DEF B, E
  <2>6. Rows(E, reg) /\ EntriesGoOn(B, E)
    BY <1>1, <2>5, CartsGoOn
  <2> QED BY <2>1, <2>2, <2>3, <2>6, GoodWrite DEF B
<1> QED BY <1>3, <1>4

\* A transferred registration is closed and followed by one in a program its
\* participant was not in.
LEMMA TransferKeeps ==
    ASSUME LifecycleInv, NEW l \in Lines, NEW o \in Offerings, NEW p \in Offerings,
           Transfer(l, o, p)
    PROVE  GoodStep
<1> DEFINE c == CartOf[l]
           B == Database
           was == reg[l][o]
           becomes == IF was = "pending_approval" /\ p \notin RequiresApproval THEN "confirmed"
                      ELSE was
           D == IF was = "confirmed" THEN FreeConfirmed(B, o) ELSE GiveUpHolds(B, c, o)
           more == [s \in Subjects |-> IF s \in SubjectsOf[p] THEN D.confirmed[s] + 1
                                       ELSE D.confirmed[s]]
           E == IF becomes = "confirmed" THEN [D EXCEPT !.confirmed = more] ELSE D
<1>1. /\ was \in Live /\ o # p /\ ~InProgram(l, p) /\ reg[l][p] = "none"
      /\ was = "confirmed" => CanFree(B, o)
      /\ reg' = [reg EXCEPT ![l] = [@ EXCEPT ![o] = "transferred_out", ![p] = becomes]]
      /\ AdvanceAndWrite(E, o)
  BY DEF Transfer
<1>2. /\ Rows(B, reg) /\ B.entry = entry /\ OtherTypes /\ c \in Carts /\ OneLive(reg)
      /\ reg \in [Lines -> [Offerings -> RegStatus]]
  BY <1>1, InvTypes, RowFields, CartOfLive DEF OtherTypes
<1>3. becomes \in Live
  BY <1>1 DEF Live
<1> HIDE DEF becomes
<1>4. \A k \in Lines, q \in Offerings :
         reg'[k][q] = IF k = l /\ q = o THEN "transferred_out"
                      ELSE IF k = l /\ q = p THEN becomes ELSE reg[k][q]
  BY <1>1, <1>2
<1>5. reg' \in [Lines -> [Offerings -> RegStatus]]
  BY <1>1, <1>2, <1>3 DEF Live, RegStatus
<1>6. OtherTypes'
  BY <1>2, <1>5 DEF Transfer, OtherTypes
<1>7. Rows(D, reg) /\ D.entry = entry
  <2>1. was = "confirmed" => Rows(FreeConfirmed(B, o), reg) /\ FreeConfirmed(B, o).entry = entry
    BY <1>1, <1>2, FreeKeeps
  <2>2. Rows(GiveUpHolds(B, c, o), reg) /\ GiveUpHolds(B, c, o).entry = entry
    BY <1>2, GiveUpKeeps
  <2> QED BY <2>1, <2>2
<1>8. Rows(E, reg) /\ E.entry = entry
  <2> HIDE DEF D
  <2>1. more \in [Subjects -> Nat]
    BY <1>7 DEF Rows, Databases
  <2> DEFINE F == [D EXCEPT !.confirmed = more]
  <2>2. F \in Databases /\ F.cart = D.cart /\ F.lines = D.lines /\ F.entry = D.entry
    <3> HIDE DEF more
    <3> QED BY <1>7, <2>1 DEF Rows, Databases
  <2> HIDE DEF F
  <2>3. Rows(F, reg)
    BY <1>7, <2>2, SameRows
  <2> QED BY <1>7, <2>2, <2>3 DEF F
<1> HIDE DEF E
<1>9. Rows(Database', reg) /\ EntriesGoOn(Database, Database')
  <2>1. DeclinedOf(E, o)
    BY <1>8 DEF DeclinedOf
  <2> QED BY <1>1, <1>8, <2>1, AdvanceGoesOn
<1>10. Rows(Database', reg')
  <2>1. Unquoted(Database', reg')
    <3> SUFFICES ASSUME NEW k \in Lines, (Database').cart[CartOf[k]] \in {"none", "open"},
                        NEW q \in Offerings
                 PROVE  reg'[k][q] = "none"
      BY DEF Unquoted
    <3>1. reg[k][o] = "none" /\ reg[k][q] = "none"
      BY <1>9 DEF Rows, Unquoted
    <3>2. k # l
      BY <1>1, <3>1 DEF Live
    <3> QED BY <1>4, <3>1, <3>2
  <2> QED BY <1>9, <2>1 DEF Rows
<1>11. OneLive(reg')
  <2>1. ASSUME NEW k \in Lines, NEW q \in Offerings, reg'[k][q] \in Live,
               PersonOf[k] = PersonOf[l], ProgramOf[q] = ProgramOf[p]
        PROVE  k = l /\ q = p
    <3> SUFFICES ASSUME ~(k = l /\ q = p) PROVE FALSE
      OBVIOUS
    <3>1. reg[k][q] \in Live
      BY <1>4, <2>1 DEF Live
    <3> QED BY <1>1, <2>1, <3>1 DEF InProgram
  <2> SUFFICES ASSUME NEW q \in Lines \X Offerings, NEW s \in Lines \X Offerings,
                      reg'[q[1]][q[2]] \in Live, reg'[s[1]][s[2]] \in Live,
                      PersonOf[q[1]] = PersonOf[s[1]], ProgramOf[q[2]] = ProgramOf[s[2]]
               PROVE  q = s
    BY DEF OneLive
  <2>2. CASE (q[1] = l /\ q[2] = p) \/ (s[1] = l /\ s[2] = p)
    BY <2>1, <2>2
  <2>3. CASE ~(q[1] = l /\ q[2] = p) /\ ~(s[1] = l /\ s[2] = p)
    <3>1. reg[q[1]][q[2]] \in Live /\ reg[s[1]][s[2]] \in Live
      BY <1>4, <2>3 DEF Live
    <3> QED BY <1>2, <3>1 DEF OneLive
  <2> QED BY <2>2, <2>3
<1>12. \A k \in Lines, q \in Offerings : reg[k][q] \in Closed => reg'[k][q] = reg[k][q]
  BY <1>1, <1>4 DEF Live, Closed
<1> QED BY <1>6, <1>9, <1>10, <1>11, <1>12, StepIsGood

-----------------------------------------------------------------------------
(* The theorems.                                                           *)

\* Nothing is there at the start.
LEMMA LifecycleStarts == LifecycleInit => LifecycleInv
<1> SUFFICES ASSUME LifecycleInit PROVE LifecycleInv
  OBVIOUS
<1>1. LifecycleTypeOK
  BY DEF LifecycleInit, LifecycleTypeOK, CartStatus, EntryStatus, RegStatus
<1>2. Database \in Databases
  BY <1>1, TypesSplit
<1>3. /\ \A c \in Carts : cart[c] = "none" /\ lines[c] = {}
      /\ \A w \in WaitLines : entry[w] = "none"
      /\ \A l \in Lines : \A o \in Offerings : reg[l][o] = "none"
  BY DEF LifecycleInit
<1>4. OwnLines(Database) /\ NoCartYet(Database) /\ OneOffer(Database)
  BY <1>3, RowFields, Parameters DEF OwnLines, NoCartYet, OneOffer
<1>5. Unquoted(Database, reg) /\ OneLive(reg)
  BY <1>3 DEF Unquoted, OneLive, Live
<1> QED BY <1>1, <1>2, <1>4, <1>5 DEF LifecycleInv, Rows

\* Every step, and none at all, is good.
LEMMA LifecycleSteps == LifecycleInv /\ [LifecycleNext]_lifecycleVars => GoodStep
<1> SUFFICES ASSUME LifecycleInv, [LifecycleNext]_lifecycleVars PROVE GoodStep
  OBVIOUS
<1>1. CASE WaitlistStep
  BY <1>1, JoinKeeps, StaffOfferKeeps, AcceptKeeps, CloseEntryKeeps, OfferRunsOutKeeps,
     RemindersJobKeeps DEF WaitlistStep
<1>2. CASE PurchaseStep
  BY <1>2, StartCartKeeps, QuoteKeeps, StartPaymentKeeps, PaymentConfirmsKeeps,
     PaymentFailsKeeps, HoldExpiryJobKeeps, DeadlinePassesKeeps DEF PurchaseStep
<1>3. CASE StaffStep
  BY <1>3, CancelKeeps, DeclineRegistrationKeeps, ApproveRegistrationKeeps, TransferKeeps
     DEF StaffStep
<1>4. CASE UNCHANGED lifecycleVars
  <2>1. OtherTypes'
    BY <1>4, InvTypes DEF lifecycleVars, waitlist, OtherTypes
  <2> QED BY <1>4, <2>1, RegsStay, GoodStay DEF lifecycleVars, waitlist
<1> QED BY <1>1, <1>2, <1>3, <1>4 DEF LifecycleNext

\* The invariant holds in every state: carts have their own lines, what is not
\* quoted has no registration, an entry without an offer has no cart.
THEOREM LifecycleInductive == LifecycleSpec => []LifecycleInv
<1>1. LifecycleInv /\ [LifecycleNext]_lifecycleVars => LifecycleInv'
  BY LifecycleSteps DEF GoodStep
<1> QED BY LifecycleStarts, <1>1, PTL DEF LifecycleSpec

\* Counters, entries and registrations keep their types; in particular no
\* counter goes below zero (LifecycleTypeOK).
THEOREM LifecycleTypeCorrect == LifecycleSpec => []LifecycleTypeOK
<1>1. LifecycleInv => LifecycleTypeOK
  BY DEF LifecycleInv
<1> QED BY LifecycleInductive, <1>1, PTL

\* A person has one live registration and one offer in a program, through
\* quotes, transfers, offers and the job, for any number of lines
\* (OneRegistrationEach).
THEOREM OneRegistrationHolds == LifecycleSpec => []OneRegistrationEach
<1>1. LifecycleInv => OneRegistrationEach
  <2> SUFFICES ASSUME LifecycleInv PROVE OneRegistrationEach
    OBVIOUS
  <2>1. OneLive(reg) /\ OneOffer(Database) /\ Database.entry = entry
    BY RowFields DEF LifecycleInv, Rows
  <2> QED BY <2>1 DEF OneLive, OneOffer, OneRegistrationEach
<1> QED BY LifecycleInductive, <1>1, PTL

\* No late payment, decision or job revives what is over (ClosedStays).
THEOREM ClosedStaysClosed == LifecycleSpec => ClosedStays
<1>1. LifecycleInv /\ [LifecycleNext]_lifecycleVars => [ClosedStep]_lifecycleVars
  BY LifecycleSteps DEF GoodStep
<1> QED BY LifecycleInductive, <1>1, PTL DEF LifecycleSpec, ClosedStays

\* The waitlist is served in turn, unless staff choose (OffersInTurn): in each
\* offering, for however many the job advances in one transaction.
THEOREM OffersStayInTurn == LifecycleSpec => OffersInTurn
<1>1. LifecycleInv /\ [LifecycleNext]_lifecycleVars => [TurnStep]_lifecycleVars
  BY LifecycleSteps DEF GoodStep
<1> QED BY LifecycleInductive, <1>1, PTL DEF LifecycleSpec, OffersInTurn

-----------------------------------------------------------------------------
(* Counters and places.                                                    *)

Pending == {"pending_approval", "pending_payment"}

\* None of the mishaps that break the counters is given.
Clean == given.mishaps \cap {"job", "siblings", "abandoned", "late_failure", "moved"} = {}

\* What the state of the holds of a cart's line says of its cart, and of its
\* registrations regs, o being its own offering.
HoldStands(status, h, regs, o) ==
    /\ status # "none"
    /\ h = "active" =>
          \/ status = "open"
          \/ /\ status = "awaiting_payment" /\ regs[o] \in Pending
             /\ \A p \in Offerings \ {o} : regs[p] = "none"
    /\ h = "converted" =>
          /\ status = "completed" /\ regs[o] \in Closed \cup {"confirmed"}
          /\ \A p \in Offerings : regs[p] \notin Pending
          /\ regs[o] = "confirmed" => \A p \in Offerings \ {o} : regs[p] = "none"
    /\ h = "released" =>
          /\ status \in {"awaiting_payment", "expired"} /\ regs[o] \in Closed \cup {"none"}
          /\ regs[o] = "none" => \A p \in Offerings : regs[p] = "none"

\* Cart c has line l, and a hold in state h in each subject of its offering.
Holding(D, r, c, l, h) ==
    /\ D.lines[c] = {l}
    /\ \A s \in Subjects :
          D.hold[c][s] = IF s \in SubjectsOf[OfferingOf[l]] THEN h ELSE "none"
    /\ HoldStands(D.cart[c], h, r[l], OfferingOf[l])

NotThere(D, c) ==
    /\ D.cart[c] = "none" /\ D.lines[c] = {} /\ D.deadline[c] = "ahead"
    /\ \A s \in Subjects : D.hold[c][s] = "none"

\* Entry w, when u says which offers have run out.
OfferStands(D, r, u, w) ==
    LET c == CartOf[w] IN
    /\ D.entry[w] \in {"none", "waiting"} => ~u[w]
    /\ D.entry[w] = "offered" =>
          /\ D.cart[c] \in {"open", "awaiting_payment", "completed"}
          /\ D.cart[c] # "open" => r[w][OfferingOf[w]] \in Live
          /\ u[w] => \/ D.cart[c] = "completed"
                     \/ D.cart[c] = "open" /\ D.deadline[c] \in {"passed", "overdue"}

CartGood(D, r, u, c) ==
    /\ NotThere(D, c) \/ \E l \in Lines, h \in HoldStates : h # "none" /\ Holding(D, r, c, l, h)
    /\ D.cart[c] = "open" => D.deadline[c] # "extended"
    /\ \A l \in Lines : CartOf[l] = c /\ l \notin D.lines[c] =>
          \A o \in Offerings : r[l][o] = "none"
    /\ \A w \in WaitLines : CartOf[w] = c => OfferStands(D, r, u, w)

HeldIn(D, s) ==
    {l \in Lines : /\ l \in D.lines[CartOf[l]] /\ s \in SubjectsOf[OfferingOf[l]]
                   /\ D.hold[CartOf[l]][s] = "active"}
SeatedIn(r, s) ==
    {x \in Lines \X Offerings : r[x[1]][x[2]] = "confirmed" /\ s \in SubjectsOf[x[2]]}

HeldRight(D) == \A s \in Subjects : D.held[s] = Cardinality(HeldIn(D, s))
ConfirmedRight(D, r) == \A s \in Subjects : D.confirmed[s] = Cardinality(SeatedIn(r, s))

SeatRows(D, r, u) ==
    (\A c \in Carts : CartGood(D, r, u, c)) /\ HeldRight(D) /\ ConfirmedRight(D, r)

\* Invoices come with the quote; a payment under way waits for no approval.
InvoicesStand ==
    \A c \in Carts :
        /\ cart[c] \in {"none", "open"} => invoice[c] = "none"
        /\ invoice[c] = "processing" =>
              \A l \in Lines, o \in Offerings : CartOf[l] = c => reg[l][o] # "pending_approval"

SeatsRight == SeatRows(Database, reg, over) /\ InvoicesStand
SeatInv == LifecycleInv /\ (Clean => SeatsRight)

-----------------------------------------------------------------------------
(* Counting.                                                               *)

One(b) == IF b THEN 1 ELSE 0

\* Sets that differ in one element at most.
LEMMA OneApart ==
    ASSUME NEW S, NEW T, IsFiniteSet(S), IsFiniteSet(T), NEW x, S \ {x} = T \ {x}
    PROVE  /\ Cardinality(S) \in Nat /\ Cardinality(T) \in Nat
           /\ Cardinality(T) + One(x \in S) = Cardinality(S) + One(x \in T)
           /\ x \in S => Cardinality(S) >= 1
<1>1. Cardinality(S) \in Nat /\ Cardinality(T) \in Nat
  BY FS_CardinalityType
<1>2. /\ Cardinality(S \ {x}) = IF x \in S THEN Cardinality(S) - 1 ELSE Cardinality(S)
      /\ Cardinality(T \ {x}) = IF x \in T THEN Cardinality(T) - 1 ELSE Cardinality(T)
  BY FS_RemoveElement
<1>3. x \in S => Cardinality(S) >= 1
  <2>1. Cardinality(S) = 0 => S = {}
    BY FS_EmptySet
  <2> QED BY <1>1, <2>1
<1> DEFINE m == Cardinality(S)
           n == Cardinality(T)
<1>4. IF x \in S THEN IF x \in T THEN m - 1 = n - 1 ELSE m - 1 = n
      ELSE IF x \in T THEN m = n - 1 ELSE m = n
  BY <1>2
<1>5. m \in Nat /\ n \in Nat /\ (x \in S => m >= 1)
  BY <1>1, <1>3
<1>6. One(x \in S) = (IF x \in S THEN 1 ELSE 0) /\ One(x \in T) = (IF x \in T THEN 1 ELSE 0)
  BY DEF One
<1> HIDE DEF m, n
<1>7. n + One(x \in S) = m + One(x \in T)
  BY <1>4, <1>5, <1>6
<1> QED BY <1>5, <1>7 DEF m, n

\* What the assumption on the constants says of the subjects of a line.
LEMMA SubjectsOfLine ==
    /\ \A o \in Offerings : SubjectsOf[o] \subseteq Subjects /\ o \in SubjectsOf[o]
    /\ \A l \in Lines : /\ SubjectsOf[OfferingOf[l]] \subseteq Subjects
                        /\ OfferingOf[l] \in SubjectsOf[OfferingOf[l]]
BY LifecycleAssumption

\* The places held, and those confirmed, can be counted.
LEMMA PlacesFinite ==
    /\ \A D, s : IsFiniteSet(HeldIn(D, s))
    /\ \A r, s : IsFiniteSet(SeatedIn(r, s))
<1>1. IsFiniteSet(Lines) /\ IsFiniteSet(Lines \X Offerings)
  BY Parameters, FS_Product
<1>2. ASSUME NEW D, NEW s PROVE IsFiniteSet(HeldIn(D, s))
  <2>1. HeldIn(D, s) \subseteq Lines
    BY DEF HeldIn
  <2> QED BY <1>1, <2>1, FS_Subset
<1>3. ASSUME NEW r, NEW s PROVE IsFiniteSet(SeatedIn(r, s))
  <2>1. SeatedIn(r, s) \subseteq Lines \X Offerings
    BY DEF SeatedIn
  <2> QED BY <1>1, <2>1, FS_Subset
<1> QED BY <1>2, <1>3

\* The line of a cart.
LEMMA LineOfCart ==
    ASSUME NEW D, OwnLines(D), NEW c \in Carts, NEW l \in Lines, D.lines[c] = {l}
    PROVE  /\ CartOf[l] = c
           /\ \A w \in WaitLines : CartOf[w] = c => l = w
BY Parameters DEF OwnLines

\* The places of a cart's line.
LEMMA PlacesOfLine ==
    ASSUME NEW D, NEW c \in Carts, NEW l \in Lines, D.lines[c] = {l}
    PROVE  /\ CartSubjects(D, c) = SubjectsOf[OfferingOf[l]]
           /\ \A s : Places(D, c, s) = IF s \in SubjectsOf[OfferingOf[l]] THEN 1 ELSE 0
<1>1. \A s : In(D, c, s) = IF s \in SubjectsOf[OfferingOf[l]] THEN {l} ELSE {}
  BY DEF In
<1>2. \A s : Places(D, c, s) = IF s \in SubjectsOf[OfferingOf[l]] THEN 1 ELSE 0
  BY <1>1, FS_Singleton, FS_EmptySet DEF Places
<1>3. CartSubjects(D, c) = SubjectsOf[OfferingOf[l]]
  BY <1>1, SubjectsOfLine DEF CartSubjects
<1> QED BY <1>2, <1>3

\* When one cart changes, the places held change by its line's.
LEMMA HeldMoves ==
    ASSUME NEW D, NEW E, OwnLines(D), OwnLines(E), NEW c \in Carts, NEW l \in Lines,
           CartOf[l] = c, D.lines[c] \subseteq {l}, E.lines[c] \subseteq {l},
           \A d \in Carts \ {c} : E.lines[d] = D.lines[d] /\ E.hold[d] = D.hold[d],
           NEW s
    PROVE  /\ Cardinality(HeldIn(D, s)) \in Nat /\ Cardinality(HeldIn(E, s)) \in Nat
           /\ Cardinality(HeldIn(E, s)) + One(l \in HeldIn(D, s))
                = Cardinality(HeldIn(D, s)) + One(l \in HeldIn(E, s))
           /\ l \in HeldIn(D, s) => Cardinality(HeldIn(D, s)) >= 1
<1>1. \A k \in Lines : CartOf[k] \in Carts
  BY Parameters
<1>2. \A k \in Lines : k # l => (k \in HeldIn(D, s) <=> k \in HeldIn(E, s))
  <2> SUFFICES ASSUME NEW k \in Lines, k # l
               PROVE  k \in HeldIn(D, s) <=> k \in HeldIn(E, s)
    OBVIOUS
  <2>1. CASE CartOf[k] = c
    BY <2>1 DEF HeldIn
  <2>2. CASE CartOf[k] # c
    BY <1>1, <2>2 DEF HeldIn
  <2> QED BY <2>1, <2>2
<1>3. HeldIn(D, s) \ {l} = HeldIn(E, s) \ {l}
  <2>1. HeldIn(D, s) \subseteq Lines /\ HeldIn(E, s) \subseteq Lines
    BY DEF HeldIn
  <2> QED BY <1>2, <2>1
<1> QED BY <1>3, PlacesFinite, OneApart

\* At most the registration of line l in offering o changes.
OneRegChanges(r, q, l, o) ==
    \A k \in Lines, p \in Offerings : (k = l /\ p = o) \/ q[k][p] = r[k][p]

Sits(r, l, o, s) == IF r[l][o] = "confirmed" /\ s \in SubjectsOf[o] THEN 1 ELSE 0

\* When one registration changes, so do the places confirmed.
LEMMA SeatedMoves ==
    ASSUME NEW r, NEW q, NEW l \in Lines, NEW o \in Offerings, NEW s,
           OneRegChanges(r, q, l, o)
    PROVE  /\ Cardinality(SeatedIn(r, s)) \in Nat /\ Cardinality(SeatedIn(q, s)) \in Nat
           /\ Cardinality(SeatedIn(q, s)) + Sits(r, l, o, s)
                = Cardinality(SeatedIn(r, s)) + Sits(q, l, o, s)
<1> DEFINE x == <<l, o>>
<1>1. SeatedIn(r, s) \ {x} = SeatedIn(q, s) \ {x}
  BY DEF SeatedIn, OneRegChanges
<1>2. /\ x \in SeatedIn(r, s) <=> r[l][o] = "confirmed" /\ s \in SubjectsOf[o]
      /\ x \in SeatedIn(q, s) <=> q[l][o] = "confirmed" /\ s \in SubjectsOf[o]
  BY DEF SeatedIn
<1> HIDE DEF x
<1>3. /\ Cardinality(SeatedIn(r, s)) \in Nat /\ Cardinality(SeatedIn(q, s)) \in Nat
      /\ Cardinality(SeatedIn(q, s)) + One(x \in SeatedIn(r, s))
           = Cardinality(SeatedIn(r, s)) + One(x \in SeatedIn(q, s))
  BY <1>1, PlacesFinite, OneApart
<1> QED BY <1>2, <1>3 DEF One, Sits

-----------------------------------------------------------------------------
(* One cart at a time.                                                     *)

\* Cart d, its registrations and its offer are the same.
SameCart(D, r, u, E, q, v, d) ==
    /\ E.cart[d] = D.cart[d] /\ E.lines[d] = D.lines[d] /\ E.hold[d] = D.hold[d]
    /\ E.deadline[d] = D.deadline[d]
    /\ \A l \in Lines : CartOf[l] = d => q[l] = r[l]
    /\ \A w \in WaitLines : CartOf[w] = d => E.entry[w] = D.entry[w] /\ v[w] = u[w]

\* A cart whose rows and registrations are the same, when its offer stands.
LEMMA SameRowsGood ==
    ASSUME NEW D, OwnLines(D), NEW r, NEW u, NEW E, NEW q, NEW v, NEW d \in Carts,
           CartGood(D, r, u, d),
           E.cart[d] = D.cart[d], E.lines[d] = D.lines[d], E.hold[d] = D.hold[d],
           E.deadline[d] = D.deadline[d],
           \A l \in Lines : CartOf[l] = d => q[l] = r[l],
           \A w \in WaitLines : CartOf[w] = d => OfferStands(E, q, v, w)
    PROVE  CartGood(E, q, v, d)
<1>1. CASE NotThere(D, d)
  BY <1>1 DEF CartGood, NotThere
<1>2. CASE \E l \in Lines, h \in HoldStates : h # "none" /\ Holding(D, r, d, l, h)
  <2>1. PICK l \in Lines, h \in HoldStates : h # "none" /\ Holding(D, r, d, l, h)
    BY <1>2
  <2>2. CartOf[l] = d /\ q[l] = r[l]
    BY <2>1, LineOfCart DEF Holding
  <2>3. Holding(E, q, d, l, h)
    BY <2>1, <2>2 DEF Holding
  <2> QED BY <2>1, <2>3 DEF CartGood
<1> QED BY <1>1, <1>2 DEF CartGood

\* A cart that is the same, with its registrations and its offer, is as good.
LEMMA SameCartGood ==
    ASSUME NEW D, OwnLines(D), NEW r, NEW u, NEW E, NEW q, NEW v, NEW d \in Carts,
           CartGood(D, r, u, d), SameCart(D, r, u, E, q, v, d)
    PROVE  CartGood(E, q, v, d)
<1>1. \A w \in WaitLines : CartOf[w] = d => OfferStands(E, q, v, w)
  BY Parameters DEF CartGood, SameCart, OfferStands
<1> QED BY <1>1, SameRowsGood DEF SameCart

\* A step that changes one cart.
LEMMA OneCartChanges ==
    ASSUME NEW D, OwnLines(D), NEW r, NEW u, NEW E, NEW q, NEW v, NEW c,
           \A d \in Carts : CartGood(D, r, u, d),
           \A d \in Carts \ {c} : SameCart(D, r, u, E, q, v, d),
           c \in Carts => CartGood(E, q, v, c)
    PROVE  \A d \in Carts : CartGood(E, q, v, d)
BY SameCartGood

-----------------------------------------------------------------------------
(* Places given back, and the waitlist.                                    *)

\* What GiveUpHolds changes.
LEMMA GivenUpFields ==
    ASSUME NEW D \in Databases, NEW c \in Carts, NEW o
    PROVE  LET E == GiveUpHolds(D, c, o) IN
           /\ E.confirmed = D.confirmed /\ E.lines = D.lines /\ E.deadline = D.deadline
           /\ E.cart = D.cart /\ E.entry = D.entry
           /\ \A d \in Carts \ {c} : E.hold[d] = D.hold[d]
           /\ \A s \in Subjects :
                 /\ E.hold[c][s] = IF D.hold[c][s] = "active" THEN "released" ELSE D.hold[c][s]
                 /\ E.held[s] = IF s \in SubjectsOf[o] THEN Less(D.held[s], 1) ELSE D.held[s]
<1> DEFINE row == [s \in Subjects |->
                      IF D.hold[c][s] = "active" THEN "released" ELSE D.hold[c][s]]
           hold1 == [D.hold EXCEPT ![c] = row]
           held1 == [s \in Subjects |->
                        IF s \in SubjectsOf[o] THEN Less(D.held[s], 1) ELSE D.held[s]]
           E == GiveUpHolds(D, c, o)
<1>1. E = [D EXCEPT !.hold = hold1, !.held = held1]
  <2>1. MarkActive(D, c, "released") = [D EXCEPT !.hold = hold1]
    BY DEF MarkActive
  <2>2. [D EXCEPT !.hold = hold1].held = D.held
    <3> HIDE DEF hold1
    <3> QED BY DEF Databases
  <2> HIDE DEF hold1
  <2> QED BY <2>1, <2>2 DEF GiveUpHolds, OneHeldLess
<1>2. /\ E.confirmed = D.confirmed /\ E.lines = D.lines /\ E.deadline = D.deadline
      /\ E.cart = D.cart /\ E.entry = D.entry /\ E.hold = hold1 /\ E.held = held1
  <2> HIDE DEF hold1, held1, E
  <2> QED BY <1>1 DEF Databases
<1>3. D.hold \in [Carts -> [Subjects -> HoldStates]]
  BY DEF Databases
<1> HIDE DEF E
<1> QED BY <1>2, <1>3 DEF E

\* What a step does that gives the place of line l of cart c back: regs r become
\* q, the rows B become E.
GivesBack(B, E, r, q, c, l) ==
    /\ E.lines = B.lines /\ E.deadline = B.deadline
    /\ \A d \in Carts \ {c} : E.cart[d] = B.cart[d] /\ E.hold[d] = B.hold[d]
    /\ E.cart[c] \in {"awaiting_payment", "expired"}
    /\ \A s \in Subjects :
          /\ E.hold[c][s] = IF B.hold[c][s] = "active" THEN "released" ELSE B.hold[c][s]
          /\ E.held[s] = IF s \in SubjectsOf[OfferingOf[l]] THEN Less(B.held[s], 1)
                         ELSE B.held[s]
    /\ \A w \in WaitLines :
          IF CartOf[w] = c THEN E.entry[w] \in {"accepted", "expired", "declined"}
          ELSE E.entry[w] = B.entry[w]
    /\ \A k \in Lines : k # l => q[k] = r[k]
    /\ q[l][OfferingOf[l]] \in Closed \/ \A p \in Offerings : q[l][p] = "none"

\* The place of a cart's line is given back.
LEMMA PlaceGivenBack ==
    ASSUME NEW B \in Databases, NEW E \in Databases, OwnLines(B), NEW r, NEW q, NEW u,
           \A d \in Carts : CartGood(B, r, u, d), HeldRight(B),
           NEW c \in Carts, NEW l \in Lines, Holding(B, r, c, l, "active"),
           GivesBack(B, E, r, q, c, l)
    PROVE  (\A d \in Carts : CartGood(E, q, u, d)) /\ HeldRight(E)
<1> DEFINE o == OfferingOf[l]
<1> USE DEF GivesBack
<1>1. /\ CartOf[l] = c /\ B.lines[c] = {l} /\ OwnLines(E)
      /\ \A s \in Subjects : l \in HeldIn(B, s) <=> s \in SubjectsOf[o]
      /\ \A s \in Subjects : B.hold[c][s] = IF s \in SubjectsOf[o] THEN "active" ELSE "none"
  <2>1. CartOf[l] = c /\ \A s \in Subjects : l \in HeldIn(B, s) <=> s \in SubjectsOf[o]
    BY LineOfCart DEF HeldIn, Holding
  <2>2. OwnLines(E)
    BY DEF OwnLines
  <2> QED BY <2>1, <2>2 DEF Holding
<1>2. Holding(E, q, c, l, "released")
  BY <1>1, Parameters DEF Holding, HoldStands, Closed
<1>3. CartGood(E, q, u, c)
  <2>1. \A k \in Lines : CartOf[k] = c /\ k \notin E.lines[c] =>
           \A p \in Offerings : q[k][p] = "none"
    BY <1>1 DEF CartGood
  <2>2. \A w \in WaitLines : CartOf[w] = c => OfferStands(E, q, u, w)
    BY DEF OfferStands
  <2> QED BY <1>2, <2>1, <2>2 DEF CartGood, HoldStates
<1>4. \A d \in Carts \ {c} : SameCart(B, r, u, E, q, u, d)
  BY <1>1 DEF SameCart
<1>5. \A d \in Carts : CartGood(E, q, u, d)
  BY <1>3, <1>4, OneCartChanges
<1>6. ASSUME NEW s \in Subjects
      PROVE  E.held[s] = Cardinality(HeldIn(E, s))
  <2>1. /\ Cardinality(HeldIn(B, s)) \in Nat /\ Cardinality(HeldIn(E, s)) \in Nat
        /\ Cardinality(HeldIn(E, s)) + One(l \in HeldIn(B, s))
             = Cardinality(HeldIn(B, s)) + One(l \in HeldIn(E, s))
        /\ l \in HeldIn(B, s) => Cardinality(HeldIn(B, s)) >= 1
    BY <1>1, HeldMoves
  <2>2. l \notin HeldIn(E, s)
    BY <1>1 DEF HeldIn
  <2>3. B.held[s] = Cardinality(HeldIn(B, s))
    BY DEF HeldRight
  <2> QED BY <1>1, <2>1, <2>2, <2>3 DEF One, Less
<1> QED BY <1>5, <1>6 DEF HeldRight

\* What AfterStale changes.
LEMMA StaleFields ==
    ASSUME NEW D \in Databases, NEW o
    PROVE  LET E == AfterStale(D, o)
               goneCarts == {CartOf[w] : w \in Stale(D, o)}
           IN
           /\ E.confirmed = D.confirmed /\ E.lines = D.lines /\ E.deadline = D.deadline
           /\ \A d \in Carts : E.cart[d] = IF d \in goneCarts THEN "expired" ELSE D.cart[d]
           /\ \A d \in Carts \ goneCarts : E.hold[d] = D.hold[d]
           /\ \A d \in goneCarts, s \in Subjects :
                 E.hold[d][s] = IF D.hold[d][s] = "active" THEN "released" ELSE D.hold[d][s]
           /\ \A w \in WaitLines :
                 E.entry[w] = IF w \in Stale(D, o) THEN "expired" ELSE D.entry[w]
           /\ \A s \in Subjects :
                 E.held[s] = Less(D.held[s], Cardinality({w \in Stale(D, o) :
                                                D.hold[CartOf[w]][s] = "active"}))
<1> DEFINE gone == Stale(D, o)
           goneCarts == {CartOf[w] : w \in gone}
           Back(s) == Cardinality({w \in gone : D.hold[CartOf[w]][s] = "active"})
           held1 == [s \in Subjects |-> Less(D.held[s], Back(s))]
           hold1 == [c \in Carts |->
                        IF c \in goneCarts THEN MarkActive(D, c, "released").hold[c]
                                     ELSE D.hold[c]]
           cart1 == [c \in Carts |-> IF c \in goneCarts THEN "expired" ELSE D.cart[c]]
           entry1 == [w \in WaitLines |-> IF w \in gone THEN "expired" ELSE D.entry[w]]
           E == AfterStale(D, o)
<1>1. E = [D EXCEPT !.held = held1, !.hold = hold1, !.cart = cart1, !.entry = entry1]
  BY DEF AfterStale
<1>2. /\ E.confirmed = D.confirmed /\ E.lines = D.lines /\ E.deadline = D.deadline
      /\ E.held = held1 /\ E.hold = hold1 /\ E.cart = cart1 /\ E.entry = entry1
  <2> HIDE DEF held1, hold1, cart1, entry1, E
  <2> QED BY <1>1 DEF Databases
<1>3. ASSUME NEW c \in Carts, NEW s \in Subjects
      PROVE  MarkActive(D, c, "released").hold[c][s]
               = IF D.hold[c][s] = "active" THEN "released" ELSE D.hold[c][s]
  BY DEF MarkActive, Databases
<1>4. goneCarts \subseteq Carts
  BY Parameters DEF Stale
<1> HIDE DEF E, gone
<1>5. /\ \A d \in Carts : E.cart[d] = IF d \in goneCarts THEN "expired" ELSE D.cart[d]
      /\ \A w \in WaitLines : E.entry[w] = IF w \in gone THEN "expired" ELSE D.entry[w]
  BY <1>2
<1>6. \A s \in Subjects : E.held[s] = Less(D.held[s], Back(s))
  BY <1>2
<1>7. /\ \A d \in Carts \ goneCarts : E.hold[d] = D.hold[d]
      /\ \A d \in goneCarts, s \in Subjects :
            E.hold[d][s] = IF D.hold[d][s] = "active" THEN "released" ELSE D.hold[d][s]
  BY <1>2, <1>3, <1>4
<1> QED BY <1>2, <1>5, <1>6, <1>7 DEF E, gone

\* Stale offers were in open carts, or they are paid.
LEMMA StaleIsOpen ==
    ASSUME NEW D, NEW r, Rows(D, r), \A d \in Carts : CartGood(D, r, over, d),
           NEW o, ~StaleIsPaid(D, o), NEW w \in Stale(D, o)
    PROVE  /\ w \in WaitLines /\ w \in Lines /\ CartOf[w] \in Carts
           /\ D.entry[w] = "offered" /\ D.cart[CartOf[w]] = "open"
           /\ Holding(D, r, CartOf[w], w, "active")
           /\ \A p \in Offerings : r[w][p] = "none"
<1> DEFINE c == CartOf[w]
<1>1. /\ w \in WaitLines /\ w \in Lines /\ c \in Carts /\ D.entry[w] = "offered" /\ over[w]
  BY Parameters DEF Stale
<1>2. CartGood(D, r, over, c) /\ D.cart[c] \in {"open", "completed"}
  BY <1>1 DEF CartGood, OfferStands
<1>3. PICK l \in Lines, h \in HoldStates : h # "none" /\ Holding(D, r, c, l, h)
  BY <1>2 DEF CartGood, NotThere
<1>4. l = w
  BY <1>1, <1>3, Parameters DEF Rows, OwnLines, Holding
<1>5. h # "converted"
  <2> SUFFICES ASSUME h = "converted" PROVE FALSE
    OBVIOUS
  <2>1. OfferingOf[w] \in Subjects /\ D.hold[c][OfferingOf[w]] = "converted"
    BY <1>3, <1>4, SubjectsOfLine DEF Holding
  <2> QED BY <2>1 DEF StaleIsPaid
<1>6. h = "active" /\ D.cart[c] = "open"
  BY <1>2, <1>3, <1>5 DEF Holding, HoldStands, HoldStates
<1> QED BY <1>1, <1>3, <1>4, <1>6 DEF Rows, Unquoted

\* The offers that have run out give their places back, one by one.
LEMMA StaleGivesBack ==
    ASSUME NEW D, NEW r, Rows(D, r), SeatRows(D, r, over), NEW o \in Offerings,
           ~StaleIsPaid(D, o)
    PROVE  SeatRows(AfterStale(D, o), r, over)
<1> DEFINE gone == Stale(D, o)
           goneCarts == {CartOf[w] : w \in gone}
           E == AfterStale(D, o)
<1>1. D \in Databases /\ OwnLines(D) /\ Rows(E, r) /\ E \in Databases /\ OwnLines(E)
  BY AfterStaleKeeps DEF Rows
<1>2. /\ E.confirmed = D.confirmed /\ E.lines = D.lines /\ E.deadline = D.deadline
      /\ \A d \in Carts : E.cart[d] = IF d \in goneCarts THEN "expired" ELSE D.cart[d]
      /\ \A d \in Carts \ goneCarts : E.hold[d] = D.hold[d]
      /\ \A d \in goneCarts, s \in Subjects :
            E.hold[d][s] = IF D.hold[d][s] = "active" THEN "released" ELSE D.hold[d][s]
      /\ \A w \in WaitLines : E.entry[w] = IF w \in gone THEN "expired" ELSE D.entry[w]
      /\ \A s \in Subjects :
            E.held[s] = Less(D.held[s], Cardinality({w \in gone :
                                           D.hold[CartOf[w]][s] = "active"}))
  BY <1>1, StaleFields
<1>3. ASSUME NEW w \in gone
      PROVE  /\ w \in WaitLines /\ w \in Lines /\ CartOf[w] \in Carts
             /\ D.entry[w] = "offered" /\ D.cart[CartOf[w]] = "open"
             /\ Holding(D, r, CartOf[w], w, "active")
             /\ \A p \in Offerings : r[w][p] = "none"
  BY StaleIsOpen DEF SeatRows
<1> HIDE DEF E, gone
<1>4. ASSUME NEW w \in gone
      PROVE  CartGood(E, r, over, CartOf[w])
  <2> DEFINE c == CartOf[w]
  <2>1. c \in goneCarts /\ E.cart[c] = "expired" /\ OfferingOf[w] \in Offerings
    BY <1>2, <1>3, Parameters
  <2>2. Holding(E, r, c, w, "released")
    BY <1>2, <1>3, <2>1 DEF Holding, HoldStands
  <2>3. \A k \in Lines : CartOf[k] = c /\ k \notin E.lines[c] =>
           \A p \in Offerings : r[k][p] = "none"
    BY <1>2, <1>3 DEF SeatRows, CartGood
  <2>4. \A v \in WaitLines : CartOf[v] = c => OfferStands(E, r, over, v)
    <3>1. \A v \in WaitLines : CartOf[v] = c => v = w
      BY <1>3, Parameters
    <3>2. E.entry[w] = "expired"
      BY <1>2, <1>3
    <3> QED BY <3>1, <3>2 DEF OfferStands
  <2> QED BY <1>3, <2>1, <2>2, <2>3, <2>4 DEF CartGood, HoldStates
<1>5. ASSUME NEW d \in Carts \ goneCarts
      PROVE  CartGood(E, r, over, d)
  <2>1. \A w \in WaitLines : CartOf[w] = d => w \notin gone
    OBVIOUS
  <2>2. SameCart(D, r, over, E, r, over, d)
    BY <1>2, <2>1 DEF SameCart
  <2> QED BY <1>1, <2>2, SameCartGood DEF SeatRows
<1>6. \A d \in Carts : CartGood(E, r, over, d)
  BY <1>4, <1>5
<1>7. ASSUME NEW s \in Subjects
      PROVE  E.held[s] = Cardinality(HeldIn(E, s))
  <2> DEFINE G == {w \in gone : D.hold[CartOf[w]][s] = "active"}
             H == HeldIn(D, s)
  <2>1. ASSUME NEW w \in G
        PROVE  w \in H
    <3>1. /\ w \in gone /\ w \in Lines /\ D.hold[CartOf[w]][s] = "active"
          /\ Holding(D, r, CartOf[w], w, "active")
      BY <1>3
    <3>2. s \in SubjectsOf[OfferingOf[w]] /\ w \in D.lines[CartOf[w]]
      BY <3>1 DEF Holding
    <3> QED BY <3>1, <3>2 DEF HeldIn
  <2>2. IsFiniteSet(H) /\ IsFiniteSet(G) /\ G \subseteq H
    BY <2>1, PlacesFinite, FS_Subset
  <2>3. ASSUME NEW k \in Lines
        PROVE  k \in HeldIn(E, s) <=> k \in H \ G
    <3>1. CartOf[k] \in Carts
      BY Parameters
    <3>2. CASE CartOf[k] \in goneCarts
      <4>1. PICK w \in gone : CartOf[k] = CartOf[w]
        BY <3>2
      <4>2. k = w
        BY <1>3, <4>1, Parameters
      <4>3. k \notin HeldIn(E, s)
        BY <1>2, <3>2 DEF HeldIn
      <4>4. k \in H => k \in G
        BY <4>2 DEF HeldIn
      <4> QED BY <4>3, <4>4
    <3>3. CASE CartOf[k] \notin goneCarts
      <4>1. k \notin G
        BY <3>3
      <4>2. k \in HeldIn(E, s) <=> k \in H
        BY <1>2, <3>1, <3>3 DEF HeldIn
      <4> QED BY <4>1, <4>2
    <3> QED BY <3>2, <3>3
  <2>4. HeldIn(E, s) = H \ G
    <3>1. HeldIn(E, s) \subseteq Lines /\ H \subseteq Lines
      BY DEF HeldIn
    <3> HIDE DEF G, H
    <3> QED BY <2>3, <3>1
  <2> HIDE DEF H, G
  <2>5. Cardinality(H \ G) = Cardinality(H) - Cardinality(G)
    <3>1. H \cap G = G
      BY <2>2
    <3> QED BY <2>2, <3>1, FS_Difference
  <2>6. Cardinality(H) \in Nat /\ Cardinality(G) \in Nat /\ Cardinality(G) <= Cardinality(H)
    BY <2>2, FS_Subset, FS_CardinalityType
  <2>7. E.held[s] = Less(Cardinality(H), Cardinality(G))
    BY <1>2 DEF SeatRows, HeldRight, H, G
  <2> QED BY <2>4, <2>5, <2>6, <2>7 DEF Less
<1>8. ConfirmedRight(E, r)
  BY <1>2 DEF SeatRows, ConfirmedRight
<1> QED BY <1>6, <1>7, <1>8 DEF SeatRows, HeldRight, E

\* An offer holds one place in each subject, for an entry that had none.
LEMMA OfferTakesPlace ==
    ASSUME NEW D, NEW r, Rows(D, r), SeatRows(D, r, over), NEW w \in WaitLines, Offerable(D, w)
    PROVE  SeatRows(Offered(D, w), r, over)
<1> DEFINE c == CartOf[w]
           S == SubjectsOf[OfferingOf[w]]
           E == Offered(D, w)
           held1 == [s \in Subjects |-> IF s \in S THEN D.held[s] + 1 ELSE D.held[s]]
           row == [s \in Subjects |-> IF s \in S THEN "active" ELSE "none"]
           hold1 == [D.hold EXCEPT ![c] = row]
           cart1 == [D.cart EXCEPT ![c] = "open"]
           lines1 == [D.lines EXCEPT ![c] = {w}]
           entry1 == [D.entry EXCEPT ![w] = "offered"]
<1>1. /\ w \in Lines /\ c \in Carts /\ D.entry[w] = "waiting" /\ D.cart[c] = "none"
      /\ D \in Databases /\ OwnLines(D)
  BY Parameters DEF Offerable, Rows, NoCartYet
<1>2. Rows(E, r) /\ OwnLines(E)
  BY OfferedKeeps DEF Rows
<1>3. /\ E.confirmed = D.confirmed /\ E.deadline = D.deadline /\ E.held = held1
      /\ E.hold = hold1 /\ E.cart = cart1 /\ E.lines = lines1 /\ E.entry = entry1
  <2>1. E = [D EXCEPT !.cart = cart1, !.lines = lines1, !.hold = hold1, !.held = held1,
                      !.entry = entry1]
    BY DEF Offered
  <2> HIDE DEF held1, hold1, cart1, lines1, entry1, E
  <2> QED BY <1>1, <2>1 DEF Databases
<1>4. /\ D.hold \in [Carts -> [Subjects -> HoldStates]] /\ D.cart \in [Carts -> CartStatus]
      /\ D.lines \in [Carts -> SUBSET Lines] /\ D.entry \in [WaitLines -> EntryStatus]
  BY <1>1 DEF Databases
<1> HIDE DEF E
<1>5. /\ E.cart[c] = "open" /\ E.lines[c] = {w} /\ E.entry[w] = "offered"
      /\ \A s \in Subjects : E.hold[c][s] = IF s \in S THEN "active" ELSE "none"
      /\ \A d \in Carts \ {c} : /\ E.cart[d] = D.cart[d] /\ E.lines[d] = D.lines[d]
                                /\ E.hold[d] = D.hold[d]
      /\ \A v \in WaitLines \ {w} : E.entry[v] = D.entry[v]
      /\ \A s \in Subjects : E.held[s] = IF s \in S THEN D.held[s] + 1 ELSE D.held[s]
  <2>1. \A s \in Subjects : E.held[s] = IF s \in S THEN D.held[s] + 1 ELSE D.held[s]
    BY <1>3
  <2>2. E.hold[c] = row /\ \A d \in Carts \ {c} : E.hold[d] = D.hold[d]
    <3> HIDE DEF row
    <3> QED BY <1>1, <1>3, <1>4
  <2> QED BY <1>1, <1>3, <1>4, <2>1, <2>2
<1> HIDE DEF held1, row, hold1, cart1, lines1, entry1
<1>6. /\ NotThere(D, c) /\ ~over[w] /\ \A p \in Offerings : r[w][p] = "none"
      /\ \A l \in Lines : CartOf[l] = c => l = w
  <2>1. CartGood(D, r, over, c)
    BY <1>1 DEF SeatRows
  <2>2. NotThere(D, c)
    BY <1>1, <2>1 DEF CartGood, Holding, HoldStands
  <2>3. OfferStands(D, r, over, w)
    BY <2>1 DEF CartGood
  <2>4. ~over[w]
    BY <1>1, <2>3 DEF OfferStands
  <2>5. \A p \in Offerings : r[w][p] = "none"
    BY <1>1 DEF Rows, Unquoted
  <2> QED BY <2>2, <2>4, <2>5, Parameters
<1>7. CartGood(E, r, over, c)
  <2>1. Holding(E, r, c, w, "active")
    BY <1>5 DEF Holding, HoldStands
  <2>2. \A v \in WaitLines : CartOf[v] = c => OfferStands(E, r, over, v)
    BY <1>1, <1>5, <1>6, Parameters DEF OfferStands
  <2>3. \A l \in Lines : CartOf[l] = c /\ l \notin E.lines[c] =>
           \A p \in Offerings : r[l][p] = "none"
    BY <1>5, <1>6
  <2>4. E.deadline[c] # "extended"
    BY <1>3, <1>6 DEF NotThere
  <2> QED BY <1>1, <2>1, <2>2, <2>3, <2>4 DEF CartGood, HoldStates
<1>8. \A d \in Carts \ {c} : SameCart(D, r, over, E, r, over, d)
  BY <1>3, <1>5 DEF SameCart
<1>9. \A d \in Carts : CartGood(E, r, over, d)
  BY <1>1, <1>7, <1>8, OneCartChanges DEF SeatRows
<1>10. ASSUME NEW s \in Subjects
       PROVE  E.held[s] = Cardinality(HeldIn(E, s))
  <2>1. D.lines[c] = {}
    BY <1>6 DEF NotThere
  <2>2. /\ Cardinality(HeldIn(D, s)) \in Nat /\ Cardinality(HeldIn(E, s)) \in Nat
        /\ Cardinality(HeldIn(E, s)) + One(w \in HeldIn(D, s))
             = Cardinality(HeldIn(D, s)) + One(w \in HeldIn(E, s))
    BY <1>1, <1>2, <1>5, <2>1, HeldMoves
  <2>3. w \notin HeldIn(D, s) /\ (w \in HeldIn(E, s) <=> s \in S)
    BY <1>1, <1>5, <2>1 DEF HeldIn
  <2>4. D.held[s] = Cardinality(HeldIn(D, s))
    BY DEF SeatRows, HeldRight
  <2>5. One(w \in HeldIn(D, s)) = 0 /\ One(w \in HeldIn(E, s)) = IF s \in S THEN 1 ELSE 0
    BY <2>3 DEF One
  <2> QED BY <1>5, <2>2, <2>4, <2>5
<1>11. ConfirmedRight(E, r)
  BY <1>3 DEF SeatRows, ConfirmedRight
<1> QED BY <1>9, <1>10, <1>11 DEF SeatRows, HeldRight, E

\* A database whose stale offers in the offerings of Q are not paid.
NoPaidStale(D, Q) == \A q \in Q : ~StaleIsPaid(D, q)

\* The waitlist of an offering moves on: places and counters stay right, and
\* no offer of another offering becomes stale.
LEMMA AdvanceKeepsSeats ==
    ASSUME position \in [WaitLines -> Nat], NEW D, NEW r, Rows(D, r), SeatRows(D, r, over),
           NEW o \in Offerings, ~StaleIsPaid(D, o), NEW Q \in SUBSET Offerings,
           NoPaidStale(D, Q)
    PROVE  LET E == Advanced(o, D) IN
           /\ Rows(E, r) /\ SeatRows(E, r, over) /\ NoPaidStale(E, Q)
           /\ \A d \in Carts : E.cart[d] \in {"none", "open"} => D.cart[d] \in {"none", "open"}
<1> DEFINE F == AfterStale(D, o)
           w == First(F, o)
<1>1. /\ Rows(F, r) /\ SeatRows(F, r, over) /\ F \in Databases /\ D \in Databases
      /\ \A v \in WaitLines : F.entry[v] = IF v \in Stale(D, o) THEN "expired" ELSE D.entry[v]
  BY AfterStaleKeeps, StaleGivesBack DEF Rows
<1>2. NoPaidStale(F, Q)
  <2> SUFFICES ASSUME NEW q \in Q, NEW v \in Stale(F, q), NEW s \in Subjects,
                      F.hold[CartOf[v]][s] = "converted"
               PROVE  FALSE
    BY DEF NoPaidStale, StaleIsPaid
  <2>1. /\ v \in WaitLines /\ F.entry[v] = "offered" /\ OfferingOf[v] = q /\ over[v]
        /\ v \in Lines /\ CartOf[v] \in Carts
    BY Parameters DEF Stale
  <2>2. v \notin Stale(D, o) /\ D.entry[v] = "offered" /\ v \in Stale(D, q)
    BY <1>1, <2>1 DEF Stale
  <2>3. CartOf[v] \notin {CartOf[k] : k \in Stale(D, o)}
    BY <2>1, <2>2, Parameters DEF Stale
  <2>4. F.hold[CartOf[v]] = D.hold[CartOf[v]]
    BY <1>1, <2>1, <2>3, StaleFields
  <2> QED BY <2>2, <2>4 DEF NoPaidStale, StaleIsPaid
<1>3. \A d \in Carts : F.cart[d] \in {"none", "open"} => D.cart[d] \in {"none", "open"}
  BY <1>1, StaleFields
<1> HIDE DEF F
<1>4. CASE Advanced(o, D) = F
  BY <1>1, <1>2, <1>3, <1>4
<1>5. CASE Waiting(F, o) # {} /\ Offerable(F, w) /\ Advanced(o, D) = Offered(F, w)
  <2> DEFINE E == Offered(F, w)
  <2>1. w \in WaitLines /\ F.entry[w] = "waiting" /\ w \in Lines /\ CartOf[w] \in Carts
    <3>1. w \in Waiting(F, o)
      BY <1>5, FirstWaits
    <3> HIDE DEF w
    <3> QED BY <3>1, Parameters DEF Waiting
  <2> HIDE DEF w
  <2>2. /\ Rows(E, r) /\ SeatRows(E, r, over)
        /\ \A v \in WaitLines : E.entry[v] = IF v = w THEN "offered" ELSE F.entry[v]
    BY <1>1, <1>5, <2>1, OfferedKeeps, OfferTakesPlace
  <2>3. ~over[w]
    BY <1>1, <2>1 DEF SeatRows, CartGood, OfferStands
  <2>4. \A d \in Carts \ {CartOf[w]} : E.hold[d] = F.hold[d] /\ E.cart[d] = F.cart[d]
    BY <1>1, <2>1 DEF Offered, Databases
  <2>7. F.cart[CartOf[w]] = "none"
    BY <1>1, <2>1 DEF Rows, NoCartYet
  <2>8. \A d \in Carts : E.cart[d] \in {"none", "open"} => F.cart[d] \in {"none", "open"}
    BY <2>4, <2>7
  <2> HIDE DEF E
  <2>5. ASSUME NEW q \in Q, NEW v \in Stale(E, q)
        PROVE  v \in Stale(F, q) /\ E.hold[CartOf[v]] = F.hold[CartOf[v]]
    <3>1. v \in WaitLines /\ E.entry[v] = "offered" /\ over[v] /\ v # w
      BY <2>3 DEF Stale
    <3>2. v \in Lines /\ CartOf[v] \in Carts /\ CartOf[v] # CartOf[w]
      BY <2>1, <3>1, Parameters
    <3> QED BY <2>2, <2>4, <3>1, <3>2 DEF Stale
  <2>6. NoPaidStale(E, Q)
    BY <1>2, <2>5 DEF NoPaidStale, StaleIsPaid
  <2> QED BY <1>3, <1>5, <2>2, <2>6, <2>8 DEF E
<1> QED BY <1>4, <1>5 DEF Advanced, F

\* A set of databases that advances stay in holds the end of the job's fold.
LEMMA FoldStays ==
    ASSUME NEW V, NEW B \in V, NEW due, IsFiniteSet(due),
           \A o \in due, D \in V : Advanced(o, D) \in V
    PROVE  FoldSet(Advanced, B, due) \in V
<1> DEFINE IsRun(g) == g = [s \in SUBSET due |-> IF s = {} THEN B
                                ELSE Advanced(FirstOf(s), g[s \ {FirstOf(s)}])]
           h == CHOOSE g : IsRun(g)
           op == [x \in due \X V |-> Advanced(x[1], x[2])]
<1>1. FoldSet(Advanced, B, due) = h[due]
  BY DEF FoldSet, MapThenFoldSet, FirstOf
<1>2. op \in [due \X V -> V]
  OBVIOUS
<1>3. PICK g : Chain(op, B, V, due, g)
  <2> HIDE DEF op
  <2> QED BY <1>2, ChainExists
<1>4. IsRun(g)
  <2>1. ASSUME NEW s \in SUBSET due, s # {}
        PROVE  g[s] = Advanced(FirstOf(s), g[s \ {FirstOf(s)}])
    <3>1. FirstOf(s) \in due /\ g[s \ {FirstOf(s)}] \in V
      BY <1>3, <2>1, FirstTakenOut DEF Chain
    <3> QED BY <1>3, <2>1, <3>1 DEF Chain
  <2> QED BY <1>3, <2>1 DEF Chain
<1>5. IsRun(h)
  <2> HIDE DEF IsRun
  <2> QED BY <1>4
<1>6. /\ h[{}] = B
      /\ \A s \in SUBSET due : s # {} => h[s] = Advanced(FirstOf(s), h[s \ {FirstOf(s)}])
  <2> HIDE DEF h
  <2> QED BY <1>5
<1> HIDE DEF h, IsRun
<1> DEFINE bad == {s \in SUBSET due : h[s] \notin V}
<1>7. bad = {}
  <2> SUFFICES ASSUME bad # {} PROVE FALSE
    OBVIOUS
  <2>1. PICK s \in bad : \A u \in bad : u \subseteq s => u = s
    <3>1. bad \in SUBSET SUBSET due
      OBVIOUS
    <3> HIDE DEF bad
    <3> QED BY <3>1, SmallestSet
  <2>2. s \in SUBSET due /\ s # {}
    BY <1>6
  <2>3. /\ s \ {FirstOf(s)} \in SUBSET due /\ s \ {FirstOf(s)} # s /\ FirstOf(s) \in due
    BY <2>2, FirstTakenOut
  <2>4. h[s \ {FirstOf(s)}] \in V
    BY <2>1, <2>3
  <2>5. h[s] \in V
    BY <1>6, <2>2, <2>3, <2>4
  <2> QED BY <2>1, <2>5
<1> QED BY <1>1, <1>7

-----------------------------------------------------------------------------
(* Steps.                                                                  *)

\* What the mishaps left out may not do.
LEMMA CleanSteps ==
    ASSUME Clean, Given
    PROVE  /\ \A c \in Carts : HoldExpiryJob(c) => Registered(c, Live) = {} /\ OfferOf(c) = {}
           /\ \A c \in Carts : Cardinality(lines'[c]) <= 1
           /\ \A w \in WaitLines : entry[w] = "offered" /\ Registered(CartOf[w], Live) # {} =>
                 /\ entry'[w] # "declined"
                 /\ over'[w] => cart'[CartOf[w]] = "completed"
                 /\ entry'[w] = "offered" /\ reg'[w] # reg[w] =>
                       reg'[w][OfferingOf[w]] \notin Closed
           /\ \A l \in Lines, o \in Offerings :
                 o # OfferingOf[l] /\ reg[l][o] \in Pending => reg'[l][o] \notin Closed
           /\ \A c \in Carts : PaymentFails(c) => Registered(c, Closed) = {}
BY DEF Clean, Given, May, Pending

\* A cart that has no live registration.
LEMMA NoneRegistered ==
    ASSUME NEW c, NEW S
    PROVE  Registered(c, S) = {} <=>
              \A l \in Lines, o \in Offerings : CartOf[l] = c => reg[l][o] \notin S
<1>1. ASSUME NEW l \in Lines, NEW o \in Offerings, CartOf[l] = c, reg[l][o] \in S
      PROVE  <<l, o>> \in Registered(c, S)
  BY <1>1 DEF Registered
<1>2. ASSUME NEW x \in Registered(c, S)
      PROVE  x[1] \in Lines /\ x[2] \in Offerings /\ CartOf[x[1]] = c /\ reg[x[1]][x[2]] \in S
  BY DEF Registered
<1> QED BY <1>1, <1>2

\* The rows after a step.
LEMMA NextFields ==
    /\ (Database').confirmed = confirmed' /\ (Database').held = held'
    /\ (Database').cart = cart' /\ (Database').lines = lines' /\ (Database').hold = hold'
    /\ (Database').deadline = deadline' /\ (Database').entry = entry'
BY DEF Database

\* Invoices go on: none is made or paid for, and no line comes to wait for
\* approval.
LEMMA InvoicesGo ==
    ASSUME InvoicesStand,
           \A c \in Carts : cart'[c] \in {"none", "open"} => cart[c] \in {"none", "open"},
           \A c \in Carts : \/ invoice'[c] = invoice[c]
                            \/ invoice[c] # "none" /\ invoice'[c] # "processing",
           \A l \in Lines, o \in Offerings : reg'[l][o] = "pending_approval" =>
              \E p \in Offerings : reg[l][p] = "pending_approval"
    PROVE  InvoicesStand'
BY DEF InvoicesStand

\* Counters whose rows stay.
LEMMA HeldStays ==
    ASSUME NEW D, NEW E, HeldRight(D), E.held = D.held, E.lines = D.lines, E.hold = D.hold
    PROVE  HeldRight(E)
BY DEF HeldRight, HeldIn

\* Confirmed places whose counter stays.
LEMMA ConfirmedStays ==
    ASSUME NEW D, NEW E, NEW r, ConfirmedRight(D, r), E.confirmed = D.confirmed
    PROVE  ConfirmedRight(E, r)
BY DEF ConfirmedRight

\* What holds of the rows before a step.
LEMMA SeatsNow ==
    ASSUME LifecycleInv, SeatsRight
    PROVE  /\ Database \in Databases /\ Rows(Database, reg) /\ OwnLines(Database)
           /\ SeatRows(Database, reg, over) /\ InvoicesStand
           /\ \A c \in Carts : CartGood(Database, reg, over, c)
           /\ HeldRight(Database) /\ ConfirmedRight(Database, reg)
BY DEF LifecycleInv, SeatsRight, Rows, SeatRows

\* A step that changes entries and offers only.
LEMMA EntriesChange ==
    ASSUME LifecycleInv, SeatsRight, UNCHANGED <<counts, carts, reg, invoice>>,
           \A w \in WaitLines : OfferStands(Database', reg, over', w)
    PROVE  SeatsRight'
<1>1. /\ (Database').confirmed = Database.confirmed /\ (Database').held = Database.held
      /\ (Database').cart = Database.cart /\ (Database').lines = Database.lines
      /\ (Database').hold = Database.hold /\ (Database').deadline = Database.deadline
  BY NextFields, RowFields DEF counts, carts
<1>2. \A d \in Carts : CartGood(Database', reg, over', d)
  BY <1>1, SeatsNow, SameRowsGood
<1>3. HeldRight(Database') /\ ConfirmedRight(Database', reg)
  BY <1>1, SeatsNow, HeldStays, ConfirmedStays
<1>4. InvoicesStand'
  BY SeatsNow, InvoicesGo DEF carts
<1>5. reg' = reg
  OBVIOUS
<1> QED BY <1>2, <1>3, <1>4, <1>5 DEF SeatsRight, SeatRows

\* An entry's offer before a step.
LEMMA OfferNow ==
    ASSUME LifecycleInv, SeatsRight, NEW w \in WaitLines
    PROVE  OfferStands(Database, reg, over, w)
BY SeatsNow, Parameters DEF CartGood

\* An entry that starts to wait had no offer before.
LEMMA JoinSeats ==
    ASSUME LifecycleInv, SeatsRight, NEW w \in WaitLines, Join(w)
    PROVE  SeatsRight'
<1>1. UNCHANGED <<counts, carts, over, reg, invoice>> /\ entry[w] = "none"
      /\ entry' = [entry EXCEPT ![w] = "waiting"]
  BY DEF Join
<1>2. \A v \in WaitLines : entry'[v] = IF v = w THEN "waiting" ELSE entry[v]
  BY <1>1, RowTypes
<1>3. ASSUME NEW v \in WaitLines PROVE OfferStands(Database', reg, over', v)
  BY <1>1, <1>2, OfferNow, RowFields, NextFields DEF OfferStands, carts
<1> QED BY <1>1, <1>3, EntriesChange

\* Staff's offer takes its place.
LEMMA StaffOfferSeats ==
    ASSUME LifecycleInv, SeatsRight, NEW w \in WaitLines, StaffOffer(w)
    PROVE  SeatsRight'
<1> DEFINE E == Offered(Database, w)
<1>1. Offerable(Database, w) /\ Write(E) /\ UNCHANGED <<over, reg, invoice>>
  BY DEF StaffOffer
<1>2. Rows(E, reg) /\ SeatRows(E, reg, over)
  BY <1>1, SeatsNow, OfferedKeeps, OfferTakesPlace
<1>3. Database' = E
  BY <1>1, <1>2, WrittenRows DEF Rows
<1>4. InvoicesStand'
  <2>1. Database.cart[CartOf[w]] = "none"
    BY <1>1, SeatsNow DEF Offerable, Rows, NoCartYet
  <2>2. \A d \in Carts : E.cart[d] \in {"none", "open"} => Database.cart[d] \in {"none", "open"}
    <3>1. \A d \in Carts \ {CartOf[w]} : E.cart[d] = Database.cart[d]
      BY SeatsNow, RowTypes, RowFields DEF Offered
    <3> QED BY <2>1, <3>1
  <2>3. E.cart = cart' /\ Database.cart = cart
    BY <1>3, NextFields, RowFields
  <2> HIDE DEF E
  <2> QED BY <1>1, <2>2, <2>3, SeatsNow, InvoicesGo
<1> HIDE DEF E
<1> QED BY <1>1, <1>2, <1>3, <1>4 DEF SeatsRight

\* Accepting an offer changes no counter.
LEMMA AcceptSeats ==
    ASSUME LifecycleInv, SeatsRight, NEW w \in WaitLines, Accept(w)
    PROVE  SeatsRight'
<1>1. UNCHANGED <<counts, carts, entry, over, reg, invoice>>
  BY DEF Accept
<1>2. Database' = Database
  BY <1>1, SameDatabase
<1>3. InvoicesStand'
  BY <1>1, SeatsNow, InvoicesGo DEF carts
<1> QED BY <1>1, <1>2, <1>3, SeatsNow DEF SeatsRight

\* An offer runs out when its cart is paid, or was not quoted.
LEMMA OfferRunsOutSeats ==
    ASSUME LifecycleInv, SeatsRight, Clean, NEW w \in WaitLines, OfferRunsOut(w), Given
    PROVE  SeatsRight'
<1>1. /\ UNCHANGED <<counts, carts, entry, reg, invoice>> /\ entry[w] = "offered"
      /\ cart[CartOf[w]] \in {"completed", "expired"} \/ deadline[CartOf[w]] = "extended"
      /\ over' = [over EXCEPT ![w] = TRUE]
  BY DEF OfferRunsOut
<1>2. \A v \in WaitLines : over'[v] = IF v = w THEN TRUE ELSE over[v]
  BY <1>1, InvTypes DEF OtherTypes
<1>3. \A v \in WaitLines : OfferStands(Database, reg, over, v)
  BY OfferNow
<1>4. cart[CartOf[w]] = "completed"
  <2>1. CartOf[w] \in Carts /\ w \in Lines /\ OfferingOf[w] \in Offerings
    BY Parameters
  <2>2. /\ cart[CartOf[w]] \in {"open", "awaiting_payment", "completed"}
        /\ cart[CartOf[w]] # "open" => reg[w][OfferingOf[w]] \in Live
    BY <1>1, <1>3, RowFields DEF OfferStands
  <2>3. cart[CartOf[w]] # "open"
    BY <1>1, <2>1, SeatsNow, RowFields DEF CartGood
  <2>4. Registered(CartOf[w], Live) # {}
    BY <2>1, <2>2, <2>3, NoneRegistered
  <2> QED BY <1>1, <1>2, <2>4, CleanSteps DEF carts
<1>5. ASSUME NEW v \in WaitLines PROVE OfferStands(Database', reg, over', v)
  BY <1>1, <1>2, <1>3, <1>4, RowFields, NextFields DEF OfferStands, carts
<1> QED BY <1>1, <1>5, EntriesChange

\* The job: no offer it ends is paid, also after others were ended.
LEMMA RemindersJobSeats ==
    ASSUME LifecycleInv, SeatsRight, RemindersJob
    PROVE  SeatsRight'
<1> DEFINE due == {o \in Offerings : Stale(Database, o) # {}}
           E == FoldSet(Advanced, Database, due)
           V == {D \in Databases :
                    /\ Rows(D, reg) /\ SeatRows(D, reg, over) /\ NoPaidStale(D, due)
                    /\ \A d \in Carts : D.cart[d] \in {"none", "open"} =>
                          cart[d] \in {"none", "open"}}
<1>1. /\ NoPaidStale(Database, due) /\ Write(E) /\ UNCHANGED <<over, reg, invoice>>
      /\ due \in SUBSET Offerings /\ IsFiniteSet(due)
      /\ position \in [WaitLines -> Nat]
  BY Parameters, FS_Subset, InvTypes DEF RemindersJob, NoPaidStale, OtherTypes
<1>2. Database \in V
  BY <1>1, SeatsNow, RowFields
<1>3. ASSUME NEW o \in due, NEW D \in V
      PROVE  Advanced(o, D) \in V
  <2>1. /\ Rows(D, reg) /\ SeatRows(D, reg, over) /\ NoPaidStale(D, due)
        /\ o \in Offerings /\ ~StaleIsPaid(D, o)
    BY <1>1 DEF NoPaidStale
  <2> HIDE DEF due
  <2>2. LET F == Advanced(o, D) IN
        /\ Rows(F, reg) /\ SeatRows(F, reg, over) /\ NoPaidStale(F, due)
        /\ \A d \in Carts : F.cart[d] \in {"none", "open"} => D.cart[d] \in {"none", "open"}
    BY <1>1, <2>1, AdvanceKeepsSeats
  <2> QED BY <2>2 DEF Rows
<1>4. E \in V
  <2> HIDE DEF due, V
  <2> QED BY <1>1, <1>2, <1>3, FoldStays
<1>5. /\ E \in Databases /\ Rows(E, reg) /\ SeatRows(E, reg, over)
      /\ \A d \in Carts : E.cart[d] \in {"none", "open"} => cart[d] \in {"none", "open"}
  BY <1>4
<1> HIDE DEF E, V, due
<1>6. Database' = E
  BY <1>1, <1>5, WrittenRows
<1>7. InvoicesStand'
  BY <1>1, <1>5, <1>6, SeatsNow, NextFields, InvoicesGo
<1> QED BY <1>1, <1>5, <1>6, <1>7 DEF SeatsRight

\* Quantities that one cart, and one registration, change.
LEMMA CartMoves ==
    ASSUME LifecycleInv, SeatsRight, LifecycleInv', NEW c \in Carts, NEW l \in Lines,
           CartOf[l] = c, NEW g \in HoldStates, NEW h \in HoldStates, h # "none",
           lines[c] = {l} \/ (lines[c] = {} /\ g = "none"),
           \A s \in SubjectsOf[OfferingOf[l]] : hold[c][s] = g,
           \A d \in Carts \ {c} : /\ cart'[d] = cart[d] /\ lines'[d] = lines[d]
                                  /\ hold'[d] = hold[d] /\ deadline'[d] = deadline[d],
           \A k \in Lines : k # l => reg'[k] = reg[k],
           \A w \in WaitLines : CartOf[w] # c => entry'[w] = entry[w] /\ over'[w] = over[w],
           Holding(Database', reg', c, l, h),
           cart'[c] = "open" => deadline'[c] # "extended",
           \A w \in WaitLines : CartOf[w] = c => OfferStands(Database', reg', over', w),
           \A s \in Subjects :
              held'[s] = IF s \in SubjectsOf[OfferingOf[l]]
                         THEN held[s] + One(h = "active") - One(g = "active") ELSE held[s]
    PROVE  (\A d \in Carts : CartGood(Database', reg', over', d)) /\ HeldRight(Database')
<1> DEFINE D == Database
           E == Database'
<1>1. /\ OwnLines(D) /\ OwnLines(E) /\ HeldRight(D)
      /\ \A d \in Carts : CartGood(D, reg, over, d)
  BY SeatsNow DEF LifecycleInv, Rows
<1>2. /\ D.held = held /\ D.cart = cart /\ D.lines = lines /\ D.hold = hold
      /\ D.deadline = deadline /\ D.entry = entry
      /\ E.held = held' /\ E.cart = cart' /\ E.lines = lines' /\ E.hold = hold'
      /\ E.deadline = deadline' /\ E.entry = entry'
  BY RowFields, NextFields
<1> HIDE DEF D, E
<1>3. /\ E.lines[c] = {l}
      /\ \A s \in Subjects : E.hold[c][s] = IF s \in SubjectsOf[OfferingOf[l]] THEN h ELSE "none"
  BY DEF Holding, E
<1>4. CartGood(E, reg', over', c)
  <2>1. \A k \in Lines : CartOf[k] = c /\ k \notin E.lines[c] =>
           \A p \in Offerings : reg'[k][p] = "none"
    BY <1>1, <1>2, <1>3 DEF CartGood
  <2> QED BY <1>2, <2>1 DEF CartGood, E
<1>5. \A d \in Carts \ {c} : SameCart(D, reg, over, E, reg', over', d)
  BY <1>2 DEF SameCart
<1>6. \A d \in Carts : CartGood(E, reg', over', d)
  BY <1>1, <1>4, <1>5, OneCartChanges
<1>7. ASSUME NEW s \in Subjects
      PROVE  E.held[s] = Cardinality(HeldIn(E, s))
  <2> DEFINE m == Cardinality(HeldIn(D, s))
             n == Cardinality(HeldIn(E, s))
  <2>1. /\ m \in Nat /\ n \in Nat
        /\ n + One(l \in HeldIn(D, s)) = m + One(l \in HeldIn(E, s))
    BY <1>1, <1>2, <1>3, HeldMoves
  <2>2. /\ l \in HeldIn(D, s) <=> s \in SubjectsOf[OfferingOf[l]] /\ g = "active"
        /\ l \in HeldIn(E, s) <=> s \in SubjectsOf[OfferingOf[l]] /\ h = "active"
    BY <1>2, <1>3 DEF HeldIn
  <2>3. held[s] = m
    BY <1>1, <1>2 DEF HeldRight
  <2>4. held'[s] = IF s \in SubjectsOf[OfferingOf[l]]
                   THEN held[s] + One(h = "active") - One(g = "active") ELSE held[s]
    OBVIOUS
  <2>5. /\ One(h = "active") \in Int /\ One(g = "active") \in Int
        /\ One(l \in HeldIn(D, s)) = IF s \in SubjectsOf[OfferingOf[l]] THEN One(g = "active")
                                     ELSE 0
        /\ One(l \in HeldIn(E, s)) = IF s \in SubjectsOf[OfferingOf[l]] THEN One(h = "active")
                                     ELSE 0
    BY <2>2 DEF One
  <2> HIDE DEF m, n
  <2>6. held'[s] = n
    BY <2>1, <2>3, <2>4, <2>5
  <2> QED BY <1>2, <2>6 DEF n
<1> QED BY <1>6, <1>7 DEF HeldRight, E

\* When one registration of a line changes, confirmed changes by its place.
LEMMA ConfirmedMoves ==
    ASSUME NEW B, NEW E, NEW r, NEW q, ConfirmedRight(B, r),
           NEW l \in Lines, NEW o \in Offerings,
           OneRegChanges(r, q, l, o),
           \A s \in Subjects :
              E.confirmed[s] = IF s \in SubjectsOf[o]
                               THEN B.confirmed[s] + One(q[l][o] = "confirmed")
                                                   - One(r[l][o] = "confirmed")
                               ELSE B.confirmed[s]
    PROVE  ConfirmedRight(E, q)
<1> SUFFICES ASSUME NEW s \in Subjects
             PROVE  E.confirmed[s] = Cardinality(SeatedIn(q, s))
  BY DEF ConfirmedRight
<1> DEFINE m == Cardinality(SeatedIn(r, s))
           n == Cardinality(SeatedIn(q, s))
<1>1. m \in Nat /\ n \in Nat /\ n + Sits(r, l, o, s) = m + Sits(q, l, o, s)
  BY SeatedMoves
<1>2. B.confirmed[s] = m
  BY DEF ConfirmedRight
<1>3. /\ One(q[l][o] = "confirmed") \in Int /\ One(r[l][o] = "confirmed") \in Int
      /\ Sits(r, l, o, s) = IF s \in SubjectsOf[o] THEN One(r[l][o] = "confirmed") ELSE 0
      /\ Sits(q, l, o, s) = IF s \in SubjectsOf[o] THEN One(q[l][o] = "confirmed") ELSE 0
  BY DEF One, Sits
<1>4. E.confirmed[s] = IF s \in SubjectsOf[o]
                       THEN m + One(q[l][o] = "confirmed") - One(r[l][o] = "confirmed") ELSE m
  BY <1>2
<1> HIDE DEF m, n
<1>5. E.confirmed[s] = n
  BY <1>1, <1>3, <1>4
<1> QED BY <1>5 DEF n

\* The line of a cart that is there, and the state of its hold.
LEMMA LineThere ==
    ASSUME LifecycleInv, SeatsRight, NEW c \in Carts, cart[c] # "none"
    PROVE  \E l \in Lines, h \in HoldStates :
              /\ h # "none" /\ Holding(Database, reg, c, l, h) /\ CartOf[l] = c
              /\ lines[c] = {l} /\ OfferingOf[l] \in Offerings
              /\ \A s \in Subjects :
                    hold[c][s] = IF s \in SubjectsOf[OfferingOf[l]] THEN h ELSE "none"
              /\ SubjectsOf[OfferingOf[l]] \subseteq Subjects
              /\ OfferingOf[l] \in SubjectsOf[OfferingOf[l]]
              /\ HoldStands(cart[c], h, reg[l], OfferingOf[l])
              /\ CartSubjects(Database, c) = SubjectsOf[OfferingOf[l]]
              /\ \A s : Places(Database, c, s) = IF s \in SubjectsOf[OfferingOf[l]] THEN 1 ELSE 0
              /\ \A k \in Lines : CartOf[k] = c /\ k # l => \A o \in Offerings : reg[k][o] = "none"
              /\ \A w \in WaitLines : CartOf[w] = c => w = l
<1>1. CartGood(Database, reg, over, c) /\ OwnLines(Database)
  BY SeatsNow
<1>2. PICK l \in Lines, h \in HoldStates : h # "none" /\ Holding(Database, reg, c, l, h)
  BY <1>1, RowFields DEF CartGood, NotThere
<1>3. /\ lines[c] = {l} /\ HoldStands(cart[c], h, reg[l], OfferingOf[l])
      /\ \A s \in Subjects :
            hold[c][s] = IF s \in SubjectsOf[OfferingOf[l]] THEN h ELSE "none"
  BY <1>2, RowFields DEF Holding
<1>4. CartOf[l] = c /\ \A w \in WaitLines : CartOf[w] = c => w = l
  BY <1>1, <1>2, LineOfCart DEF Holding
<1>5. /\ CartSubjects(Database, c) = SubjectsOf[OfferingOf[l]]
      /\ \A s : Places(Database, c, s) = IF s \in SubjectsOf[OfferingOf[l]] THEN 1 ELSE 0
  BY <1>2, PlacesOfLine DEF Holding
<1>6. \A k \in Lines : CartOf[k] = c /\ k # l => \A o \in Offerings : reg[k][o] = "none"
  BY <1>1, <1>2 DEF CartGood, Holding
<1>7. OfferingOf[l] \in Offerings
  BY Parameters
<1> QED BY <1>2, <1>3, <1>4, <1>5, <1>6, <1>7, SubjectsOfLine

\* Registrations that are the same in every offering are the same.
LEMMA SameRegs ==
    ASSUME LifecycleInv, LifecycleInv', NEW k \in Lines,
           \A o \in Offerings : reg'[k][o] = reg[k][o]
    PROVE  reg'[k] = reg[k]
<1>1. reg[k] \in [Offerings -> RegStatus] /\ reg'[k] \in [Offerings -> RegStatus]
  BY DEF LifecycleInv, LifecycleTypeOK
<1> QED BY <1>1

\* What ConfirmPlaces writes.
LEMMA ConfirmFields ==
    ASSUME LifecycleInv, NEW c \in Carts, Write(ConfirmPlaces(Database, c))
    PROVE  /\ lines' = lines /\ deadline' = deadline
           /\ \A d \in Carts : cart'[d] = IF d = c THEN "completed" ELSE cart[d]
           /\ \A d \in Carts \ {c} : hold'[d] = hold[d]
           /\ \A s \in Subjects :
                 /\ hold'[c][s] = IF hold[c][s] = "active" THEN "converted" ELSE hold[c][s]
                 /\ held'[s] = held[s] - Places(Database, c, s)
                 /\ confirmed'[s] = confirmed[s] + Places(Database, c, s)
           /\ \A w \in WaitLines :
                 entry'[w] = IF CartOf[w] = c /\ entry[w] = "offered" /\ accepted[w]
                             THEN "accepted" ELSE entry[w]
<1> DEFINE D == Database
           row == [s \in Subjects |-> IF hold[c][s] = "active" THEN "converted" ELSE hold[c][s]]
           held1 == [s \in Subjects |-> D.held[s] - Places(D, c, s)]
           confirmed1 == [s \in Subjects |-> D.confirmed[s] + Places(D, c, s)]
           hold1 == [hold EXCEPT ![c] = row]
           cart1 == [cart EXCEPT ![c] = "completed"]
           entry1 == [w \in WaitLines |->
               IF CartOf[w] = c /\ D.entry[w] = "offered" /\ accepted[w] THEN "accepted"
               ELSE D.entry[w]]
           M == MarkActive(D, c, "converted")
           E == ConfirmPlaces(D, c)
<1>1. M = [D EXCEPT !.hold = hold1]
  BY RowFields DEF MarkActive
<1>2. E = [M EXCEPT !.held = held1, !.confirmed = confirmed1, !.cart[c] = "completed",
                    !.entry = entry1]
  BY DEF ConfirmPlaces
<1>3. D \in Databases /\ hold \in [Carts -> [Subjects -> HoldStates]]
      /\ cart \in [Carts -> CartStatus]
  BY InvTypes, RowTypes
<1>4. /\ E.lines = D.lines /\ E.deadline = D.deadline /\ E.hold = hold1 /\ E.held = held1
      /\ E.confirmed = confirmed1 /\ E.entry = entry1
      /\ E.cart = [D.cart EXCEPT ![c] = "completed"]
  <2>1. /\ M.cart = D.cart /\ M.lines = D.lines /\ M.deadline = D.deadline /\ M.hold = hold1
        /\ DOMAIN M = DOMAIN D
    <3> HIDE DEF hold1, D, M
    <3> QED BY <1>1, <1>3 DEF Databases
  <2> HIDE DEF held1, confirmed1, hold1, entry1, D, M, E
  <2> QED BY <1>1, <1>2, <1>3, <2>1 DEF Databases
<1>5. /\ lines' = E.lines /\ deadline' = E.deadline /\ hold' = E.hold /\ held' = E.held
      /\ confirmed' = E.confirmed /\ cart' = E.cart /\ entry' = E.entry
  BY DEF Write
<1> HIDE DEF E
<1>6. \A s \in Subjects :
         /\ held'[s] = held[s] - Places(D, c, s)
         /\ confirmed'[s] = confirmed[s] + Places(D, c, s)
  BY <1>4, <1>5, RowFields
<1>7. \A w \in WaitLines :
         entry'[w] = IF CartOf[w] = c /\ entry[w] = "offered" /\ accepted[w]
                     THEN "accepted" ELSE entry[w]
  BY <1>4, <1>5, RowFields
<1>8. hold'[c] = row /\ \A d \in Carts \ {c} : hold'[d] = hold[d]
  <2> HIDE DEF row
  <2> QED BY <1>3, <1>4, <1>5
<1>9. /\ lines' = lines /\ deadline' = deadline
      /\ \A d \in Carts : cart'[d] = IF d = c THEN "completed" ELSE cart[d]
  BY <1>3, <1>4, <1>5, RowFields
<1> QED BY <1>6, <1>7, <1>8, <1>9

\* A cart with one active hold per subject of its line is confirmed.
LEMMA ConfirmSeats ==
    ASSUME LifecycleInv, SeatsRight, LifecycleInv', NEW c \in Carts, Confirmable(c),
           Write(ConfirmPlaces(Database, c)), over' = over,
           NEW l \in Lines, lines[c] = {l},
           reg[l][OfferingOf[l]] # "confirmed", reg'[l][OfferingOf[l]] = "confirmed",
           \A p \in Offerings : p = OfferingOf[l] \/ (reg[l][p] = "none" /\ reg'[l][p] = "none"),
           \A k \in Lines : k # l => reg'[k] = reg[k]
    PROVE  SeatRows(Database', reg', over')
<1> DEFINE o == OfferingOf[l]
           S == SubjectsOf[o]
           E == Database'
<1>1. /\ CartOf[l] = c /\ o \in Offerings /\ o \in S /\ S \subseteq Subjects /\ o \in Subjects
      /\ \A s \in S : hold[c][s] = "active"
      /\ \A s \in Subjects \ S : hold[c][s] = "none"
      /\ \A s : Places(Database, c, s) = IF s \in S THEN 1 ELSE 0
      /\ \A w \in WaitLines : CartOf[w] = c => w = l
  <2>1. cart[c] # "none"
    BY DEF Confirmable
  <2>2. PICK k \in Lines, h \in HoldStates :
              /\ lines[c] = {k} /\ CartOf[k] = c /\ OfferingOf[k] \in Offerings
              /\ \A s \in Subjects :
                    hold[c][s] = IF s \in SubjectsOf[OfferingOf[k]] THEN h ELSE "none"
              /\ SubjectsOf[OfferingOf[k]] \subseteq Subjects
              /\ OfferingOf[k] \in SubjectsOf[OfferingOf[k]]
              /\ CartSubjects(Database, c) = SubjectsOf[OfferingOf[k]]
              /\ \A s : Places(Database, c, s) = IF s \in SubjectsOf[OfferingOf[k]] THEN 1 ELSE 0
              /\ \A w \in WaitLines : CartOf[w] = c => w = k
    BY <2>1, LineThere
  <2>3. k = l
    BY <2>2
  <2>4. \A s \in S : hold[c][s] = "active"
    BY <2>2, <2>3 DEF Confirmable
  <2> QED BY <2>2, <2>3, <2>4
<1>2. /\ lines' = lines /\ deadline' = deadline
      /\ \A d \in Carts : cart'[d] = IF d = c THEN "completed" ELSE cart[d]
      /\ \A d \in Carts \ {c} : hold'[d] = hold[d]
      /\ \A s \in Subjects :
            /\ hold'[c][s] = IF hold[c][s] = "active" THEN "converted" ELSE hold[c][s]
            /\ held'[s] = held[s] - Places(Database, c, s)
            /\ confirmed'[s] = confirmed[s] + Places(Database, c, s)
      /\ \A w \in WaitLines : entry'[w] = IF CartOf[w] = c /\ entry[w] = "offered" /\ accepted[w]
                                          THEN "accepted" ELSE entry[w]
  BY ConfirmFields
<1>3. /\ E.confirmed = confirmed' /\ E.lines = lines' /\ E.hold = hold' /\ E.cart = cart'
      /\ E.deadline = deadline' /\ E.entry = entry'
  BY NextFields
<1> HIDE DEF E
<1>4. Holding(E, reg', c, l, "converted")
  BY <1>1, <1>2, <1>3 DEF Holding, HoldStands, Pending
<1>5. \A w \in WaitLines : CartOf[w] = c => OfferStands(E, reg', over', w)
  <2> SUFFICES ASSUME NEW w \in WaitLines, CartOf[w] = c PROVE OfferStands(E, reg', over', w)
    OBVIOUS
  <2>1. w = l /\ OfferStands(Database, reg, over, w)
    BY <1>1, OfferNow
  <2>2. E.cart[CartOf[w]] = "completed" /\ E.entry[w] \in {entry[w], "accepted"}
    BY <1>2, <1>3
  <2> QED BY <2>1, <2>2, RowFields DEF OfferStands, Live
<1>6. \A s \in Subjects :
         /\ held'[s] = IF s \in S
                       THEN held[s] + One("converted" = "active") - One("active" = "active")
                       ELSE held[s]
         /\ confirmed'[s] = IF s \in S THEN confirmed[s] + One(reg'[l][o] = "confirmed")
                                            - One(reg[l][o] = "confirmed") ELSE confirmed[s]
  <2>1. \A s \in Subjects : held[s] \in Nat /\ confirmed[s] \in Nat
    BY RowTypes
  <2> QED BY <1>1, <1>2, <2>1 DEF One
<1>7. (\A d \in Carts : CartGood(E, reg', over', d)) /\ HeldRight(E)
  <2>1. "active" \in HoldStates /\ "converted" \in HoldStates /\ cart'[c] # "open"
    BY <1>2 DEF HoldStates
  <2>2. \A w \in WaitLines : CartOf[w] # c => entry'[w] = entry[w] /\ over'[w] = over[w]
    BY <1>2
  <2> QED BY <1>1, <1>2, <1>4, <1>5, <1>6, <2>1, <2>2, CartMoves DEF E
<1>8. ConfirmedRight(E, reg')
  <2>1. OneRegChanges(reg, reg', l, o)
    BY DEF OneRegChanges
  <2>2. ConfirmedRight(Database, reg) /\ Database.confirmed = confirmed
    BY SeatsNow, RowFields
  <2> QED BY <1>1, <1>3, <1>6, <2>1, <2>2, ConfirmedMoves
<1> QED BY <1>7, <1>8 DEF SeatRows, E

\* A new cart has one line, and holds its places.
LEMMA StartCartSeats ==
    ASSUME LifecycleInv, SeatsRight, LifecycleInv', Clean, Given, NEW c \in Carts,
           NEW L \in SUBSET given.lines, StartCart(c, L)
    PROVE  SeatsRight'
<1> DEFINE D == [Database EXCEPT !.cart[c] = "open", !.lines[c] = L]
           held1 == [s \in Subjects |-> held[s] + Places(D, c, s)]
           row == [s \in Subjects |-> IF s \in CartSubjects(D, c) THEN "active" ELSE "none"]
           F == [D EXCEPT !.held = held1, !.hold[c] = row]
           E == Database'
<1>1. /\ cart[c] = "none" /\ c \notin WaitCarts /\ L # {} /\ Write(F)
      /\ UNCHANGED <<over, reg, invoice>> /\ \A l \in L : CartOf[l] = c
  BY DEF StartCart
<1>2. D \in Databases /\ D.lines = [lines EXCEPT ![c] = L] /\ D.hold = hold
      /\ D.cart = [cart EXCEPT ![c] = "open"] /\ D.confirmed = confirmed
      /\ D.deadline = deadline /\ D.entry = entry
  <2> DEFINE cart1 == [cart EXCEPT ![c] = "open"]
             lines1 == [lines EXCEPT ![c] = L]
  <2>1. cart1 \in [Carts -> CartStatus] /\ lines1 \in [Carts -> SUBSET Lines]
    <3>1. L \subseteq Lines
      BY InvTypes, Parameters DEF OtherTypes
    <3> QED BY <3>1, RowTypes DEF CartStatus
  <2>2. D = [Database EXCEPT !.cart = cart1, !.lines = lines1]
    BY RowFields
  <2>3. Database \in Databases
    BY InvTypes
  <2>4. D \in Databases /\ D.lines = lines1 /\ D.hold = Database.hold /\ D.cart = cart1
        /\ D.confirmed = Database.confirmed /\ D.deadline = Database.deadline
        /\ D.entry = Database.entry
    <3> HIDE DEF cart1, lines1, D
    <3> QED BY <2>1, <2>2, <2>3 DEF Databases
  <2> QED BY <2>4, RowFields
<1> HIDE DEF D
<1>3. /\ confirmed' = confirmed /\ held' = held1 /\ lines' = [lines EXCEPT ![c] = L]
      /\ cart' = [cart EXCEPT ![c] = "open"] /\ hold' = [hold EXCEPT ![c] = row]
      /\ deadline' = deadline /\ entry' = entry
  <2> HIDE DEF held1, row
  <2>1. /\ F.confirmed = D.confirmed /\ F.held = held1 /\ F.lines = D.lines /\ F.cart = D.cart
        /\ F.hold = [D.hold EXCEPT ![c] = row] /\ F.deadline = D.deadline /\ F.entry = D.entry
    BY <1>2 DEF Databases
  <2> HIDE DEF F
  <2> QED BY <1>1, <1>2, <2>1 DEF Write
<1>4. PICK l \in Lines : L = {l}
  <2>1. L \subseteq Lines /\ IsFiniteSet(L)
    BY InvTypes, Parameters, FS_Subset DEF OtherTypes
  <2>2. lines'[c] = L
    BY <1>3, RowTypes
  <2>3. Cardinality(L) <= 1 /\ Cardinality(L) \in Nat /\ Cardinality(L) # 0
    BY <1>1, <2>1, <2>2, CleanSteps, FS_EmptySet, FS_CardinalityType
  <2>4. Cardinality(L) = 1
    BY <2>3
  <2>5. \E l : L = {l}
    BY <2>1, <2>4, FS_Singleton
  <2> QED BY <2>1, <2>5
<1> DEFINE S == SubjectsOf[OfferingOf[l]]
<1>5. /\ CartOf[l] = c /\ S \subseteq Subjects /\ CartSubjects(D, c) = S
      /\ \A s : Places(D, c, s) = IF s \in S THEN 1 ELSE 0
  <2>1. D.lines[c] = {l}
    BY <1>2, <1>4, RowTypes
  <2> QED BY <1>1, <1>4, <2>1, PlacesOfLine, SubjectsOfLine
<1>6. NotThere(Database, c)
  <2>1. CartGood(Database, reg, over, c) /\ Database.cart[c] = "none"
    BY <1>1, SeatsNow, RowFields
  <2> QED BY <2>1 DEF CartGood, Holding, HoldStands
<1>7. /\ lines[c] = {} /\ deadline[c] = "ahead" /\ \A s \in Subjects : hold[c][s] = "none"
  BY <1>6, RowFields DEF NotThere
<1>8. /\ lines'[c] = {l} /\ cart'[c] = "open" /\ deadline'[c] = "ahead"
      /\ \A s \in Subjects : hold'[c][s] = IF s \in S THEN "active" ELSE "none"
      /\ \A d \in Carts \ {c} : /\ cart'[d] = cart[d] /\ lines'[d] = lines[d]
                                /\ hold'[d] = hold[d] /\ deadline'[d] = deadline[d]
  <2>1. hold'[c] = row /\ \A d \in Carts \ {c} : hold'[d] = hold[d]
    <3> HIDE DEF row
    <3> QED BY <1>3, RowTypes
  <2> QED BY <1>3, <1>4, <1>5, <1>7, <2>1, RowTypes
<1>9. \A s \in Subjects :
         held'[s] = IF s \in S THEN held[s] + One("active" = "active") - One("none" = "active")
                    ELSE held[s]
  BY <1>3, <1>5, RowTypes DEF One
<1>10. /\ E.cart = cart' /\ E.lines = lines' /\ E.hold = hold' /\ E.confirmed = confirmed'
  BY NextFields
<1> HIDE DEF E, held1, row, F
<1>11. Holding(E, reg', c, l, "active")
  BY <1>8, <1>10 DEF Holding, HoldStands
<1>12. \A w \in WaitLines : CartOf[w] # c
  BY <1>1 DEF WaitCarts
<1>13. (\A d \in Carts : CartGood(E, reg', over', d)) /\ HeldRight(E)
  <2>1. "active" \in HoldStates /\ "none" \in HoldStates
    BY DEF HoldStates
  <2>2. \A s \in S : hold[c][s] = "none"
    BY <1>5, <1>7
  <2>3. \A k \in Lines : k # l => reg'[k] = reg[k]
    BY <1>1
  <2>4. \A w \in WaitLines : CartOf[w] # c => entry'[w] = entry[w] /\ over'[w] = over[w]
    BY <1>1, <1>3
  <2>5. \A w \in WaitLines : CartOf[w] = c => OfferStands(E, reg', over', w)
    BY <1>12
  <2>6. cart'[c] = "open" => deadline'[c] # "extended"
    BY <1>8
  <2> QED BY <1>5, <1>7, <1>8, <1>9, <1>11, <2>1, <2>2, <2>3, <2>4, <2>5, <2>6, CartMoves DEF E
<1>14. ConfirmedRight(E, reg')
  <2>1. ConfirmedRight(Database, reg) /\ E.confirmed = Database.confirmed
    BY <1>3, <1>10, SeatsNow, RowFields
  <2> QED BY <1>1, <2>1, ConfirmedStays
<1>15. InvoicesStand'
  <2>1. \A d \in Carts : cart'[d] \in {"none", "open"} => cart[d] \in {"none", "open"}
    BY <1>1, <1>8
  <2> QED BY <1>1, <2>1, SeatsNow, InvoicesGo
<1> QED BY <1>13, <1>14, <1>15 DEF SeatsRight, SeatRows, E

\* A quote: the places of a free cart are confirmed, those of any other stay held.
LEMMA QuoteSeats ==
    ASSUME LifecycleInv, SeatsRight, LifecycleInv', NEW c \in Carts, NEW free \in BOOLEAN,
           Quote(c, free)
    PROVE  SeatsRight'
<1> DEFINE approval == \E l \in lines[c] : OfferingOf[l] \in RequiresApproval
           straight == free /\ ~approval
           st == IF straight THEN "confirmed"
                 ELSE IF approval THEN "pending_approval" ELSE "pending_payment"
           E == Database'
<1>1. /\ cart[c] = "open" /\ Confirmable(c) /\ deadline[c] \in {"ahead", "extended"}
      /\ invoice' = [invoice EXCEPT ![c] = IF free THEN "free" ELSE "open"]
      /\ over' = over
  BY DEF Quote
<1>2. reg' = [l \in Lines |-> [o \in Offerings |->
                 IF l \in lines[c] /\ o = OfferingOf[l] THEN st ELSE reg[l][o]]]
  <2>1. CASE straight
    BY <2>1 DEF Quote
  <2>2. CASE ~straight
    BY <2>2 DEF Quote
  <2> QED BY <2>1, <2>2
<1>3. PICK l \in Lines, h \in HoldStates :
         /\ h # "none" /\ Holding(Database, reg, c, l, h) /\ CartOf[l] = c
         /\ lines[c] = {l} /\ OfferingOf[l] \in Offerings
         /\ \A s \in Subjects : hold[c][s] = IF s \in SubjectsOf[OfferingOf[l]] THEN h ELSE "none"
         /\ SubjectsOf[OfferingOf[l]] \subseteq Subjects
         /\ OfferingOf[l] \in SubjectsOf[OfferingOf[l]]
         /\ CartSubjects(Database, c) = SubjectsOf[OfferingOf[l]]
         /\ \A w \in WaitLines : CartOf[w] = c => w = l
  BY <1>1, LineThere
<1> DEFINE o == OfferingOf[l]
           S == SubjectsOf[o]
<1>4. h = "active"
  BY <1>1, <1>3 DEF Confirmable
<1>5. \A p \in Offerings : reg[l][p] = "none"
  <2>1. Unquoted(Database, reg)
    BY SeatsNow DEF Rows
  <2> QED BY <1>1, <1>3, <2>1, RowFields DEF Unquoted
<1>6. /\ reg'[l][o] = st /\ st \in Live
      /\ \A p \in Offerings : p = o \/ (reg[l][p] = "none" /\ reg'[l][p] = "none")
  BY <1>2, <1>3, <1>5 DEF Live
<1>7. \A k \in Lines : k # l => reg'[k] = reg[k]
  <2> SUFFICES ASSUME NEW k \in Lines, k # l PROVE reg'[k] = reg[k]
    OBVIOUS
  <2>1. \A p \in Offerings : reg'[k][p] = reg[k][p]
    BY <1>2, <1>3
  <2> QED BY <2>1, SameRegs
<1>8. SeatRows(E, reg', over') /\ cart'[c] \in {"completed", "awaiting_payment"}
      /\ \A d \in Carts \ {c} : cart'[d] = cart[d]
  <2>1. CASE straight
    <3>1. Write(ConfirmPlaces(Database, c))
      BY <2>1 DEF Quote
    <3>2. \A d \in Carts : cart'[d] = IF d = c THEN "completed" ELSE cart[d]
      BY <3>1, ConfirmFields
    <3>3. reg[l][o] # "confirmed" /\ reg'[l][o] = "confirmed"
      BY <1>3, <1>5, <1>6, <2>1
    <3> HIDE DEF approval, straight, st
    <3>4. SeatRows(E, reg', over')
      BY <1>1, <1>3, <1>6, <1>7, <3>1, <3>3, ConfirmSeats
    <3> QED BY <3>2, <3>4
  <2>2. CASE ~straight
    <3> DEFINE A == [Database EXCEPT !.cart[c] = "awaiting_payment",
                                     !.deadline[c] = IF approval THEN "extended" ELSE @]
    <3>1. Write(A)
      BY <2>2 DEF Quote
    <3> HIDE DEF approval, straight
    <3>2. /\ confirmed' = confirmed /\ held' = held /\ lines' = lines /\ hold' = hold
          /\ entry' = entry /\ cart' = [cart EXCEPT ![c] = "awaiting_payment"]
          /\ \A d \in Carts \ {c} : deadline'[d] = deadline[d]
      BY <3>1, RowTypes DEF Write, Database
    <3>3. st \in Pending
      BY <2>2 DEF Pending, straight
    <3> HIDE DEF st
    <3>4. cart'[c] = "awaiting_payment" /\ \A d \in Carts \ {c} : cart'[d] = cart[d]
      BY <3>2, RowTypes
    <3>5. /\ E.cart = cart' /\ E.lines = lines' /\ E.hold = hold' /\ E.confirmed = confirmed'
          /\ E.deadline = deadline' /\ E.entry = entry'
      BY NextFields
    <3> HIDE DEF E
    <3>6. Holding(E, reg', c, l, "active")
      BY <1>3, <1>4, <1>6, <3>2, <3>3, <3>4, <3>5 DEF Holding, HoldStands
    <3>7. \A w \in WaitLines : CartOf[w] = c => OfferStands(E, reg', over', w)
      <4> SUFFICES ASSUME NEW w \in WaitLines, CartOf[w] = c PROVE OfferStands(E, reg', over', w)
        OBVIOUS
      <4>1. w = l /\ OfferStands(Database, reg, over, w)
        BY <1>3, OfferNow
      <4>2. E.entry[w] = Database.entry[w] /\ E.cart[CartOf[w]] = "awaiting_payment"
            /\ Database.cart[CartOf[w]] = "open" /\ Database.deadline[CartOf[w]] = deadline[c]
        BY <1>1, <3>2, <3>4, <3>5, RowFields
      <4> QED BY <1>1, <1>6, <4>1, <4>2 DEF OfferStands
    <3>8. \A s \in Subjects :
             held'[s] = IF s \in S THEN held[s] + One("active" = "active")
                                               - One("active" = "active") ELSE held[s]
      BY <3>2, RowTypes DEF One
    <3>9. (\A d \in Carts : CartGood(E, reg', over', d)) /\ HeldRight(E)
      <4>1. "active" \in HoldStates
        BY DEF HoldStates
      <4>2. \A s \in S : hold[c][s] = "active"
        BY <1>3, <1>4
      <4>3. \A d \in Carts \ {c} : /\ cart'[d] = cart[d] /\ lines'[d] = lines[d]
                                   /\ hold'[d] = hold[d] /\ deadline'[d] = deadline[d]
        BY <3>2, <3>4
      <4>4. \A w \in WaitLines : CartOf[w] # c => entry'[w] = entry[w] /\ over'[w] = over[w]
        BY <1>1, <3>2
      <4>5. cart'[c] = "open" => deadline'[c] # "extended"
        BY <3>4
      <4> QED BY <1>3, <1>7, <3>6, <3>7, <3>8, <4>1, <4>2, <4>3, <4>4, <4>5, CartMoves DEF E
    <3>10. ConfirmedRight(E, reg')
      <4>1. OneRegChanges(reg, reg', l, o)
        BY <1>6, <1>7 DEF OneRegChanges
      <4>2. ConfirmedRight(Database, reg) /\ Database.confirmed = confirmed
        BY SeatsNow, RowFields
      <4>3. reg[l][o] # "confirmed" /\ reg'[l][o] # "confirmed"
        BY <1>3, <1>5, <1>6, <3>3 DEF Pending
      <4>4. \A s \in Subjects :
               E.confirmed[s] = IF s \in S
                                THEN Database.confirmed[s] + One(reg'[l][o] = "confirmed")
                                                - One(reg[l][o] = "confirmed")
                                ELSE Database.confirmed[s]
        BY <3>2, <3>5, <4>2, <4>3, RowTypes DEF One
      <4> QED BY <1>3, <4>1, <4>2, <4>4, ConfirmedMoves
    <3> QED BY <3>4, <3>9, <3>10 DEF SeatRows
  <2> QED BY <2>1, <2>2
<1> HIDE DEF approval, straight, st
<1>9. InvoicesStand'
  <2> SUFFICES ASSUME NEW d \in Carts
               PROVE  /\ cart'[d] \in {"none", "open"} => invoice'[d] = "none"
                      /\ invoice'[d] = "processing" =>
                            \A k \in Lines, p \in Offerings :
                               CartOf[k] = d => reg'[k][p] # "pending_approval"
    BY DEF InvoicesStand
  <2>1. CASE d = c
    <3>1. invoice'[c] # "processing"
      BY <1>1, InvTypes DEF OtherTypes
    <3> QED BY <1>8, <2>1, <3>1
  <2>2. CASE d # c
    <3>1. invoice'[d] = invoice[d]
      BY <1>1, <2>2, InvTypes DEF OtherTypes
    <3>2. \A k \in Lines : CartOf[k] = d => reg'[k] = reg[k]
      BY <1>3, <1>7, <2>2
    <3> QED BY <1>8, <2>2, <3>1, <3>2, SeatsNow DEF InvoicesStand
  <2> QED BY <2>1, <2>2
<1> QED BY <1>8, <1>9 DEF SeatsRight, E

\* A payment starts when no registration of the cart waits for approval.
LEMMA StartPaymentSeats ==
    ASSUME LifecycleInv, SeatsRight, NEW c \in Carts, StartPayment(c)
    PROVE  SeatsRight'
<1>1. /\ UNCHANGED <<counts, carts, entry, over, reg>> /\ cart[c] = "awaiting_payment"
      /\ Registered(c, {"pending_approval"}) = {}
      /\ invoice' = [invoice EXCEPT ![c] = "processing"]
  BY DEF StartPayment, waitlist
<1>2. Database' = Database
  BY <1>1, SameDatabase
<1>3. \A l \in Lines, o \in Offerings : CartOf[l] = c => reg[l][o] # "pending_approval"
  BY <1>1, NoneRegistered
<1>4. \A d \in Carts : invoice'[d] = IF d = c THEN "processing" ELSE invoice[d]
  BY <1>1, InvTypes DEF OtherTypes
<1>5. InvoicesStand'
  <2>1. cart' = cart /\ reg' = reg
    BY <1>1 DEF carts
  <2> QED BY <1>1, <1>3, <1>4, <2>1, SeatsNow DEF InvoicesStand
<1> QED BY <1>1, <1>2, <1>5, SeatsNow DEF SeatsRight

\* The places of a paid cart are confirmed with its registration.
LEMMA PaymentConfirmsSeats ==
    ASSUME LifecycleInv, SeatsRight, LifecycleInv', NEW c \in Carts, NEW settled \in BOOLEAN,
           PaymentConfirms(c, settled)
    PROVE  SeatsRight'
<1>1. /\ invoice[c] = "processing" /\ over' = over
      /\ \A d \in Carts : \/ invoice'[d] = invoice[d]
                          \/ d = c /\ invoice'[d] = "paid"
  BY InvTypes DEF OtherTypes, PaymentConfirms
<1>2. CASE ~Confirmable(c)
  <2>1. UNCHANGED <<counts, carts, entry, reg>>
    BY <1>2 DEF PaymentConfirms
  <2>2. Database' = Database
    BY <2>1, SameDatabase
  <2>3. InvoicesStand'
    <3>1. cart' = cart /\ reg' = reg
      BY <2>1 DEF carts
    <3> QED BY <1>1, <3>1, SeatsNow, InvoicesGo
  <2> QED BY <1>1, <2>1, <2>2, <2>3, SeatsNow DEF SeatsRight
<1>3. CASE Confirmable(c)
  <2>1. Write(ConfirmPlaces(Database, c)) /\ reg' = Restate(c, "pending_payment", "confirmed")
    BY <1>3 DEF PaymentConfirms
  <2>2. /\ cart[c] = "awaiting_payment"
        /\ \A k \in Lines, p \in Offerings : CartOf[k] = c => reg[k][p] # "pending_approval"
    BY <1>1, <1>3, SeatsNow DEF InvoicesStand, Confirmable
  <2>3. PICK l \in Lines, h \in HoldStates :
           /\ h # "none" /\ CartOf[l] = c /\ lines[c] = {l} /\ OfferingOf[l] \in Offerings
           /\ \A s \in Subjects :
                 hold[c][s] = IF s \in SubjectsOf[OfferingOf[l]] THEN h ELSE "none"
           /\ SubjectsOf[OfferingOf[l]] \subseteq Subjects
           /\ OfferingOf[l] \in SubjectsOf[OfferingOf[l]]
           /\ HoldStands(cart[c], h, reg[l], OfferingOf[l])
           /\ CartSubjects(Database, c) = SubjectsOf[OfferingOf[l]]
           /\ \A k \in Lines : CartOf[k] = c /\ k # l => \A o \in Offerings : reg[k][o] = "none"
    BY <2>2, LineThere
  <2> DEFINE o == OfferingOf[l]
  <2>4. h = "active"
    BY <1>3, <2>3 DEF Confirmable
  <2>5. reg[l][o] = "pending_payment" /\ \A p \in Offerings \ {o} : reg[l][p] = "none"
    BY <2>2, <2>3, <2>4 DEF HoldStands, Pending
  <2>6. \A k \in Lines, p \in Offerings :
           reg'[k][p] = IF CartOf[k] = c /\ reg[k][p] = "pending_payment" THEN "confirmed"
                        ELSE reg[k][p]
    BY <2>1 DEF Restate
  <2>7. /\ reg[l][o] # "confirmed" /\ reg'[l][o] = "confirmed"
        /\ \A p \in Offerings : p = o \/ (reg[l][p] = "none" /\ reg'[l][p] = "none")
    BY <2>3, <2>5, <2>6
  <2>8. \A k \in Lines : k # l => reg'[k] = reg[k]
    <3> SUFFICES ASSUME NEW k \in Lines, k # l PROVE reg'[k] = reg[k]
      OBVIOUS
    <3>1. \A p \in Offerings : reg'[k][p] = reg[k][p]
      BY <2>3, <2>6
    <3> QED BY <3>1, SameRegs
  <2>9. SeatRows(Database', reg', over')
    BY <1>1, <1>3, <2>1, <2>3, <2>7, <2>8, ConfirmSeats
  <2>10. InvoicesStand'
    <3>1. \A d \in Carts : cart'[d] = IF d = c THEN "completed" ELSE cart[d]
      BY <2>1, ConfirmFields
    <3>2. \A d \in Carts : cart'[d] \in {"none", "open"} => cart[d] \in {"none", "open"}
      BY <3>1
    <3>3. \A k \in Lines, p \in Offerings : reg'[k][p] = "pending_approval" =>
             \E q \in Offerings : reg[k][q] = "pending_approval"
      BY <2>6
    <3> QED BY <1>1, <3>2, <3>3, SeatsNow, InvoicesGo
  <2> QED BY <2>9, <2>10 DEF SeatsRight
<1> QED BY <1>2, <1>3

\* A failed payment takes the confirmed place of the cart's line back to a
\* held one, with its registration.
LEMMA PaymentFailsSeats ==
    ASSUME LifecycleInv, SeatsRight, LifecycleInv', Clean, Given, NEW c \in Carts,
           PaymentFails(c)
    PROVE  SeatsRight'
<1>1. /\ invoice[c] = "processing" /\ over' = over
      /\ \A d \in Carts : invoice'[d] = IF d = c THEN "open" ELSE invoice[d]
      /\ \A k \in Lines, p \in Offerings :
            CartOf[k] = c => reg[k][p] \notin Closed /\ reg[k][p] # "pending_approval"
  <2>1. invoice[c] = "processing" /\ over' = over /\ invoice' = [invoice EXCEPT ![c] = "open"]
    BY DEF PaymentFails
  <2>2. Registered(c, Closed) = {}
    BY CleanSteps
  <2>3. \A k \in Lines, p \in Offerings : CartOf[k] = c => reg[k][p] \notin Closed
    BY <2>2, NoneRegistered
  <2>4. \A k \in Lines, p \in Offerings : CartOf[k] = c => reg[k][p] # "pending_approval"
    BY <2>1, SeatsNow DEF InvoicesStand
  <2> QED BY <2>1, <2>3, <2>4, InvTypes DEF OtherTypes
<1>2. CASE ~Keepable(c)
  <2>1. UNCHANGED <<counts, carts, entry, reg>>
    BY <1>2 DEF PaymentFails
  <2>2. Database' = Database
    BY <2>1, SameDatabase
  <2>3. InvoicesStand'
    <3>1. cart' = cart /\ reg' = reg
      BY <2>1 DEF carts
    <3>2. \A d \in Carts : \/ invoice'[d] = invoice[d]
                           \/ invoice[d] # "none" /\ invoice'[d] # "processing"
      BY <1>1
    <3> QED BY <3>1, <3>2, SeatsNow, InvoicesGo
  <2> QED BY <1>1, <2>1, <2>2, <2>3, SeatsNow DEF SeatsRight
<1>3. CASE Keepable(c)
  <2> DEFINE back(s) == IF hold[c][s] = "converted" THEN Places(Database, c, s) ELSE 0
             row == [s \in Subjects |-> IF hold[c][s] = "none" THEN "none" ELSE "active"]
             confirmed1 == [s \in Subjects |-> confirmed[s] - back(s)]
             held1 == [s \in Subjects |-> held[s] + back(s)]
             E == Database'
  <2>1. PICK l \in Lines, h \in HoldStates :
           /\ h # "none" /\ CartOf[l] = c /\ lines[c] = {l} /\ OfferingOf[l] \in Offerings
           /\ \A s \in Subjects :
                 hold[c][s] = IF s \in SubjectsOf[OfferingOf[l]] THEN h ELSE "none"
           /\ SubjectsOf[OfferingOf[l]] \subseteq Subjects
           /\ OfferingOf[l] \in SubjectsOf[OfferingOf[l]]
           /\ HoldStands(cart[c], h, reg[l], OfferingOf[l])
           /\ CartSubjects(Database, c) = SubjectsOf[OfferingOf[l]]
           /\ \A s : Places(Database, c, s) = IF s \in SubjectsOf[OfferingOf[l]] THEN 1 ELSE 0
           /\ \A k \in Lines : CartOf[k] = c /\ k # l => \A o \in Offerings : reg[k][o] = "none"
           /\ \A w \in WaitLines : CartOf[w] = c => w = l
    <3>1. cart[c] # "none"
      BY <1>3 DEF Keepable
    <3> QED BY <3>1, LineThere
  <2> DEFINE o == OfferingOf[l]
             S == SubjectsOf[o]
  <2>2. h \in {"active", "converted"}
    BY <1>3, <2>1 DEF Keepable, HoldStates
  <2>3. /\ reg[l][o] = IF h = "active" THEN "pending_payment" ELSE "confirmed"
        /\ \A p \in Offerings \ {o} : reg[l][p] = "none"
    <3>1. cart[c] # "open"
      BY <1>3 DEF Keepable
    <3> QED BY <1>1, <2>1, <2>2, <3>1 DEF HoldStands, Pending
  <2>4. reg' = Restate(c, "confirmed", "pending_payment")
    BY <1>3 DEF PaymentFails
  <2>5. \A k \in Lines, p \in Offerings :
           reg'[k][p] = IF CartOf[k] = c /\ reg[k][p] = "confirmed" THEN "pending_payment"
                        ELSE reg[k][p]
    BY <2>4 DEF Restate
  <2>6. /\ reg'[l][o] = "pending_payment"
        /\ \A p \in Offerings : p = o \/ (reg[l][p] = "none" /\ reg'[l][p] = "none")
    BY <2>1, <2>2, <2>3, <2>5
  <2>7. \A k \in Lines : k # l => reg'[k] = reg[k]
    <3> SUFFICES ASSUME NEW k \in Lines, k # l PROVE reg'[k] = reg[k]
      OBVIOUS
    <3>1. \A p \in Offerings : reg'[k][p] = reg[k][p]
      BY <2>1, <2>5
    <3> QED BY <3>1, SameRegs
  <2>8. /\ confirmed' = confirmed1 /\ held' = held1 /\ hold' = [hold EXCEPT ![c] = row]
        /\ cart' = [cart EXCEPT ![c] = "awaiting_payment"]
        /\ deadline' = [deadline EXCEPT ![c] = "extended"]
        /\ lines' = lines /\ entry' = entry
    <3> DEFINE F == [Database EXCEPT !.confirmed = confirmed1, !.held = held1, !.hold[c] = row,
                                     !.cart[c] = "awaiting_payment", !.deadline[c] = "extended"]
    <3>1. Write(F)
      BY <1>3 DEF PaymentFails
    <3> HIDE DEF confirmed1, held1, row
    <3> QED BY <3>1 DEF Write, Database
  <2>9. /\ cart'[c] = "awaiting_payment"
        /\ \A d \in Carts \ {c} : /\ cart'[d] = cart[d] /\ lines'[d] = lines[d]
                                  /\ hold'[d] = hold[d] /\ deadline'[d] = deadline[d]
    <3> HIDE DEF row
    <3> QED BY <2>8, RowTypes
  <2>10. \A s \in Subjects : hold'[c][s] = IF s \in S THEN "active" ELSE "none"
    <3>1. hold'[c] = row
      <4> HIDE DEF row
      <4> QED BY <2>8, RowTypes
    <3> QED BY <2>1, <3>1
  <2>11. \A s \in Subjects :
            /\ held'[s] = IF s \in S THEN held[s] + One("active" = "active") - One(h = "active")
                          ELSE held[s]
            /\ confirmed'[s] = IF s \in S THEN confirmed[s] + One(reg'[l][o] = "confirmed")
                                               - One(reg[l][o] = "confirmed") ELSE confirmed[s]
    <3> SUFFICES ASSUME NEW s \in Subjects
                 PROVE  /\ held'[s] = IF s \in S THEN held[s] + One("active" = "active")
                                                             - One(h = "active") ELSE held[s]
                        /\ confirmed'[s] = IF s \in S
                                           THEN confirmed[s] + One(reg'[l][o] = "confirmed")
                                                - One(reg[l][o] = "confirmed") ELSE confirmed[s]
      OBVIOUS
    <3>1. back(s) = IF s \in S /\ h = "converted" THEN 1 ELSE 0
      BY <2>1
    <3>2. held'[s] = held[s] + back(s) /\ confirmed'[s] = confirmed[s] - back(s)
      <4> HIDE DEF back
      <4> QED BY <2>8
    <3>3. held[s] \in Nat /\ confirmed[s] \in Nat
      BY RowTypes
    <3>4. /\ One("active" = "active") = 1 /\ One(h = "active") = IF h = "active" THEN 1 ELSE 0
          /\ One(reg'[l][o] = "confirmed") = 0
          /\ One(reg[l][o] = "confirmed") = IF h = "active" THEN 0 ELSE 1
      BY <2>2, <2>3, <2>6 DEF One
    <3> HIDE DEF back
    <3> QED BY <2>2, <3>1, <3>2, <3>3, <3>4
  <2> HIDE DEF confirmed1, held1, row, back
  <2>12. /\ E.cart = cart' /\ E.lines = lines' /\ E.hold = hold' /\ E.confirmed = confirmed'
         /\ E.deadline = deadline' /\ E.entry = entry'
    BY NextFields
  <2> HIDE DEF E
  <2>13. Holding(E, reg', c, l, "active")
    BY <2>1, <2>6, <2>8, <2>9, <2>10, <2>12 DEF Holding, HoldStands, Pending
  <2>14. \A w \in WaitLines : CartOf[w] = c => OfferStands(E, reg', over', w)
    <3> SUFFICES ASSUME NEW w \in WaitLines, CartOf[w] = c PROVE OfferStands(E, reg', over', w)
      OBVIOUS
    <3>1. w = l /\ OfferStands(Database, reg, over, w)
      BY <2>1, OfferNow
    <3>2. /\ E.entry[w] = entry[w] /\ Database.entry[w] = entry[w]
          /\ E.cart[CartOf[w]] = "awaiting_payment" /\ Database.cart[CartOf[w]] = cart[c]
          /\ Database.deadline[CartOf[w]] = deadline[c]
      BY <2>8, <2>9, <2>12, RowFields
    <3>3. entry[w] = "offered" => ~over[w]
      <4> SUFFICES ASSUME entry[w] = "offered", over[w] PROVE FALSE
        OBVIOUS
      <4>1. <<l, o>> \in Registered(c, Live)
        BY <2>1, <2>2, <2>3 DEF Registered, Live
      <4>2. over'[w] => cart'[CartOf[w]] = "completed"
        BY <3>1, <4>1, CleanSteps
      <4> QED BY <1>1, <2>9, <4>2
    <3> QED BY <1>1, <2>6, <3>1, <3>2, <3>3 DEF OfferStands, Live
  <2>15. (\A d \in Carts : CartGood(E, reg', over', d)) /\ HeldRight(E)
    <3>1. "active" \in HoldStates /\ cart'[c] # "open"
      BY <2>9 DEF HoldStates
    <3>2. \A s \in S : hold[c][s] = h
      BY <2>1
    <3>3. \A w \in WaitLines : CartOf[w] # c => entry'[w] = entry[w] /\ over'[w] = over[w]
      BY <1>1, <2>8
    <3> QED BY <2>1, <2>7, <2>9, <2>11, <2>13, <2>14, <3>1, <3>2, <3>3, CartMoves DEF E
  <2>16. ConfirmedRight(E, reg')
    <3>1. OneRegChanges(reg, reg', l, o)
      BY <2>6, <2>7 DEF OneRegChanges
    <3>2. ConfirmedRight(Database, reg) /\ Database.confirmed = confirmed
      BY SeatsNow, RowFields
    <3> QED BY <2>1, <2>11, <2>12, <3>1, <3>2, ConfirmedMoves
  <2>17. InvoicesStand'
    <3>1. \A d \in Carts : cart'[d] \in {"none", "open"} => cart[d] \in {"none", "open"}
      BY <2>9
    <3>2. \A k \in Lines, p \in Offerings : reg'[k][p] = "pending_approval" =>
             \E q \in Offerings : reg[k][q] = "pending_approval"
      BY <2>5
    <3>3. \A d \in Carts : \/ invoice'[d] = invoice[d]
                           \/ invoice[d] # "none" /\ invoice'[d] # "processing"
      BY <1>1
    <3> QED BY <3>1, <3>2, <3>3, SeatsNow, InvoicesGo
  <2> QED BY <2>15, <2>16, <2>17 DEF SeatsRight, SeatRows, E
<1> QED BY <1>2, <1>3

\* The job releases the holds of a cart that was not quoted.
LEMMA HoldExpiryJobSeats ==
    ASSUME LifecycleInv, SeatsRight, LifecycleInv', Clean, Given, NEW c \in Carts,
           HoldExpiryJob(c)
    PROVE  SeatsRight'
<1> DEFINE D == MarkActive(Database, c, "released")
           row == [s \in Subjects |-> IF hold[c][s] = "active" THEN "released" ELSE hold[c][s]]
           held1 == [s \in Subjects |->
                        IF hold[c][s] = "active" THEN held[s] - Places(D, c, s) ELSE held[s]]
           E == Database'
<1>1. /\ ActiveHolds(Database, c) # {} /\ UNCHANGED <<over, reg, invoice>>
      /\ cart[c] \in {"open", "expired", "awaiting_payment"}
  BY DEF HoldExpiryJob
<1>2. PICK l \in Lines, h \in HoldStates :
         /\ h # "none" /\ CartOf[l] = c /\ lines[c] = {l} /\ OfferingOf[l] \in Offerings
         /\ \A s \in Subjects :
               hold[c][s] = IF s \in SubjectsOf[OfferingOf[l]] THEN h ELSE "none"
         /\ SubjectsOf[OfferingOf[l]] \subseteq Subjects
         /\ HoldStands(cart[c], h, reg[l], OfferingOf[l])
         /\ \A s : Places(Database, c, s) = IF s \in SubjectsOf[OfferingOf[l]] THEN 1 ELSE 0
         /\ \A w \in WaitLines : CartOf[w] = c => w = l
  BY <1>1, LineThere
<1> DEFINE o == OfferingOf[l]
           S == SubjectsOf[o]
<1>3. h = "active"
  BY <1>1, <1>2, RowFields DEF ActiveHolds
<1>4. cart[c] = "open" /\ \A w \in WaitLines : CartOf[w] = c => entry[w] # "offered"
  <2>1. Registered(c, Live) = {} /\ OfferOf(c) = {}
    BY CleanSteps
  <2>2. reg[l][o] \notin Live
    BY <1>2, <2>1, NoneRegistered
  <2> QED BY <1>2, <1>3, <2>1, <2>2 DEF HoldStands, Pending, Live, OfferOf
<1>5. \A p \in Offerings : reg[l][p] = "none"
  <2>1. Unquoted(Database, reg)
    BY SeatsNow DEF Rows
  <2> QED BY <1>2, <1>4, <2>1, RowFields DEF Unquoted
<1>6. /\ held' = held1 /\ hold' = [hold EXCEPT ![c] = row]
      /\ cart' = [cart EXCEPT ![c] = "expired"]
      /\ confirmed' = confirmed /\ deadline' = deadline /\ lines' = lines /\ entry' = entry
  <2> DEFINE F == [D EXCEPT !.held = held1, !.cart[c] = IF @ = "open" THEN "expired" ELSE @]
  <2>1. Write(F)
    BY DEF HoldExpiryJob
  <2>2. D = [Database EXCEPT !.hold = [hold EXCEPT ![c] = row]]
    BY RowFields DEF MarkActive
  <2> HIDE DEF held1, row, D
  <2>3. F = [Database EXCEPT !.hold = [hold EXCEPT ![c] = row], !.held = held1,
                             !.cart = [cart EXCEPT ![c] = "expired"]]
    BY <1>4, <2>2, RowTypes DEF Database
  <2> HIDE DEF F
  <2> QED BY <2>1, <2>3 DEF Write, Database
<1>7. \A s : Places(D, c, s) = Places(Database, c, s)
  BY DEF MarkActive, Database, Places, In
<1>8. \A s \in Subjects :
         held'[s] = IF s \in S THEN held[s] + One("released" = "active") - One("active" = "active")
                    ELSE held[s]
  <2>1. \A s \in Subjects : held'[s] = IF hold[c][s] = "active" THEN held[s] - Places(D, c, s)
                                       ELSE held[s]
    BY <1>6
  <2> HIDE DEF D
  <2> QED BY <1>2, <1>3, <1>7, <2>1, RowTypes DEF One
<1>9. /\ cart'[c] = "expired"
      /\ \A d \in Carts \ {c} : /\ cart'[d] = cart[d] /\ lines'[d] = lines[d]
                                /\ hold'[d] = hold[d] /\ deadline'[d] = deadline[d]
  <2> HIDE DEF row
  <2> QED BY <1>6, RowTypes
<1>10. \A s \in Subjects : hold'[c][s] = IF s \in S THEN "released" ELSE "none"
  <2>1. hold'[c] = row
    <3> HIDE DEF row
    <3> QED BY <1>6, RowTypes
  <2> QED BY <1>2, <1>3, <2>1
<1>11. /\ E.cart = cart' /\ E.lines = lines' /\ E.hold = hold' /\ E.confirmed = confirmed'
       /\ E.entry = entry'
  BY NextFields
<1> HIDE DEF E, D, row, held1
<1>12. Holding(E, reg', c, l, "released")
  BY <1>1, <1>2, <1>5, <1>6, <1>9, <1>10, <1>11 DEF Holding, HoldStands
<1>13. \A w \in WaitLines : CartOf[w] = c => OfferStands(E, reg', over', w)
  BY <1>1, <1>4, <1>6, <1>11, OfferNow, RowFields DEF OfferStands
<1>14. (\A d \in Carts : CartGood(E, reg', over', d)) /\ HeldRight(E)
  <2>1. "active" \in HoldStates /\ "released" \in HoldStates /\ cart'[c] # "open"
    BY <1>9 DEF HoldStates
  <2>2. \A s \in S : hold[c][s] = "active"
    BY <1>2, <1>3
  <2>3. \A w \in WaitLines : CartOf[w] # c => entry'[w] = entry[w] /\ over'[w] = over[w]
    BY <1>1, <1>6
  <2>4. \A k \in Lines : k # l => reg'[k] = reg[k]
    BY <1>1
  <2> QED BY <1>2, <1>8, <1>9, <1>12, <1>13, <2>1, <2>2, <2>3, <2>4, CartMoves DEF E
<1>15. ConfirmedRight(E, reg')
  <2>1. ConfirmedRight(Database, reg) /\ E.confirmed = Database.confirmed
    BY <1>6, <1>11, SeatsNow, RowFields
  <2> QED BY <1>1, <2>1, ConfirmedStays
<1>16. InvoicesStand'
  <2>1. \A d \in Carts : cart'[d] \in {"none", "open"} => cart[d] \in {"none", "open"}
    BY <1>9
  <2> QED BY <1>1, <2>1, SeatsNow, InvoicesGo
<1> QED BY <1>14, <1>15, <1>16 DEF SeatsRight, SeatRows, E

\* A deadline passes: an offer that runs out with it was not quoted.
LEMMA DeadlinePassesSeats ==
    ASSUME LifecycleInv, SeatsRight, LifecycleInv', Clean, Given, NEW c \in Carts,
           DeadlinePasses(c)
    PROVE  SeatsRight'
<1> DEFINE E == Database'
<1>1. /\ cart[c] \in {"open", "awaiting_payment"} \/ ActiveHolds(Database, c) # {}
      /\ deadline' = [deadline EXCEPT ![c] = IF @ = "passed" THEN "overdue" ELSE "passed"]
      /\ \A w \in WaitLines : over'[w] = (over[w] \/ (CartOf[w] = c /\ entry[w] = "offered"))
      /\ UNCHANGED <<counts, cart, lines, hold, entry, reg, invoice>>
  BY DEF DeadlinePasses
<1>2. cart[c] # "none"
  <2>1. CartGood(Database, reg, over, c)
    BY SeatsNow
  <2>2. ~NotThere(Database, c)
    BY <1>1, RowFields DEF NotThere, ActiveHolds
  <2> QED BY <2>1, <2>2, RowFields DEF CartGood, Holding, HoldStands
<1>3. PICK l \in Lines, h \in HoldStates :
         /\ h # "none" /\ CartOf[l] = c /\ lines[c] = {l} /\ OfferingOf[l] \in Offerings
         /\ Holding(Database, reg, c, l, h) /\ SubjectsOf[OfferingOf[l]] \subseteq Subjects
         /\ \A s \in Subjects :
               hold[c][s] = IF s \in SubjectsOf[OfferingOf[l]] THEN h ELSE "none"
         /\ \A w \in WaitLines : CartOf[w] = c => w = l
  BY <1>2, LineThere
<1>4. /\ deadline'[c] \in {"passed", "overdue"}
      /\ \A d \in Carts \ {c} : /\ cart'[d] = cart[d] /\ lines'[d] = lines[d]
                                /\ hold'[d] = hold[d] /\ deadline'[d] = deadline[d]
  BY <1>1, RowTypes
<1>5. /\ E.cart = cart /\ E.lines = lines /\ E.hold = hold /\ E.confirmed = confirmed
      /\ E.entry = entry /\ E.deadline = deadline'
  BY <1>1, NextFields DEF counts
<1> HIDE DEF E
<1>6. Holding(E, reg', c, l, h)
  BY <1>1, <1>3, <1>5, RowFields DEF Holding
<1>7. \A w \in WaitLines : CartOf[w] = c => OfferStands(E, reg', over', w)
  <2> SUFFICES ASSUME NEW w \in WaitLines, CartOf[w] = c PROVE OfferStands(E, reg', over', w)
    OBVIOUS
  <2>1. w = l /\ OfferStands(Database, reg, over, w)
    BY <1>3, OfferNow
  <2>2. ASSUME entry[w] = "offered"
        PROVE  cart[c] \in {"open", "completed"}
    <3> SUFFICES ASSUME cart[c] \notin {"open", "completed"} PROVE FALSE
      OBVIOUS
    <3>1. reg[w][OfferingOf[w]] \in Live
      BY <2>1, <2>2, RowFields DEF OfferStands
    <3>2. Registered(c, Live) # {}
      BY <1>3, <2>1, <3>1, NoneRegistered
    <3>3. over'[w] => cart'[CartOf[w]] = "completed"
      BY <2>2, <3>2, CleanSteps
    <3> QED BY <1>1, <2>2, <3>3
  <2>3. over'[w] = (over[w] \/ entry[w] = "offered")
    BY <1>1
  <2>4. over[w] \in BOOLEAN
    BY InvTypes DEF OtherTypes
  <2>5. /\ entry[w] \in {"none", "waiting"} => ~over[w]
        /\ entry[w] = "offered" =>
              /\ cart[c] \in {"open", "awaiting_payment", "completed"}
              /\ cart[c] # "open" => reg[w][OfferingOf[w]] \in Live
    BY <2>1, RowFields DEF OfferStands
  <2>6. /\ entry[w] \in {"none", "waiting"} => ~over'[w]
        /\ entry[w] = "offered" /\ over'[w] =>
              cart[c] = "completed" \/ (cart[c] = "open" /\ deadline'[c] \in {"passed", "overdue"})
    BY <1>4, <2>2, <2>3, <2>4, <2>5
  <2> QED BY <1>1, <1>5, <2>5, <2>6 DEF OfferStands
<1>8. \A s \in Subjects :
         held'[s] = IF s \in SubjectsOf[OfferingOf[l]]
                    THEN held[s] + One(h = "active") - One(h = "active") ELSE held[s]
  <2>1. held' = held /\ \A s \in Subjects : held[s] \in Nat
    BY <1>1, RowTypes DEF counts
  <2>2. One(h = "active") \in Nat
    BY DEF One
  <2> QED BY <2>1, <2>2
<1>9. (\A d \in Carts : CartGood(E, reg', over', d)) /\ HeldRight(E)
  <2>1. \A s \in SubjectsOf[OfferingOf[l]] : hold[c][s] = h
    BY <1>3
  <2>2. \A w \in WaitLines : CartOf[w] # c => entry'[w] = entry[w] /\ over'[w] = over[w]
    BY <1>1, InvTypes DEF OtherTypes
  <2>3. \A k \in Lines : k # l => reg'[k] = reg[k]
    BY <1>1
  <2>4. cart'[c] = "open" => deadline'[c] # "extended"
    BY <1>4
  <2> QED BY <1>3, <1>4, <1>6, <1>7, <1>8, <2>1, <2>2, <2>3, <2>4, CartMoves DEF E
<1>10. ConfirmedRight(E, reg')
  <2>1. ConfirmedRight(Database, reg) /\ E.confirmed = Database.confirmed
    BY <1>5, SeatsNow, RowFields
  <2> QED BY <1>1, <2>1, ConfirmedStays
<1>11. InvoicesStand'
  BY <1>1, SeatsNow, InvoicesGo
<1> QED BY <1>9, <1>10, <1>11 DEF SeatsRight, SeatRows, E

\* An offer that has not run out stays when the waitlist moves on, and an entry
\* that is over stays over.
LEMMA OfferStays ==
    ASSUME position \in [WaitLines -> Nat], NEW D, NEW r, Rows(D, r), NEW o \in Offerings,
           NEW w \in WaitLines, D.entry[w] # "waiting", w \notin Stale(D, o)
    PROVE  Advanced(o, D).entry[w] = D.entry[w]
<1> DEFINE F == AfterStale(D, o)
           v == First(F, o)
<1>1. Rows(F, r) /\ F.entry[w] = D.entry[w]
  BY AfterStaleKeeps
<1> HIDE DEF F
<1>2. CASE Advanced(o, D) = F
  BY <1>1, <1>2
<1>3. CASE Waiting(F, o) # {} /\ Offerable(F, v) /\ Advanced(o, D) = Offered(F, v)
  <2>1. v \in WaitLines /\ F.entry[v] = "waiting"
    <3>1. v \in Waiting(F, o)
      BY <1>3, FirstWaits
    <3> HIDE DEF v
    <3> QED BY <3>1 DEF Waiting
  <2> HIDE DEF v
  <2>2. Offered(F, v).entry[w] = IF w = v THEN "offered" ELSE F.entry[w]
    BY <1>1, <1>3, <2>1, OfferedKeeps
  <2> QED BY <1>1, <1>3, <2>1, <2>2
<1> QED BY <1>2, <1>3 DEF Advanced, F

\* The end of the transactions that free a place in offering o.
LEMMA AdvanceSeats ==
    ASSUME LifecycleInv, SeatsRight, NEW E, NEW o \in Offerings, Rows(E, reg'),
           SeatRows(E, reg', over), AdvanceAndWrite(E, o), over' = over,
           \A c \in Carts : E.cart[c] \in {"none", "open"} => cart[c] \in {"none", "open"},
           \A c \in Carts : \/ invoice'[c] = invoice[c]
                            \/ invoice[c] # "none" /\ invoice'[c] # "processing",
           \A l \in Lines, p \in Offerings : reg'[l][p] = "pending_approval" =>
              \E q \in Offerings : reg[l][q] = "pending_approval"
    PROVE  SeatsRight'
<1> DEFINE F == Advanced(o, E)
<1>1. position \in [WaitLines -> Nat] /\ ~StaleIsPaid(E, o) /\ Write(F)
  BY InvTypes DEF OtherTypes, AdvanceAndWrite
<1>2. /\ Rows(F, reg') /\ SeatRows(F, reg', over)
      /\ \A d \in Carts : F.cart[d] \in {"none", "open"} => E.cart[d] \in {"none", "open"}
  <2>1. NoPaidStale(E, {}) /\ {} \in SUBSET Offerings
    BY DEF NoPaidStale
  <2> QED BY <1>1, <2>1, AdvanceKeepsSeats
<1> HIDE DEF F
<1>3. Database' = F
  BY <1>1, <1>2, WrittenRows DEF Rows
<1>4. InvoicesStand'
  <2>1. \A d \in Carts : cart'[d] \in {"none", "open"} => cart[d] \in {"none", "open"}
    BY <1>2, <1>3, NextFields
  <2> QED BY <2>1, SeatsNow, InvoicesGo
<1> QED BY <1>2, <1>3, <1>4 DEF SeatsRight

\* An offer that is declined was not taken up.
LEMMA CloseEntrySeats ==
    ASSUME LifecycleInv, SeatsRight, LifecycleInv', Clean, Given, NEW w \in WaitLines,
           CloseEntry(w)
    PROVE  SeatsRight'
<1> DEFINE c == CartOf[w]
           o == OfferingOf[w]
           B == Database
           D == [B EXCEPT !.entry[w] = "declined"]
           G == GiveUpHolds(D, c, o)
           E == IF B.cart[c] = "none" THEN D ELSE Expire(G, c)
<1>1. /\ AdvanceAndWrite(E, o) /\ UNCHANGED <<over, reg, invoice>>
      /\ entry[w] \in {"waiting", "offered"} /\ w \in Lines /\ c \in Carts /\ o \in Offerings
  BY Parameters, RowFields DEF CloseEntry
<1>2. /\ B \in Databases /\ Rows(B, reg) /\ OwnLines(B) /\ B.cart = cart /\ B.entry = entry
      /\ B.deadline = deadline
      /\ \A d \in Carts : CartGood(B, reg, over, d)
      /\ HeldRight(B) /\ ConfirmedRight(B, reg) /\ reg' = reg /\ over' = over
  BY <1>1, SeatsNow, RowFields
<1> HIDE DEF B, c, o
<1>3. /\ D \in Databases /\ D.cart = B.cart /\ D.lines = B.lines /\ D.hold = B.hold
      /\ D.deadline = B.deadline /\ D.held = B.held /\ D.confirmed = B.confirmed
      /\ \A v \in WaitLines : D.entry[v] = IF v = w THEN "declined" ELSE B.entry[v]
  BY <1>2 DEF Databases, EntryStatus
<1> HIDE DEF D
<1>4. Rows(D, reg)
  <2>1. NoCartYet(D)
    BY <1>1, <1>2, <1>3 DEF Rows, NoCartYet
  <2>2. OwnLines(D) /\ OneOffer(D) /\ Unquoted(D, reg)
    BY <1>1, <1>2, <1>3 DEF Rows, OwnLines, OneOffer, Unquoted
  <2> QED BY <1>3, <2>1, <2>2 DEF Rows
<1>5. CASE B.cart[c] = "none"
  <2>1. \A d \in Carts : CartGood(D, reg, over, d)
    <3>1. \A v \in WaitLines : OfferStands(B, reg, over, v) /\ CartOf[v] \in Carts
      BY <1>2, Parameters DEF CartGood
    <3>2. \A v \in WaitLines : OfferStands(D, reg, over, v)
      BY <1>3, <3>1 DEF OfferStands
    <3> QED BY <1>2, <1>3, <3>2, SameRowsGood
  <2>2. HeldRight(D) /\ ConfirmedRight(D, reg)
    BY <1>2, <1>3, HeldStays, ConfirmedStays
  <2> QED BY <1>1, <1>2, <1>3, <1>4, <1>5, <2>1, <2>2, AdvanceSeats DEF SeatRows
<1>6. CASE B.cart[c] # "none"
  <2>1. E = Expire(G, c)
    BY <1>6
  <2> HIDE DEF E
  <2>2. /\ G.confirmed = D.confirmed /\ G.lines = D.lines /\ G.deadline = D.deadline
        /\ G.cart = D.cart /\ G.entry = D.entry
        /\ \A d \in Carts \ {c} : G.hold[d] = D.hold[d]
        /\ \A s \in Subjects :
              /\ G.hold[c][s] = IF D.hold[c][s] = "active" THEN "released" ELSE D.hold[c][s]
              /\ G.held[s] = IF s \in SubjectsOf[o] THEN Less(D.held[s], 1) ELSE D.held[s]
    BY <1>1, <1>3, GivenUpFields
  <2>3. Rows(G, reg)
    BY <1>1, <1>4, GiveUpKeeps
  <2> HIDE DEF G
  <2>4. /\ E.confirmed = G.confirmed /\ E.lines = G.lines /\ E.deadline = G.deadline
        /\ E.hold = G.hold /\ E.held = G.held /\ E.entry = G.entry
        /\ E.cart = [G.cart EXCEPT ![c] = "expired"]
    BY <2>1, <2>3 DEF Rows, Databases, Expire
  <2>5. Rows(E, reg)
    BY <1>1, <1>3, <1>6, <2>1, <2>2, <2>3, ExpireKeeps
  <2>6. E.cart[c] = "expired" /\ \A d \in Carts \ {c} : E.cart[d] = B.cart[d]
    BY <1>1, <1>2, <1>3, <2>2, <2>4 DEF Databases
  <2>7. entry[w] = "offered"
    BY <1>1, <1>2, <1>6 DEF Rows, NoCartYet, c
  <2>8. Registered(c, Live) = {}
    <3>1. w \notin Stale(E, o) /\ E.entry[w] = "declined"
      BY <1>1, <1>3, <2>2, <2>4 DEF Stale
    <3>2. Advanced(o, E).entry[w] = "declined"
      BY <1>1, <2>5, <3>1, InvTypes, OfferStays DEF OtherTypes
    <3>3. entry'[w] = "declined"
      BY <1>1, <3>2 DEF AdvanceAndWrite, Write
    <3> QED BY <2>7, <3>3, CleanSteps DEF c
  <2>9. B.cart[c] = "open"
    <3>1. OfferStands(B, reg, over, w)
      BY OfferNow DEF B
    <3>2. reg[w][o] \notin Live
      BY <1>1, <2>8, NoneRegistered DEF c
    <3> QED BY <1>2, <2>7, <3>1, <3>2 DEF OfferStands, c, o
  <2>10. Holding(B, reg, c, w, "active")
    <3>1. PICK l \in Lines, h \in HoldStates :
             /\ h # "none" /\ Holding(B, reg, c, l, h)
             /\ HoldStands(cart[c], h, reg[l], OfferingOf[l])
             /\ \A v \in WaitLines : CartOf[v] = c => v = l
      BY <1>1, <1>2, <1>6, LineThere DEF B
    <3>2. l = w
      BY <3>1 DEF c
    <3>3. h = "active"
      BY <1>2, <2>9, <3>1 DEF HoldStands, HoldStates
    <3> QED BY <3>1, <3>2, <3>3
  <2>11. \A p \in Offerings : reg[w][p] = "none"
    BY <1>1, <1>2, <2>9 DEF Rows, Unquoted, c
  <2>12. (\A d \in Carts : CartGood(E, reg, over, d)) /\ HeldRight(E)
    <3>1. E \in Databases /\ E.lines = B.lines /\ E.deadline = B.deadline
      BY <1>3, <2>2, <2>4, <2>5 DEF Rows
    <3>2. \A d \in Carts \ {c} : E.cart[d] = B.cart[d] /\ E.hold[d] = B.hold[d]
      BY <1>3, <2>2, <2>4, <2>6
    <3>3. \A s \in Subjects :
             /\ E.hold[c][s] = IF B.hold[c][s] = "active" THEN "released" ELSE B.hold[c][s]
             /\ E.held[s] = IF s \in SubjectsOf[OfferingOf[w]] THEN Less(B.held[s], 1)
                            ELSE B.held[s]
      BY <1>3, <2>2, <2>4 DEF o
    <3>4. \A v \in WaitLines :
             IF CartOf[v] = c THEN E.entry[v] \in {"accepted", "expired", "declined"}
             ELSE E.entry[v] = B.entry[v]
      BY <1>1, <1>3, <2>2, <2>4, Parameters DEF c
    <3>5. GivesBack(B, E, reg, reg, c, w)
      BY <2>6, <2>11, <3>1, <3>2, <3>3, <3>4 DEF GivesBack
    <3> QED BY <1>1, <1>2, <2>10, <3>1, <3>5, PlaceGivenBack
  <2>13. ConfirmedRight(E, reg)
    BY <1>2, <1>3, <2>2, <2>4, ConfirmedStays
  <2>14. \A d \in Carts : E.cart[d] \in {"none", "open"} => cart[d] \in {"none", "open"}
    BY <1>2, <2>6
  <2> QED BY <1>1, <1>2, <2>5, <2>12, <2>13, <2>14, AdvanceSeats DEF SeatRows
<1> QED BY <1>5, <1>6

\* The line of a live registration, and the state of its hold.
LEMMA LiveLine ==
    ASSUME LifecycleInv, SeatsRight, NEW l \in Lines, NEW o \in Offerings, reg[l][o] \in Live
    PROVE  /\ CartOf[l] \in Carts /\ cart[CartOf[l]] \notin {"none", "open"}
           /\ \E h \in HoldStates :
                 /\ h # "none" /\ Holding(Database, reg, CartOf[l], l, h)
                 /\ HoldStands(cart[CartOf[l]], h, reg[l], OfferingOf[l])
                 /\ \A s \in Subjects : hold[CartOf[l]][s] =
                       IF s \in SubjectsOf[OfferingOf[l]] THEN h ELSE "none"
           /\ lines[CartOf[l]] = {l} /\ OfferingOf[l] \in Offerings
           /\ SubjectsOf[OfferingOf[l]] \subseteq Subjects
           /\ OfferingOf[l] \in SubjectsOf[OfferingOf[l]]
           /\ \A s : Places(Database, CartOf[l], s) =
                 IF s \in SubjectsOf[OfferingOf[l]] THEN 1 ELSE 0
           /\ \A k \in Lines : CartOf[k] = CartOf[l] /\ k # l =>
                 \A p \in Offerings : reg[k][p] = "none"
           /\ \A w \in WaitLines : CartOf[w] = CartOf[l] => w = l
<1> DEFINE c == CartOf[l]
<1>1. c \in Carts /\ cart[c] \notin {"none", "open"}
  BY CartOfLive, SeatsNow, RowFields
<1>2. PICK k \in Lines, h \in HoldStates :
         /\ h # "none" /\ Holding(Database, reg, c, k, h)
         /\ lines[c] = {k} /\ OfferingOf[k] \in Offerings
         /\ \A s \in Subjects :
               hold[c][s] = IF s \in SubjectsOf[OfferingOf[k]] THEN h ELSE "none"
         /\ SubjectsOf[OfferingOf[k]] \subseteq Subjects
         /\ OfferingOf[k] \in SubjectsOf[OfferingOf[k]]
         /\ HoldStands(cart[c], h, reg[k], OfferingOf[k])
         /\ \A s : Places(Database, c, s) = IF s \in SubjectsOf[OfferingOf[k]] THEN 1 ELSE 0
         /\ \A m \in Lines : CartOf[m] = c /\ m # k => \A p \in Offerings : reg[m][p] = "none"
         /\ \A w \in WaitLines : CartOf[w] = c => w = k
  BY <1>1, LineThere
<1>3. k = l
  BY <1>2 DEF Live
<1> QED BY <1>1, <1>2, <1>3

\* A registration that is closed was not the one of an offer.
LEMMA ClosedHasNoOffer ==
    ASSUME LifecycleInv, SeatsRight, Clean, Given, NEW l \in WaitLines, NEW o \in Offerings,
           reg[l][o] \in Live, reg'[l][o] \in Closed, NEW E, Rows(E, reg), E.entry = entry,
           AdvanceAndWrite(E, o),
           \A s \in Subjects : hold[CartOf[l]][s] = "converted" =>
              E.hold[CartOf[l]][s] = "converted"
    PROVE  entry[l] \in {"accepted", "expired", "declined"}
<1> DEFINE c == CartOf[l]
           own == OfferingOf[l]
<1>1. l \in Lines /\ c \in Carts
  BY Parameters
<1>2. PICK h \in HoldStates :
         /\ h # "none" /\ HoldStands(cart[c], h, reg[l], own) /\ cart[c] \notin {"none", "open"}
         /\ \A s \in Subjects : hold[c][s] = IF s \in SubjectsOf[own] THEN h ELSE "none"
         /\ own \in Offerings /\ own \in SubjectsOf[own] /\ own \in Subjects
  BY <1>1, LiveLine
<1>3. entry[l] # "offered"
  <2> SUFFICES ASSUME entry[l] = "offered" PROVE FALSE
    OBVIOUS
  <2>1. /\ reg[l][own] \in Live
        /\ over[l] => cart[c] = "completed"
    BY <1>2, RowFields, OfferNow DEF OfferStands
  <2>2. o = own
    BY <1>2, <2>1 DEF HoldStands, Live, Closed, Pending, HoldStates
  <2>3. ~over[l]
    <3> SUFFICES ASSUME over[l] PROVE FALSE
      OBVIOUS
    <3>1. hold[c][own] = "converted"
      BY <1>2, <2>1 DEF HoldStands, HoldStates
    <3>2. l \in Stale(E, o)
      BY <2>2 DEF Stale
    <3> QED BY <1>2, <3>1, <3>2 DEF AdvanceAndWrite, StaleIsPaid
  <2>4. Advanced(o, E).entry[l] = "offered"
    BY <2>3, InvTypes, OfferStays DEF OtherTypes, Stale
  <2>5. entry'[l] = "offered"
    BY <2>4 DEF AdvanceAndWrite, Write
  <2>6. Registered(c, Live) # {}
    BY <1>1, NoneRegistered
  <2>7. reg'[l] # reg[l]
    BY DEF Live, Closed
  <2> QED BY <2>2, <2>5, <2>6, <2>7, CleanSteps
<1>4. entry[l] \notin {"none", "waiting"}
  <2>1. NoCartYet(Database)
    BY SeatsNow DEF Rows
  <2> QED BY <1>2, <2>1, RowFields DEF NoCartYet
<1> QED BY <1>3, <1>4, RowTypes DEF EntryStatus

\* Only registrations of a quoted cart change.
LEMMA RowsNow ==
    ASSUME LifecycleInv, NEW l \in Lines, NEW o \in Offerings, reg[l][o] \in Live,
           \A k \in Lines : k # l => reg'[k] = reg[k], NEW E, Rows(E, reg)
    PROVE  Rows(E, reg')
<1>1. E.cart[CartOf[l]] \notin {"none", "open"}
  BY CartOfLive
<1> QED BY <1>1 DEF Rows, Unquoted

\* An unpaid registration that is closed is the only one of its cart, and its
\* place is held.
LEMMA PendingLine ==
    ASSUME LifecycleInv, SeatsRight, Clean, Given, NEW l \in Lines, NEW o \in Offerings,
           reg[l][o] \in Pending, reg'[l][o] \in Closed
    PROVE  /\ o = OfferingOf[l] /\ CartOf[l] \in Carts
           /\ cart[CartOf[l]] = "awaiting_payment"
           /\ Holding(Database, reg, CartOf[l], l, "active")
           /\ Registered(CartOf[l], Live) = {<<l, o>>}
<1> DEFINE c == CartOf[l]
<1>1. o = OfferingOf[l]
  BY CleanSteps
<1>2. reg[l][o] \in Live
  BY DEF Pending, Live
<1>3. PICK h \in HoldStates :
         /\ h # "none" /\ Holding(Database, reg, c, l, h)
         /\ HoldStands(cart[c], h, reg[l], OfferingOf[l])
  BY <1>2, LiveLine
<1>4. /\ c \in Carts /\ cart[c] \notin {"none", "open"}
      /\ \A k \in Lines : CartOf[k] = c /\ k # l => \A p \in Offerings : reg[k][p] = "none"
  BY <1>2, LiveLine
<1>5. h = "active"
  BY <1>1, <1>3 DEF HoldStands, HoldStates, Pending, Closed
<1>6. cart[c] = "awaiting_payment" /\ \A p \in Offerings \ {o} : reg[l][p] = "none"
  BY <1>1, <1>3, <1>4, <1>5 DEF HoldStands
<1>7. Registered(c, Live) = {<<l, o>>}
  <2>1. <<l, o>> \in Registered(c, Live)
    BY <1>2 DEF Registered
  <2>2. ASSUME NEW x \in Registered(c, Live)
        PROVE  x = <<l, o>>
    <3>1. /\ x[1] \in Lines /\ x[2] \in Offerings /\ CartOf[x[1]] = c
          /\ reg[x[1]][x[2]] \in Live /\ x = <<x[1], x[2]>>
      BY DEF Registered
    <3>2. x[1] = l
      BY <1>4, <3>1 DEF Live
    <3>3. x[2] = o
      BY <1>6, <3>1, <3>2 DEF Live
    <3> QED BY <3>1, <3>2, <3>3
  <2> QED BY <2>1, <2>2
<1> QED BY <1>1, <1>3, <1>4, <1>5, <1>6, <1>7

\* The place of an unpaid registration that is closed goes back.
LEMMA PendingCloses ==
    ASSUME LifecycleInv, SeatsRight, Clean, Given, NEW l \in Lines, NEW o \in Offerings,
           reg[l][o] \in Pending, reg'[l][o] \in Closed,
           \A k \in Lines : k # l => reg'[k] = reg[k], NEW E, Rows(E, reg),
           AdvanceAndWrite(E, o), E.entry = entry,
           E.lines = lines, E.deadline = deadline,
           E.hold = GiveUpHolds(Database, CartOf[l], o).hold,
           E.held = GiveUpHolds(Database, CartOf[l], o).held,
           E.cart[CartOf[l]] \in {"awaiting_payment", "expired"},
           \A d \in Carts \ {CartOf[l]} : E.cart[d] = cart[d]
    PROVE  (\A d \in Carts : CartGood(E, reg', over, d)) /\ HeldRight(E)
<1> DEFINE c == CartOf[l]
           B == Database
           G == GiveUpHolds(B, c, o)
<1>1. o = OfferingOf[l] /\ c \in Carts /\ Holding(B, reg, c, l, "active")
  BY PendingLine
<1>2. /\ \A d \in Carts \ {c} : G.hold[d] = B.hold[d]
      /\ \A s \in Subjects :
            /\ G.hold[c][s] = IF B.hold[c][s] = "active" THEN "released" ELSE B.hold[c][s]
            /\ G.held[s] = IF s \in SubjectsOf[o] THEN Less(B.held[s], 1) ELSE B.held[s]
  BY <1>1, SeatsNow, GivenUpFields
<1>3. E.hold = G.hold /\ E.held = G.held
  OBVIOUS
<1>4. /\ B.lines = lines /\ B.deadline = deadline /\ B.cart = cart /\ B.entry = entry
      /\ B.hold = hold
  BY RowFields
<1> HIDE DEF G, B
<1>5. ASSUME NEW w \in WaitLines
      PROVE  IF CartOf[w] = c THEN E.entry[w] \in {"accepted", "expired", "declined"}
             ELSE E.entry[w] = B.entry[w]
  <2>1. CASE CartOf[w] = c
    <3>1. w = l /\ l \in WaitLines
      BY <2>1, Parameters
    <3>2. reg[l][o] \in Live
      BY DEF Pending, Live
    <3>3. \A s \in Subjects : hold[c][s] = "converted" => E.hold[c][s] = "converted"
      BY <1>2, <1>3, <1>4
    <3>4. entry[l] \in {"accepted", "expired", "declined"}
      BY <3>1, <3>2, <3>3, ClosedHasNoOffer
    <3> QED BY <2>1, <3>1, <3>4
  <2>2. CASE CartOf[w] # c
    BY <1>4, <2>2
  <2> QED BY <2>1, <2>2
<1>6. /\ B \in Databases /\ OwnLines(B) /\ E \in Databases
      /\ \A d \in Carts : CartGood(B, reg, over, d)
      /\ HeldRight(B)
  BY SeatsNow DEF B, Rows
<1>7. \A s \in Subjects :
         /\ E.hold[c][s] = IF B.hold[c][s] = "active" THEN "released" ELSE B.hold[c][s]
         /\ E.held[s] = IF s \in SubjectsOf[OfferingOf[l]] THEN Less(B.held[s], 1) ELSE B.held[s]
  BY <1>1, <1>2, <1>3
<1>8. \A d \in Carts \ {c} : E.cart[d] = B.cart[d] /\ E.hold[d] = B.hold[d]
  BY <1>2, <1>3, <1>4
<1>9. /\ reg'[l][OfferingOf[l]] \in Closed \/ \A p \in Offerings : reg'[l][p] = "none"
      /\ E.lines = B.lines /\ E.deadline = B.deadline
      /\ E.cart[c] \in {"awaiting_payment", "expired"}
      /\ \A k \in Lines : k # l => reg'[k] = reg[k]
  BY <1>1, <1>4
<1> HIDE DEF c
<1>10. GivesBack(B, E, reg, reg', c, l)
  BY <1>5, <1>7, <1>8, <1>9 DEF GivesBack
<1> QED BY <1>1, <1>6, <1>10, PlaceGivenBack

\* A confirmed registration is closed: carts and holds stay as they are.
LEMMA SeatLeaves ==
    ASSUME LifecycleInv, SeatsRight, Clean, Given, NEW l \in Lines, NEW o \in Offerings,
           reg[l][o] = "confirmed", reg'[l][o] \in Closed,
           \A p \in Offerings : \/ p = o
                                \/ reg'[l][p] = reg[l][p]
                                \/ reg[l][p] = "none" /\ reg'[l][p] = "confirmed",
           \A k \in Lines : k # l => reg'[k] = reg[k], NEW E, Rows(E, reg),
           AdvanceAndWrite(E, o), E.entry = entry, E.cart = cart, E.lines = lines,
           E.hold = hold, E.held = held, E.deadline = deadline
    PROVE  (\A d \in Carts : CartGood(E, reg', over, d)) /\ HeldRight(E)
<1> DEFINE c == CartOf[l]
           B == Database
           own == OfferingOf[l]
<1>1. /\ B.cart = cart /\ B.lines = lines /\ B.hold = hold /\ B.held = held
      /\ B.deadline = deadline /\ B.entry = entry
      /\ OwnLines(B) /\ HeldRight(B) /\ \A d \in Carts : CartGood(B, reg, over, d)
  BY RowFields, SeatsNow
<1> HIDE DEF B
<1>2. reg[l][o] \in Live
  BY DEF Live
<1>3. PICK h \in HoldStates :
         h # "none" /\ Holding(B, reg, c, l, h) /\ HoldStands(cart[c], h, reg[l], own)
  BY <1>2, LiveLine DEF B
<1>4. /\ c \in Carts /\ own \in Offerings /\ cart[c] \notin {"none", "open"}
      /\ lines[c] = {l}
      /\ \A k \in Lines : CartOf[k] = c /\ k # l => \A p \in Offerings : reg[k][p] = "none"
      /\ \A w \in WaitLines : CartOf[w] = c => w = l
  BY <1>2, LiveLine
<1>5. HoldStands(cart[c], h, reg'[l], own)
  <2>1. h # "active"
    BY <1>3, <1>4 DEF HoldStands, Pending
  <2>2. CASE h = "converted"
    <3>1. reg'[l][own] \in Closed
      BY <1>3, <1>4, <2>2 DEF HoldStands, Closed
    <3>2. \A p \in Offerings : reg'[l][p] \notin Pending
      BY <1>3, <2>2 DEF HoldStands, Closed, Pending
    <3> QED BY <1>3, <2>2, <3>1, <3>2 DEF HoldStands, Closed
  <2>3. CASE h = "released"
    <3>1. own # o /\ reg[l][own] \in Closed
      BY <1>3, <2>3 DEF HoldStands, Closed
    <3>2. reg'[l][own] \in Closed
      BY <1>4, <3>1 DEF Closed
    <3> QED BY <1>3, <2>3, <3>2 DEF HoldStands, Closed
  <2> QED BY <1>3, <2>1, <2>2, <2>3 DEF HoldStates
<1>6. Holding(E, reg', c, l, h)
  BY <1>1, <1>3, <1>5 DEF Holding
<1>7. \A w \in WaitLines : CartOf[w] = c => OfferStands(E, reg', over, w)
  <2> SUFFICES ASSUME NEW w \in WaitLines, CartOf[w] = c PROVE OfferStands(E, reg', over, w)
    OBVIOUS
  <2>1. w = l /\ l \in WaitLines
    BY <1>4
  <2>2. entry[l] \in {"accepted", "expired", "declined"}
    BY <1>2, <2>1, ClosedHasNoOffer
  <2> QED BY <2>1, <2>2 DEF OfferStands
<1>8. CartGood(E, reg', over, c)
  BY <1>3, <1>4, <1>6, <1>7 DEF CartGood
<1>9. \A d \in Carts \ {c} : SameCart(B, reg, over, E, reg', over, d)
  BY <1>1 DEF SameCart
<1>10. \A d \in Carts : CartGood(E, reg', over, d)
  BY <1>1, <1>8, <1>9, OneCartChanges
<1> QED BY <1>1, <1>10, HeldStays

\* The place of a canceled registration is given back once.
LEMMA CancelSeats ==
    ASSUME LifecycleInv, SeatsRight, Clean, Given, NEW l \in Lines, NEW o \in Offerings,
           Cancel(l, o)
    PROVE  SeatsRight'
<1> DEFINE c == CartOf[l]
           B == Database
           last == Registered(c, Live) = {<<l, o>>}
<1>1. /\ reg[l][o] \in Live /\ reg' = [reg EXCEPT ![l][o] = "canceled"] /\ over' = over
  BY DEF Cancel
<1>2. \A k \in Lines, p \in Offerings :
         reg'[k][p] = IF k = l /\ p = o THEN "canceled" ELSE reg[k][p]
  BY <1>1, InvTypes DEF OtherTypes
<1>3. \A k \in Lines : k # l => reg'[k] = reg[k]
  BY <1>1, InvTypes DEF OtherTypes
<1>4. reg'[l][o] = "canceled" /\ reg'[l][o] \in Closed
  BY <1>2 DEF Closed
<1>5. \A d \in Carts : \/ invoice'[d] = invoice[d]
                       \/ invoice[d] # "none" /\ invoice'[d] # "processing"
  BY InvTypes DEF Cancel, Voided, OtherTypes
<1>6. \A k \in Lines, p \in Offerings : reg'[k][p] = "pending_approval" =>
         \E q \in Offerings : reg[k][q] = "pending_approval"
  BY <1>2
<1>7. B \in Databases /\ Rows(B, reg) /\ ConfirmedRight(B, reg) /\ OneRegChanges(reg, reg', l, o)
  BY <1>2, SeatsNow DEF OneRegChanges
<1>8. /\ B.cart = cart /\ B.lines = lines /\ B.hold = hold /\ B.held = held
      /\ B.deadline = deadline /\ B.entry = entry /\ B.confirmed = confirmed
  BY RowFields
<1>9. CASE reg[l][o] = "confirmed"
  <2> DEFINE E == FreeConfirmed(B, o)
  <2>1. CanFree(B, o) /\ AdvanceAndWrite(E, o)
    BY <1>9 DEF Cancel
  <2>2. Rows(E, reg)
    BY <1>7, <2>1, FreeKeeps
  <2>3. /\ E.cart = cart /\ E.lines = lines /\ E.hold = hold /\ E.held = held
        /\ E.deadline = deadline /\ E.entry = entry
        /\ \A s \in Subjects : E.confirmed[s] = IF s \in SubjectsOf[o] THEN B.confirmed[s] - 1
                                                ELSE B.confirmed[s]
    <3> HIDE DEF B
    <3> QED BY <1>7, <1>8 DEF FreeConfirmed, Databases
  <2> HIDE DEF E
  <2>4. (\A d \in Carts : CartGood(E, reg', over, d)) /\ HeldRight(E)
    BY <1>2, <1>3, <1>4, <1>9, <2>1, <2>2, <2>3, SeatLeaves
  <2>5. ConfirmedRight(E, reg')
    <3>1. \A s \in Subjects :
             E.confirmed[s] = IF s \in SubjectsOf[o]
                              THEN B.confirmed[s] + One(reg'[l][o] = "confirmed")
                                   - One(reg[l][o] = "confirmed")
                              ELSE B.confirmed[s]
      BY <1>4, <1>7, <1>9, <2>3 DEF One, Databases
    <3> QED BY <1>7, <3>1, ConfirmedMoves
  <2>6. Rows(E, reg')
    BY <1>1, <1>3, <2>2, RowsNow
  <2> QED BY <1>1, <1>5, <1>6, <2>1, <2>3, <2>4, <2>5, <2>6, AdvanceSeats DEF SeatRows
<1>10. CASE reg[l][o] # "confirmed"
  <2> DEFINE G == GiveUpHolds(B, c, o)
             E == Expire(G, c)
  <2>1. reg[l][o] \in Pending
    BY <1>1, <1>10 DEF Pending, Live
  <2>2. last /\ cart[c] = "awaiting_payment" /\ c \in Carts
    BY <1>4, <2>1, PendingLine
  <2>3. /\ G.confirmed = B.confirmed /\ G.lines = B.lines /\ G.deadline = B.deadline
        /\ G.cart = B.cart /\ G.entry = B.entry /\ Rows(G, reg)
    BY <1>7, <2>2, GivenUpFields, GiveUpKeeps
  <2> HIDE DEF B, G
  <2>4. AdvanceAndWrite(E, o)
    <3>1. ExpireUnlessCompleted(G, c) = E
      BY <1>8, <2>2, <2>3 DEF ExpireUnlessCompleted
    <3>2. AdvanceAndWrite(ExpireUnlessCompleted(G, c), o)
      BY <1>10, <2>2 DEF Cancel, B, G
    <3> QED BY <3>1, <3>2
  <2>5. Rows(E, reg)
    BY <1>8, <2>2, <2>3, ExpireKeeps
  <2>6. /\ E.confirmed = G.confirmed /\ E.lines = G.lines /\ E.deadline = G.deadline
        /\ E.hold = G.hold /\ E.held = G.held /\ E.entry = G.entry
        /\ E.cart = [G.cart EXCEPT ![c] = "expired"]
    BY <2>3 DEF Rows, Databases, Expire
  <2> HIDE DEF E
  <2>7. E.cart[c] = "expired" /\ \A d \in Carts \ {c} : E.cart[d] = cart[d]
    BY <1>8, <2>2, <2>3, <2>6, RowTypes
  <2>8. (\A d \in Carts : CartGood(E, reg', over, d)) /\ HeldRight(E)
    BY ZenonT(60), <1>3, <1>4, <1>8, <2>1, <2>3, <2>4, <2>5, <2>6, <2>7, PendingCloses DEF G, B
  <2>9. ConfirmedRight(E, reg')
    <3>1. \A s \in Subjects :
             E.confirmed[s] = IF s \in SubjectsOf[o]
                              THEN B.confirmed[s] + One(reg'[l][o] = "confirmed")
                                   - One(reg[l][o] = "confirmed")
                              ELSE B.confirmed[s]
      BY <1>4, <1>7, <1>10, <2>3, <2>6 DEF One, Databases
    <3> QED BY <1>7, <3>1, ConfirmedMoves
  <2>10. Rows(E, reg')
    BY <1>1, <1>3, <2>5, RowsNow
  <2>11. \A d \in Carts : E.cart[d] \in {"none", "open"} => cart[d] \in {"none", "open"}
    BY <2>7
  <2> QED BY <1>1, <1>5, <1>6, <2>4, <2>8, <2>9, <2>10, <2>11, AdvanceSeats DEF SeatRows
<1> QED BY <1>9, <1>10

\* So is that of a declined one.
LEMMA DeclineRegistrationSeats ==
    ASSUME LifecycleInv, SeatsRight, Clean, Given, NEW l \in Lines, NEW o \in Offerings,
           DeclineRegistration(l, o)
    PROVE  SeatsRight'
<1> DEFINE c == CartOf[l]
           B == Database
           G == GiveUpHolds(B, c, o)
           E == Expire(G, c)
<1>1. /\ reg[l][o] = "pending_approval" /\ reg' = [reg EXCEPT ![l][o] = "canceled"]
      /\ over' = over /\ AdvanceAndWrite(E, o)
  BY DEF DeclineRegistration
<1>2. \A k \in Lines, p \in Offerings :
         reg'[k][p] = IF k = l /\ p = o THEN "canceled" ELSE reg[k][p]
  BY <1>1, InvTypes DEF OtherTypes
<1>3. \A k \in Lines : k # l => reg'[k] = reg[k]
  BY <1>1, InvTypes DEF OtherTypes
<1>4. /\ reg'[l][o] = "canceled" /\ reg'[l][o] \in Closed
      /\ reg[l][o] \in Pending /\ reg[l][o] \in Live
  BY <1>1, <1>2 DEF Closed, Pending, Live
<1>5. \A d \in Carts : \/ invoice'[d] = invoice[d]
                       \/ invoice[d] # "none" /\ invoice'[d] # "processing"
  BY InvTypes DEF DeclineRegistration, Voided, OtherTypes
<1>6. \A k \in Lines, p \in Offerings : reg'[k][p] = "pending_approval" =>
         \E q \in Offerings : reg[k][q] = "pending_approval"
  BY <1>2
<1>7. /\ B \in Databases /\ Rows(B, reg) /\ ConfirmedRight(B, reg)
      /\ OneRegChanges(reg, reg', l, o) /\ c \in Carts /\ cart[c] = "awaiting_payment"
  BY <1>2, <1>4, SeatsNow, PendingLine DEF OneRegChanges
<1>8. /\ B.cart = cart /\ B.lines = lines /\ B.hold = hold /\ B.held = held
      /\ B.deadline = deadline /\ B.entry = entry /\ B.confirmed = confirmed
  BY RowFields
<1>9. /\ G.confirmed = B.confirmed /\ G.lines = B.lines /\ G.deadline = B.deadline
      /\ G.cart = B.cart /\ G.entry = B.entry /\ Rows(G, reg)
  BY <1>7, GivenUpFields, GiveUpKeeps
<1> HIDE DEF B, G
<1>10. Rows(E, reg)
  BY <1>7, <1>8, <1>9, ExpireKeeps
<1>11. /\ E.confirmed = G.confirmed /\ E.lines = G.lines /\ E.deadline = G.deadline
       /\ E.hold = G.hold /\ E.held = G.held /\ E.entry = G.entry
       /\ E.cart = [G.cart EXCEPT ![c] = "expired"]
  BY <1>9 DEF Rows, Databases, Expire
<1> HIDE DEF E
<1>12. E.cart[c] = "expired" /\ \A d \in Carts \ {c} : E.cart[d] = cart[d]
  BY <1>7, <1>8, <1>9, <1>11, RowTypes
<1>13. (\A d \in Carts : CartGood(E, reg', over, d)) /\ HeldRight(E)
  BY ZenonT(60), <1>1, <1>3, <1>4, <1>8, <1>9, <1>10, <1>11, <1>12, PendingCloses DEF G, B
<1>14. ConfirmedRight(E, reg')
  <2>1. \A s \in Subjects :
           E.confirmed[s] = IF s \in SubjectsOf[o]
                            THEN B.confirmed[s] + One(reg'[l][o] = "confirmed")
                                 - One(reg[l][o] = "confirmed")
                            ELSE B.confirmed[s]
    BY <1>1, <1>4, <1>7, <1>9, <1>11 DEF One, Databases
  <2> QED BY <1>7, <2>1, ConfirmedMoves
<1>15. Rows(E, reg')
  BY <1>3, <1>4, <1>10, RowsNow
<1>16. \A d \in Carts : E.cart[d] \in {"none", "open"} => cart[d] \in {"none", "open"}
  BY <1>12
<1> QED BY <1>1, <1>5, <1>6, <1>13, <1>14, <1>15, <1>16, AdvanceSeats DEF SeatRows

\* A transfer gives back the place left, and takes one for a registration that
\* is confirmed where it goes.
LEMMA TransferSeats ==
    ASSUME LifecycleInv, SeatsRight, Clean, Given, NEW l \in Lines, NEW o \in Offerings,
           NEW p \in Offerings, Transfer(l, o, p)
    PROVE  SeatsRight'
<1> DEFINE c == CartOf[l]
           B == Database
           was == reg[l][o]
           becomes == IF was = "pending_approval" /\ p \notin RequiresApproval THEN "confirmed"
                      ELSE was
           D == IF was = "confirmed" THEN FreeConfirmed(B, o) ELSE GiveUpHolds(B, c, o)
           more == [s \in Subjects |-> IF s \in SubjectsOf[p] THEN D.confirmed[s] + 1
                                       ELSE D.confirmed[s]]
           E == IF becomes = "confirmed" THEN [D EXCEPT !.confirmed = more] ELSE D
           mid == [reg EXCEPT ![l] = [@ EXCEPT ![o] = "transferred_out"]]
<1>1. /\ was \in Live /\ o # p /\ reg[l][p] = "none" /\ over' = over /\ invoice' = invoice
      /\ was = "confirmed" => CanFree(B, o)
      /\ reg' = [reg EXCEPT ![l] = [@ EXCEPT ![o] = "transferred_out", ![p] = becomes]]
      /\ AdvanceAndWrite(E, o)
  BY DEF Transfer
<1>2. /\ B \in Databases /\ Rows(B, reg) /\ ConfirmedRight(B, reg) /\ c \in Carts
      /\ reg \in [Lines -> [Offerings -> RegStatus]]
  BY <1>1, SeatsNow, InvTypes, CartOfLive DEF OtherTypes
<1>3. /\ B.cart = cart /\ B.lines = lines /\ B.hold = hold /\ B.held = held
      /\ B.deadline = deadline /\ B.entry = entry /\ B.confirmed = confirmed
  BY RowFields
<1>4. /\ becomes \in Live
      /\ was = "confirmed" => becomes = "confirmed"
      /\ becomes = "pending_approval" => was = "pending_approval"
  BY <1>1 DEF Live
<1> HIDE DEF B, becomes
<1>5. /\ \A k \in Lines, q \in Offerings :
            reg'[k][q] = IF k = l /\ q = o THEN "transferred_out"
                         ELSE IF k = l /\ q = p THEN becomes ELSE reg[k][q]
      /\ \A k \in Lines, q \in Offerings :
            mid[k][q] = IF k = l /\ q = o THEN "transferred_out" ELSE reg[k][q]
      /\ \A k \in Lines : k # l => reg'[k] = reg[k]
  BY <1>1, <1>2
<1>6. /\ reg'[l][o] = "transferred_out" /\ reg'[l][o] \in Closed /\ reg'[l][p] = becomes
      /\ mid[l][o] = "transferred_out" /\ mid[l][p] = "none"
      /\ OneRegChanges(reg, mid, l, o) /\ OneRegChanges(mid, reg', l, p)
  BY <1>1, <1>5 DEF Closed, OneRegChanges
<1>7. /\ Rows(D, reg) /\ D.cart = cart /\ D.lines = lines /\ D.deadline = deadline
      /\ D.entry = entry
      /\ \A s \in Subjects :
            D.confirmed[s] = IF s \in SubjectsOf[o]
                             THEN B.confirmed[s] + One(mid[l][o] = "confirmed")
                                  - One(reg[l][o] = "confirmed")
                             ELSE B.confirmed[s]
  <2> HIDE DEF mid
  <2>1. CASE was = "confirmed"
    <3>1. D = FreeConfirmed(B, o)
      BY <2>1
    <3> HIDE DEF D
    <3>2. Rows(D, reg)
      BY <1>1, <1>2, <2>1, <3>1, FreeKeeps DEF B
    <3>3. /\ D.cart = cart /\ D.lines = lines /\ D.deadline = deadline /\ D.entry = entry
          /\ \A s \in Subjects : D.confirmed[s] = IF s \in SubjectsOf[o] THEN B.confirmed[s] - 1
                                                  ELSE B.confirmed[s]
      BY <1>2, <1>3, <3>1 DEF FreeConfirmed, Databases
    <3> QED BY <1>2, <1>6, <2>1, <3>2, <3>3 DEF One, Databases
  <2>2. CASE was # "confirmed"
    <3>1. D = GiveUpHolds(B, c, o)
      BY <2>2
    <3> HIDE DEF D
    <3>2. /\ Rows(D, reg) /\ D.cart = cart /\ D.lines = lines /\ D.deadline = deadline
          /\ D.entry = entry /\ D.confirmed = B.confirmed
      BY <1>2, <1>3, <3>1, GiveUpKeeps, GivenUpFields
    <3> QED BY <1>2, <1>6, <2>2, <3>2 DEF One, Databases
  <2> QED BY <2>1, <2>2
<1>8. /\ was = "confirmed" => D.hold = hold /\ D.held = held
      /\ was # "confirmed" => /\ D.hold = GiveUpHolds(Database, c, o).hold
                              /\ D.held = GiveUpHolds(Database, c, o).held
  <2>1. FreeConfirmed(B, o).hold = hold /\ FreeConfirmed(B, o).held = held
    BY <1>2, <1>3 DEF FreeConfirmed, Databases
  <2> QED BY <2>1 DEF B
<1> HIDE DEF D
<1>9. /\ Rows(E, reg) /\ E.cart = cart /\ E.lines = lines /\ E.deadline = deadline
      /\ E.entry = entry /\ E.hold = D.hold /\ E.held = D.held
      /\ \A s \in Subjects :
            E.confirmed[s] = IF s \in SubjectsOf[p]
                             THEN D.confirmed[s] + One(reg'[l][p] = "confirmed")
                                  - One(mid[l][p] = "confirmed")
                             ELSE D.confirmed[s]
  <2> HIDE DEF mid
  <2>1. more \in [Subjects -> Nat] /\ D.confirmed \in [Subjects -> Nat]
    BY <1>7 DEF Rows, Databases
  <2>2. CASE becomes = "confirmed"
    <3> DEFINE F == [D EXCEPT !.confirmed = more]
    <3>1. E = F
      BY <2>2
    <3>2. /\ F \in Databases /\ F.cart = D.cart /\ F.lines = D.lines /\ F.entry = D.entry
          /\ F.deadline = D.deadline /\ F.hold = D.hold /\ F.held = D.held /\ F.confirmed = more
      <4> HIDE DEF more
      <4> QED BY <1>7, <2>1 DEF Rows, Databases
    <3> HIDE DEF F, E
    <3>3. Rows(F, reg)
      BY <1>7, <3>2, SameRows
    <3>4. \A s \in Subjects : F.confirmed[s] = IF s \in SubjectsOf[p] THEN D.confirmed[s] + 1
                                               ELSE D.confirmed[s]
      BY <3>2
    <3> HIDE DEF more
    <3> QED BY <1>6, <1>7, <2>1, <2>2, <3>1, <3>2, <3>3, <3>4 DEF One
  <2>3. CASE becomes # "confirmed"
    <3>1. E = D
      BY <2>3
    <3> HIDE DEF E, more
    <3> QED BY <1>6, <1>7, <2>1, <2>3, <3>1 DEF One
  <2> QED BY <2>2, <2>3
<1> HIDE DEF E, more
<1>10. (\A d \in Carts : CartGood(E, reg', over, d)) /\ HeldRight(E)
  <2> HIDE DEF mid
  <2>1. CASE was = "confirmed"
    <3>1. \A q \in Offerings : \/ q = o
                               \/ reg'[l][q] = reg[l][q]
                               \/ reg[l][q] = "none" /\ reg'[l][q] = "confirmed"
      BY <1>1, <1>4, <1>5, <2>1
    <3> QED BY ZenonT(60), <1>1, <1>5, <1>6, <1>8, <1>9, <2>1, <3>1, SeatLeaves
  <2>2. CASE was # "confirmed"
    <3>1. reg[l][o] \in Pending
      BY <1>1, <2>2 DEF Live, Pending
    <3>2. cart[c] = "awaiting_payment"
      BY <1>6, <3>1, PendingLine
    <3>3. E.hold = GiveUpHolds(Database, c, o).hold /\ E.held = GiveUpHolds(Database, c, o).held
      BY <1>8, <1>9, <2>2
    <3>4. /\ E.cart[c] \in {"awaiting_payment", "expired"}
          /\ \A d \in Carts \ {c} : E.cart[d] = cart[d]
      BY <1>9, <3>2
    <3> QED BY <1>1, <1>5, <1>6, <1>9, <3>1, <3>3, <3>4, PendingCloses
  <2> QED BY <2>1, <2>2
<1>11. ConfirmedRight(E, reg')
  <2> HIDE DEF mid
  <2>1. ConfirmedRight(D, mid)
    BY <1>2, <1>6, <1>7, ConfirmedMoves
  <2> QED BY <1>6, <1>9, <2>1, ConfirmedMoves
<1>12. Rows(E, reg')
  BY <1>1, <1>5, <1>9, RowsNow
<1>13. /\ \A d \in Carts : E.cart[d] \in {"none", "open"} => cart[d] \in {"none", "open"}
       /\ \A d \in Carts : invoice'[d] = invoice[d]
       /\ \A k \in Lines, q \in Offerings : reg'[k][q] = "pending_approval" =>
             \E m \in Offerings : reg[k][m] = "pending_approval"
  BY <1>1, <1>4, <1>5, <1>9
<1> QED BY <1>1, <1>10, <1>11, <1>12, <1>13, AdvanceSeats DEF SeatRows

\* An approved registration has its place, held or confirmed.
LEMMA ApproveRegistrationSeats ==
    ASSUME LifecycleInv, SeatsRight, LifecycleInv', NEW l \in Lines, NEW o \in Offerings,
           ApproveRegistration(l, o)
    PROVE  SeatsRight'
<1> DEFINE c == CartOf[l]
           own == OfferingOf[l]
           S == SubjectsOf[own]
           free == invoice[c] = "free"
           to == IF free THEN "confirmed" ELSE "pending_payment"
           E == Database'
<1>1. /\ reg[l][o] = "pending_approval" /\ reg' = [reg EXCEPT ![l][o] = to]
      /\ UNCHANGED <<over, invoice>>
  BY DEF ApproveRegistration
<1>2. /\ \A k \in Lines, p \in Offerings :
            reg'[k][p] = IF k = l /\ p = o THEN to ELSE reg[k][p]
      /\ \A k \in Lines : k # l => reg'[k] = reg[k]
  BY <1>1, InvTypes DEF OtherTypes
<1>3. reg[l][o] \in Live
  BY <1>1 DEF Live
<1>4. PICK h \in HoldStates :
         /\ h # "none" /\ Holding(Database, reg, c, l, h) /\ HoldStands(cart[c], h, reg[l], own)
         /\ \A s \in Subjects : hold[c][s] = IF s \in S THEN h ELSE "none"
  BY <1>3, LiveLine
<1>5. /\ c \in Carts /\ cart[c] \notin {"none", "open"} /\ lines[c] = {l} /\ own \in Offerings
      /\ S \subseteq Subjects /\ own \in S
      /\ \A s : Places(Database, c, s) = IF s \in S THEN 1 ELSE 0
      /\ \A w \in WaitLines : CartOf[w] = c => w = l
  BY <1>3, LiveLine
<1>6. h \in {"active", "released"} /\ (h = "active" => o = own /\ cart[c] = "awaiting_payment")
  BY <1>1, <1>4, <1>5 DEF HoldStands, HoldStates, Pending
<1>7. \A d \in Carts : invoice'[d] = invoice[d]
  BY <1>1
<1>8. \A k \in Lines, p \in Offerings : reg'[k][p] = "pending_approval" =>
         \E q \in Offerings : reg[k][q] = "pending_approval"
  BY <1>2
<1>9. /\ ConfirmedRight(Database, reg) /\ OneRegChanges(reg, reg', l, o)
      /\ Database.confirmed = confirmed
  BY <1>2, SeatsNow, RowFields DEF OneRegChanges
<1>10. /\ E.cart = cart' /\ E.lines = lines' /\ E.hold = hold' /\ E.confirmed = confirmed'
       /\ E.deadline = deadline' /\ E.entry = entry'
  BY NextFields
<1> HIDE DEF E
<1>11. CASE free
  <2> DEFINE row == [s \in Subjects |-> IF hold[c][s] = "active" THEN "converted" ELSE hold[c][s]]
             held1 == [s \in Subjects |->
                 IF hold[c][s] = "active" THEN held[s] - Places(Database, c, s) ELSE held[s]]
             confirmed1 == [s \in Subjects |->
                 IF hold[c][s] = "active" THEN confirmed[s] + Places(Database, c, s)
                 ELSE confirmed[s]]
  <2>1. h = "active" /\ o = own
    <3>1. \A s \in Subjects : hold[c][s] # "released"
      BY <1>11 DEF ApproveRegistration
    <3> QED BY <1>4, <1>5, <1>6, <3>1
  <2>2. /\ held' = held1 /\ confirmed' = confirmed1 /\ hold' = [hold EXCEPT ![c] = row]
        /\ cart' = [cart EXCEPT ![c] = "completed"]
        /\ deadline' = deadline /\ lines' = lines /\ entry' = entry
    <3> DEFINE M == MarkActive(Database, c, "converted")
               F == [M EXCEPT !.held = held1, !.confirmed = confirmed1, !.cart[c] = "completed"]
    <3>1. Write(F)
      BY <1>11 DEF ApproveRegistration
    <3>2. M = [Database EXCEPT !.hold = [hold EXCEPT ![c] = row]]
      BY RowFields DEF MarkActive
    <3> HIDE DEF held1, confirmed1, row, M
    <3>3. F = [Database EXCEPT !.hold = [hold EXCEPT ![c] = row], !.held = held1,
                               !.confirmed = confirmed1, !.cart = [cart EXCEPT ![c] = "completed"]]
      BY <3>2, RowTypes DEF Database
    <3> HIDE DEF F
    <3> QED BY <3>1, <3>3 DEF Write, Database
  <2>3. /\ cart'[c] = "completed"
        /\ \A d \in Carts \ {c} : /\ cart'[d] = cart[d] /\ lines'[d] = lines[d]
                                  /\ hold'[d] = hold[d] /\ deadline'[d] = deadline[d]
    <3> HIDE DEF row
    <3> QED BY <1>5, <2>2, RowTypes
  <2>4. \A s \in Subjects : hold'[c][s] = IF s \in S THEN "converted" ELSE "none"
    <3>1. hold'[c] = row
      <4> HIDE DEF row
      <4> QED BY <1>5, <2>2, RowTypes
    <3> QED BY <1>4, <2>1, <3>1
  <2>5. reg'[l][own] = "confirmed" /\ \A p \in Offerings \ {own} : reg'[l][p] = "none"
    <3>1. \A p \in Offerings \ {own} : reg[l][p] = "none"
      BY <1>4, <1>5, <2>1 DEF HoldStands
    <3> QED BY <1>2, <1>11, <2>1, <3>1
  <2>6. \A s \in Subjects :
           /\ held'[s] = IF s \in S THEN held[s] + One("converted" = "active")
                                               - One("active" = "active") ELSE held[s]
           /\ E.confirmed[s] = IF s \in S
                               THEN Database.confirmed[s] + One(reg'[l][own] = "confirmed")
                                               - One(reg[l][own] = "confirmed")
                               ELSE Database.confirmed[s]
    <3> SUFFICES ASSUME NEW s \in Subjects
                 PROVE  /\ held'[s] = IF s \in S THEN held[s] + One("converted" = "active")
                                                   - One("active" = "active") ELSE held[s]
                        /\ E.confirmed[s] = IF s \in S
                                            THEN Database.confirmed[s]
                                                 + One(reg'[l][own] = "confirmed")
                                                 - One(reg[l][own] = "confirmed")
                                            ELSE Database.confirmed[s]
      OBVIOUS
    <3>1. /\ held'[s] = IF s \in S THEN held[s] - 1 ELSE held[s]
          /\ confirmed'[s] = IF s \in S THEN confirmed[s] + 1 ELSE confirmed[s]
      BY <1>4, <1>5, <2>1, <2>2
    <3>2. held[s] \in Nat /\ confirmed[s] \in Nat
      BY RowTypes
    <3>3. /\ One("converted" = "active") = 0 /\ One("active" = "active") = 1
          /\ One(reg'[l][own] = "confirmed") = 1 /\ One(reg[l][own] = "confirmed") = 0
      BY <1>1, <2>1, <2>5 DEF One
    <3> QED BY <1>9, <1>10, <3>1, <3>2, <3>3
  <2> HIDE DEF row, held1, confirmed1
  <2>7. Holding(E, reg', c, l, "converted")
    BY <1>5, <1>10, <2>2, <2>3, <2>4, <2>5 DEF Holding, HoldStands, Pending
  <2>8. \A w \in WaitLines : CartOf[w] = c => OfferStands(E, reg', over', w)
    <3> SUFFICES ASSUME NEW w \in WaitLines, CartOf[w] = c PROVE OfferStands(E, reg', over', w)
      OBVIOUS
    <3>1. w = l /\ OfferStands(Database, reg, over, w)
      BY <1>5, OfferNow
    <3>2. E.entry[w] = Database.entry[w] /\ E.cart[CartOf[w]] = "completed" /\ over' = over
      BY <1>1, <1>10, <2>2, <2>3, RowFields
    <3> QED BY <2>5, <3>1, <3>2 DEF OfferStands, Live
  <2>9. (\A d \in Carts : CartGood(E, reg', over', d)) /\ HeldRight(E)
    <3>1. "active" \in HoldStates /\ "converted" \in HoldStates /\ cart'[c] # "open"
      BY <2>3 DEF HoldStates
    <3>2. \A s \in S : hold[c][s] = "active"
      BY <1>4, <1>5, <2>1
    <3>3. \A w \in WaitLines : CartOf[w] # c => entry'[w] = entry[w] /\ over'[w] = over[w]
      BY <1>1, <2>2
    <3> QED BY <1>2, <1>5, <2>3, <2>6, <2>7, <2>8, <3>1, <3>2, <3>3, CartMoves DEF E
  <2>10. ConfirmedRight(E, reg')
    BY <1>9, <2>1, <2>6, ConfirmedMoves
  <2>11. InvoicesStand'
    <3>1. \A d \in Carts : cart'[d] \in {"none", "open"} => cart[d] \in {"none", "open"}
      BY <2>3
    <3> QED BY <1>7, <1>8, <3>1, SeatsNow, InvoicesGo
  <2> QED BY <2>9, <2>10, <2>11 DEF SeatsRight, SeatRows, E
<1>12. CASE ~free
  <2>1. /\ held' = held /\ confirmed' = confirmed /\ hold' = hold /\ cart' = cart
        /\ lines' = lines /\ entry' = entry /\ deadline' = [deadline EXCEPT ![c] = "extended"]
    BY <1>12 DEF ApproveRegistration, Write, Database
  <2>2. HoldStands(cart[c], h, reg'[l], own)
    <3>1. \A p \in Offerings : reg'[l][p] = IF p = o THEN "pending_payment" ELSE reg[l][p]
      BY <1>2, <1>12
    <3>2. CASE h = "active"
      BY <1>4, <1>5, <1>6, <3>1, <3>2 DEF HoldStands, Pending
    <3>3. CASE h = "released"
      <4>1. o # own /\ reg[l][own] \in Closed
        BY <1>1, <1>4, <1>5, <3>3 DEF HoldStands, Closed
      <4> QED BY <1>4, <1>5, <3>1, <3>3, <4>1 DEF HoldStands, Closed
    <3> QED BY <1>6, <3>2, <3>3
  <2>3. Holding(E, reg', c, l, h)
    BY <1>4, <1>10, <2>1, <2>2, RowFields DEF Holding
  <2>4. \A w \in WaitLines : CartOf[w] = c => OfferStands(E, reg', over', w)
    <3> SUFFICES ASSUME NEW w \in WaitLines, CartOf[w] = c PROVE OfferStands(E, reg', over', w)
      OBVIOUS
    <3>1. w = l /\ OfferStands(Database, reg, over, w)
      BY <1>5, OfferNow
    <3>2. /\ E.entry[w] = Database.entry[w] /\ E.cart[CartOf[w]] = Database.cart[CartOf[w]]
          /\ Database.cart[CartOf[w]] \notin {"none", "open"} /\ over' = over
      BY <1>1, <1>5, <1>10, <2>1, RowFields
    <3>3. reg[l][own] \in Live => reg'[l][own] \in Live
      BY <1>2, <1>5 DEF Live
    <3> QED BY <3>1, <3>2, <3>3 DEF OfferStands
  <2>5. \A s \in Subjects :
           /\ held'[s] = IF s \in S THEN held[s] + One(h = "active") - One(h = "active")
                         ELSE held[s]
           /\ E.confirmed[s] = IF s \in SubjectsOf[o]
                               THEN Database.confirmed[s] + One(reg'[l][o] = "confirmed")
                                    - One(reg[l][o] = "confirmed")
                               ELSE Database.confirmed[s]
    <3>1. One(h = "active") \in Nat
      BY DEF One
    <3>2. One(reg'[l][o] = "confirmed") = 0 /\ One(reg[l][o] = "confirmed") = 0
      BY <1>1, <1>2, <1>12 DEF One
    <3> QED BY <1>9, <1>10, <2>1, <3>1, <3>2, RowTypes
  <2>6. (\A d \in Carts : CartGood(E, reg', over', d)) /\ HeldRight(E)
    <3>1. \A s \in S : hold[c][s] = h
      BY <1>4, <1>5
    <3>2. \A w \in WaitLines : CartOf[w] # c => entry'[w] = entry[w] /\ over'[w] = over[w]
      BY <1>1, <2>1
    <3>3. \A d \in Carts \ {c} : /\ cart'[d] = cart[d] /\ lines'[d] = lines[d]
                                 /\ hold'[d] = hold[d] /\ deadline'[d] = deadline[d]
      BY <2>1, RowTypes
    <3>4. cart'[c] # "open"
      BY <1>5, <2>1
    <3> QED BY <1>2, <1>4, <1>5, <2>3, <2>4, <2>5, <3>1, <3>2, <3>3, <3>4, CartMoves DEF E
  <2>7. ConfirmedRight(E, reg')
    BY <1>9, <2>5, ConfirmedMoves
  <2>8. InvoicesStand'
    BY <1>7, <1>8, <2>1, SeatsNow, InvoicesGo
  <2> QED BY <2>6, <2>7, <2>8 DEF SeatsRight, SeatRows, E
<1> QED BY <1>11, <1>12

-----------------------------------------------------------------------------
(* Counters follow registrations.                                          *)

\* Before anything happens no place is held and none is confirmed.
LEMMA SeatsStart == LifecycleInit => SeatInv
<1> SUFFICES ASSUME LifecycleInit PROVE LifecycleInv /\ SeatsRight
  BY DEF SeatInv
<1>1. LifecycleInv
  BY LifecycleStarts
<1>2. ASSUME NEW c \in Carts PROVE CartGood(Database, reg, over, c)
  <2>1. NotThere(Database, c)
    BY RowFields DEF LifecycleInit, NotThere
  <2>2. \A w \in WaitLines : OfferStands(Database, reg, over, w)
    BY RowFields DEF LifecycleInit, OfferStands
  <2>3. \A l \in Lines, o \in Offerings : reg[l][o] = "none"
    BY DEF LifecycleInit
  <2>4. Database.cart[c] # "open"
    BY RowFields DEF LifecycleInit
  <2> QED BY <2>1, <2>2, <2>3, <2>4 DEF CartGood
<1>3. HeldRight(Database)
  <2>1. \A s : HeldIn(Database, s) = {}
    BY Parameters, RowFields DEF LifecycleInit, HeldIn
  <2>2. \A s \in Subjects : Database.held[s] = 0
    BY RowFields DEF LifecycleInit
  <2>3. \A s : Cardinality(HeldIn(Database, s)) = 0
    BY <2>1, FS_EmptySet
  <2> QED BY <2>2, <2>3 DEF HeldRight
<1>4. ConfirmedRight(Database, reg)
  <2>1. \A s : SeatedIn(reg, s) = {}
    BY DEF LifecycleInit, SeatedIn
  <2>2. \A s \in Subjects : Database.confirmed[s] = 0
    BY RowFields DEF LifecycleInit
  <2>3. \A s : Cardinality(SeatedIn(reg, s)) = 0
    BY <2>1, FS_EmptySet
  <2> QED BY <2>2, <2>3 DEF ConfirmedRight
<1>5. InvoicesStand
  BY DEF LifecycleInit, InvoicesStand
<1> QED BY <1>1, <1>2, <1>3, <1>4, <1>5 DEF SeatsRight, SeatRows

\* What a behaviour is given stays the same.
LEMMA GivenStays == [LifecycleNext]_lifecycleVars => given' = given
<1> SUFFICES ASSUME [LifecycleNext]_lifecycleVars PROVE given' = given
  OBVIOUS
<1>1. CASE WaitlistStep
  BY <1>1 DEF WaitlistStep, Join, StaffOffer, Accept, CloseEntry, OfferRunsOut, RemindersJob
<1>2. CASE PurchaseStep
  BY ZenonT(60), <1>2 DEF PurchaseStep, StartCart, Quote, StartPayment, PaymentConfirms,
              PaymentFails, HoldExpiryJob, DeadlinePasses
<1>3. CASE StaffStep
  <2>1. \A l \in Lines, o \in Offerings : Cancel(l, o) => given' = given
    BY DEF Cancel
  <2>2. \A l \in Lines, o \in Offerings : DeclineRegistration(l, o) => given' = given
    BY DEF DeclineRegistration
  <2>3. \A l \in Lines, o \in Offerings : ApproveRegistration(l, o) => given' = given
    BY DEF ApproveRegistration
  <2>4. \A l \in Lines, o, p \in Offerings : Transfer(l, o, p) => given' = given
    BY DEF Transfer
  <2> QED BY <1>3, <2>1, <2>2, <2>3, <2>4 DEF StaffStep
<1>4. CASE UNCHANGED lifecycleVars
  BY <1>4 DEF lifecycleVars
<1> QED BY <1>1, <1>2, <1>3, <1>4 DEF LifecycleNext

\* Every step keeps the counters right, when nothing is given that breaks them.
LEMMA SeatSteps == SeatInv /\ [LifecycleNext]_lifecycleVars => SeatInv'
<1> SUFFICES ASSUME SeatInv, [LifecycleNext]_lifecycleVars PROVE SeatInv'
  OBVIOUS
<1>1. LifecycleInv /\ LifecycleInv'
  BY LifecycleSteps DEF SeatInv, GoodStep
<1>2. Clean' => Clean
  BY GivenStays DEF Clean
<1>3. ASSUME Clean PROVE SeatsRight'
  <2>1. SeatsRight
    BY <1>3 DEF SeatInv
  <2>2. CASE WaitlistStep
    BY <1>1, <1>3, <2>1, <2>2, JoinSeats, StaffOfferSeats, AcceptSeats, CloseEntrySeats,
       OfferRunsOutSeats, RemindersJobSeats DEF WaitlistStep
  <2>3. CASE PurchaseStep
    BY <1>1, <1>3, <2>1, <2>3, StartCartSeats, QuoteSeats, StartPaymentSeats,
       PaymentConfirmsSeats, PaymentFailsSeats, HoldExpiryJobSeats, DeadlinePassesSeats
       DEF PurchaseStep
  <2>4. CASE StaffStep
    BY <1>1, <1>3, <2>1, <2>4, CancelSeats, DeclineRegistrationSeats,
       ApproveRegistrationSeats, TransferSeats DEF StaffStep
  <2>5. CASE UNCHANGED lifecycleVars
    <3>1. Database' = Database /\ reg' = reg /\ over' = over
      BY <2>5, SameDatabase DEF lifecycleVars, waitlist
    <3>2. InvoicesStand'
      BY <2>1, <2>5 DEF SeatsRight, InvoicesStand, lifecycleVars, carts
    <3> QED BY <2>1, <3>1, <3>2 DEF SeatsRight
  <2> QED BY <2>2, <2>3, <2>4, <2>5 DEF LifecycleNext
<1> QED BY <1>1, <1>2, <1>3 DEF SeatInv

\* The invariant that relates every hold to its cart and its registration holds
\* in every state.
THEOREM SeatsInductive == LifecycleSpec => []SeatInv
<1> QED BY SeatsStart, SeatSteps, PTL DEF LifecycleSpec

\* Counters follow registrations through payment, approval, cancellation,
\* transfer and offers, for any number of carts, lines and offerings, unless a
\* mishap is given that breaks them (LifecycleReconciled).
THEOREM CountersReconciled == LifecycleSpec => []LifecycleReconciled
<1>1. SeatInv => LifecycleReconciled
  <2> SUFFICES ASSUME SeatInv, Clean, NEW s \in Subjects
               PROVE  /\ held[s] = Cardinality(HeldPlaces(s))
                      /\ confirmed[s] = Cardinality(Seated(s))
    BY DEF LifecycleReconciled, Clean
  <2>1. HeldRight(Database) /\ ConfirmedRight(Database, reg)
    BY DEF SeatInv, SeatsRight, SeatRows
  <2>2. HeldPlaces(s) = HeldIn(Database, s)
    BY RowFields DEF HeldPlaces, HeldIn
  <2>3. Seated(s) = SeatedIn(reg, s)
    BY DEF Seated, SeatedIn
  <2> QED BY <2>1, <2>2, <2>3, RowFields DEF HeldRight, ConfirmedRight
<1> QED BY SeatsInductive, <1>1, PTL

\* The CHECK of the counters survives the steps that do not evaluate it again:
\* places go from held to confirmed and back, or are given back.
LEMMA CheckSteps ==
    LifecycleInv /\ Check(Database) /\ [LifecycleNext]_lifecycleVars => Check(Database)'
<1> SUFFICES ASSUME LifecycleInv, Check(Database), [LifecycleNext]_lifecycleVars
             PROVE  Check(Database)'
  OBVIOUS
<1>1. /\ Database \in Databases /\ confirmed \in [Subjects -> Nat] /\ held \in [Subjects -> Nat]
      /\ \A s \in Subjects : confirmed[s] + held[s] <= Capacity[s]
      /\ \A s \in Subjects : Capacity[s] \in Nat
  BY DatabaseFields, LifecycleAssumption, RowFields DEF LifecycleInv, LifecycleTypeOK, Check
<1>2. \A c \in Carts, s \in Subjects : Places(Database, c, s) \in Nat
  BY <1>1, PlacesCounted
<1>3. ASSUME \A s \in Subjects : confirmed'[s] + held'[s] <= confirmed[s] + held[s],
             confirmed' \in [Subjects -> Int], held' \in [Subjects -> Int]
      PROVE  Check(Database)'
  BY <1>1, <1>3, NextFields DEF Check
<1>4. ASSUME NEW E, Check(E), Write(E) PROVE Check(Database)'
  BY <1>4, NextFields DEF Check, Write
<1>5. ASSUME NEW D, NEW o, AdvanceAndWrite(D, o) PROVE Check(Database)'
  BY <1>4, <1>5 DEF AdvanceAndWrite
<1>6. ASSUME UNCHANGED counts PROVE Check(Database)'
  BY <1>1, <1>3, <1>6 DEF counts
<1>7. ASSUME NEW c \in Carts, Write(ConfirmPlaces(Database, c)) PROVE Check(Database)'
  <2>1. /\ held' = [s \in Subjects |-> held[s] - Places(Database, c, s)]
        /\ confirmed' = [s \in Subjects |-> confirmed[s] + Places(Database, c, s)]
    BY <1>7, RowFields DEF Write, ConfirmPlaces, MarkActive, Database
  <2> QED BY <1>1, <1>2, <1>3, <2>1
<1>8. CASE WaitlistStep
  <2>1. ASSUME NEW w \in WaitLines, StaffOffer(w) PROVE Check(Database)'
    BY <1>4, <2>1 DEF StaffOffer
  <2>2. ASSUME NEW w \in WaitLines, CloseEntry(w) PROVE Check(Database)'
    BY <1>5, <2>2 DEF CloseEntry
  <2>3. ASSUME RemindersJob PROVE Check(Database)'
    BY <1>4, <2>3 DEF RemindersJob
  <2> QED BY <1>6, <1>8, <2>1, <2>2, <2>3 DEF WaitlistStep, Join, Accept, OfferRunsOut
<1>9. CASE PurchaseStep
  <2>1. ASSUME NEW c \in Carts, NEW L, StartCart(c, L) PROVE Check(Database)'
    BY <1>4, <2>1 DEF StartCart
  <2>2. ASSUME NEW c \in Carts, NEW free, Quote(c, free) PROVE Check(Database)'
    <3>1. \/ Write(ConfirmPlaces(Database, c))
          \/ UNCHANGED counts
      BY <2>2 DEF Quote, Write, Database, counts
    <3> QED BY <1>6, <1>7, <3>1
  <2>3. ASSUME NEW c \in Carts, NEW settled, PaymentConfirms(c, settled)
        PROVE  Check(Database)'
    BY <1>6, <1>7, <2>3 DEF PaymentConfirms
  <2>4. ASSUME NEW c \in Carts, PaymentFails(c) PROVE Check(Database)'
    <3> DEFINE back(s) == IF hold[c][s] = "converted" THEN Places(Database, c, s) ELSE 0
    <3>1. CASE Keepable(c)
      <4>1. /\ confirmed' = [s \in Subjects |-> confirmed[s] - back(s)]
            /\ held' = [s \in Subjects |-> held[s] + back(s)]
        BY <2>4, <3>1 DEF PaymentFails, Write, Database
      <4>2. \A s \in Subjects : back(s) \in Nat
        BY <1>2
      <4> HIDE DEF back
      <4> QED BY <1>1, <1>3, <4>1, <4>2
    <3>2. CASE ~Keepable(c)
      BY <1>6, <2>4, <3>2 DEF PaymentFails
    <3> QED BY <3>1, <3>2
  <2>5. ASSUME NEW c \in Carts, HoldExpiryJob(c) PROVE Check(Database)'
    <3> DEFINE D == MarkActive(Database, c, "released")
    <3>1. /\ confirmed' = confirmed
          /\ held' = [s \in Subjects |->
                IF hold[c][s] = "active" THEN held[s] - Places(D, c, s) ELSE held[s]]
      BY <2>5 DEF HoldExpiryJob, Write, MarkActive, Database
    <3>2. D.lines = Database.lines
      BY DEF MarkActive, Database
    <3> HIDE DEF D
    <3>3. \A s \in Subjects : Places(D, c, s) \in Nat
      BY <1>2, <3>2 DEF Places, In
    <3> QED BY <1>1, <1>3, <3>1, <3>3
  <2> QED BY <1>6, <1>9, <2>1, <2>2, <2>3, <2>4, <2>5
          DEF PurchaseStep, StartPayment, DeadlinePasses
<1>10. CASE StaffStep
  <2>1. ASSUME NEW l \in Lines, NEW o \in Offerings, Cancel(l, o) PROVE Check(Database)'
    BY <1>5, <2>1 DEF Cancel
  <2>2. ASSUME NEW l \in Lines, NEW o \in Offerings, DeclineRegistration(l, o)
        PROVE  Check(Database)'
    BY <1>5, <2>2 DEF DeclineRegistration
  <2>3. ASSUME NEW l \in Lines, NEW o \in Offerings, NEW p \in Offerings, Transfer(l, o, p)
        PROVE  Check(Database)'
    BY <1>5, <2>3 DEF Transfer
  <2>4. ASSUME NEW l \in Lines, NEW o \in Offerings, ApproveRegistration(l, o)
        PROVE  Check(Database)'
    <3> DEFINE c == CartOf[l]
    <3>1. c \in Carts
      BY Parameters
    <3>2. CASE invoice[c] = "free"
      <4>1. /\ confirmed' = [s \in Subjects |->
                 IF hold[c][s] = "active" THEN confirmed[s] + Places(Database, c, s)
                 ELSE confirmed[s]]
            /\ held' = [s \in Subjects |->
                 IF hold[c][s] = "active" THEN held[s] - Places(Database, c, s) ELSE held[s]]
        BY <2>4, <3>2 DEF ApproveRegistration, Write, MarkActive, Database
      <4> QED BY <1>1, <1>2, <1>3, <3>1, <4>1
    <3>3. CASE invoice[c] # "free"
      <4>1. UNCHANGED counts
        BY <2>4, <3>3 DEF ApproveRegistration, Write, Database, counts
      <4> QED BY <1>6, <4>1
    <3> QED BY <3>2, <3>3
  <2> QED BY <1>10, <2>1, <2>2, <2>3, <2>4 DEF StaffStep
<1>11. CASE UNCHANGED lifecycleVars
  BY <1>6, <1>11 DEF lifecycleVars
<1> QED BY <1>8, <1>9, <1>10, <1>11 DEF LifecycleNext

\* Held and confirmed places fit the capacity in every state, whatever mishaps
\* a behaviour is given: the CHECK of the migrations is never met half-way.
THEOREM CountersFit == LifecycleSpec => []Check(Database)
<1>1. LifecycleInit => Check(Database)
  BY LifecycleAssumption, RowFields DEF LifecycleInit, Check
<1> QED BY LifecycleInductive, CheckSteps, <1>1, PTL DEF LifecycleSpec

\* Zero oversell (SeatsFit): no more registrations are confirmed than there are
\* places, for any capacity, unless a mishap is given that breaks the counters.
\* The late failure does oversell.
THEOREM NothingOversold == LifecycleSpec => [](Clean => SeatsFit)
<1>1. SeatInv /\ Check(Database) => (Clean => SeatsFit)
  <2> SUFFICES ASSUME SeatInv, Check(Database), Clean, NEW s \in Subjects
               PROVE  Cardinality(Seated(s)) <= Capacity[s]
    BY DEF SeatsFit
  <2>1. LifecycleTypeOK /\ ConfirmedRight(Database, reg)
    BY DEF SeatInv, LifecycleInv, SeatsRight, SeatRows
  <2>2. Seated(s) = SeatedIn(reg, s)
    BY DEF Seated, SeatedIn
  <2>3. /\ Cardinality(Seated(s)) = confirmed[s]
        /\ confirmed[s] \in Nat /\ held[s] \in Nat /\ Capacity[s] \in Nat
        /\ confirmed[s] + held[s] <= Capacity[s]
    BY <2>1, <2>2, LifecycleAssumption, RowFields DEF ConfirmedRight, LifecycleTypeOK, Check
  <2> QED BY <2>3
<1> QED BY SeatsInductive, CountersFit, <1>1, PTL
=============================================================================
