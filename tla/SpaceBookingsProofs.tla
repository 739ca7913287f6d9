------------------------ MODULE SpaceBookingsProofs ------------------------
(***************************************************************************)
(* Proofs about SpaceBookings, for every set of spaces, events,            *)
(* allocations and sessions: the hierarchy stays a forest, and who has a   *)
(* space has all of its leaves and nothing else.                           *)
(***************************************************************************)
EXTENDS SpaceBookings, FoldLemmas

-----------------------------------------------------------------------------
(* Hierarchies: T gives the spaces of its domain their parents.            *)

IsTree(T) ==
    /\ DOMAIN T \in SUBSET Spaces
    /\ \A s \in DOMAIN T : T[s] \in DOMAIN T \cup {Top}

\* With each of its members C has the parts of that member.
Closed(T, C) == \A c \in DOMAIN T : T[c] \in C => c \in C

Down(T, s) ==
    {c \in DOMAIN T : \A C \in SUBSET DOMAIN T : s \in C /\ Closed(T, C) => c \in C}

Parts(T, s) == {c \in DOMAIN T : T[c] = s}
Ends(T, s) == {l \in Down(T, s) : Parts(T, l) = {}}
Acyclic(T) == \A c \in DOMAIN T : T[c] \notin Down(T, c)

\* What is in s is s, and the parts of what is in s.
LEMMA DownIsClosed ==
    ASSUME NEW T, NEW s
    PROVE  /\ Down(T, s) \in SUBSET DOMAIN T
           /\ Closed(T, Down(T, s))
           /\ s \in DOMAIN T => s \in Down(T, s)
BY DEF Down, Closed

\* Nothing else is.
LEMMA DownIsLeast ==
    ASSUME NEW T, NEW s, NEW C \in SUBSET DOMAIN T, s \in C, Closed(T, C)
    PROVE  Down(T, s) \subseteq C
BY DEF Down

\* What is in a part of s is in s.
LEMMA DownOfPart ==
    ASSUME NEW T, NEW s, NEW x \in Down(T, s)
    PROVE  Down(T, x) \subseteq Down(T, s) /\ Ends(T, x) \subseteq Ends(T, s)
<1>1. Down(T, x) \subseteq Down(T, s)
  BY DownIsClosed, DownIsLeast
<1> QED BY <1>1 DEF Ends

\* A space with leaves has no part without: where spaces have no leaves they
\* are each other's parts, and what contains one of them is one of them.
LEMMA PartsHaveEnds ==
    ASSUME NEW T, IsTree(T), NEW s \in DOMAIN T, NEW x \in Down(T, s), Ends(T, s) # {}
    PROVE  Ends(T, x) # {}
<1> SUFFICES ASSUME Ends(T, x) = {} PROVE FALSE
  OBVIOUS
<1> DEFINE C == Down(T, x)
           B == {c \in C : T[c] \in C}
           up == [c \in B |-> T[c]]
<1>1. /\ C \in SUBSET DOMAIN T /\ Closed(T, C) /\ x \in C
  BY DownIsClosed
<1>2. IsFiniteSet(C) /\ IsFiniteSet(B) /\ B \subseteq C
  <2>1. IsFiniteSet(Spaces) /\ C \in SUBSET Spaces
    BY <1>1, SpacesAssumption DEF IsTree
  <2>2. IsFiniteSet(C)
    <3> HIDE DEF C
    <3> QED BY <2>1, FS_Subset
  <2>3. B \in SUBSET C
    OBVIOUS
  <2> HIDE DEF B, C
  <2> QED BY <2>2, <2>3, FS_Subset
<1>3. up \in Surjection(B, C)
  <2>1. up \in [B -> C]
    OBVIOUS
  <2>2. ASSUME NEW c \in C PROVE \E d \in B : up[d] = c
    <3>1. PICK d \in DOMAIN T : T[d] = c
      BY <1>1 DEF Ends, Parts
    <3>2. d \in C
      BY <1>1, <3>1 DEF Closed
    <3> QED BY <3>1, <3>2
  <2> HIDE DEF up, B, C
  <2> QED BY <2>1, <2>2 DEF Surjection
<1>4. B = C
  <2>1. Cardinality(C) <= Cardinality(B)
    <3> HIDE DEF up, B, C
    <3> QED BY <1>2, <1>3, FS_Surjection
  <2>2. Cardinality(B) <= Cardinality(C) /\ (Cardinality(C) = Cardinality(B) => C = B)
    <3>1. B \in SUBSET C
      OBVIOUS
    <3> HIDE DEF B, C
    <3> QED BY <1>2, <3>1, FS_Subset
  <2>3. Cardinality(B) \in Nat /\ Cardinality(C) \in Nat
    <3> HIDE DEF B, C
    <3> QED BY <1>2, FS_CardinalityType
  <2> HIDE DEF B, C
  <2> QED BY <2>1, <2>2, <2>3
<1>5. s \in C
  <2> SUFFICES ASSUME s \notin C PROVE FALSE
    OBVIOUS
  <2>1. Closed(T, DOMAIN T \ C)
    BY <1>4 DEF Closed
  <2>2. Down(T, s) \subseteq DOMAIN T \ C
    <3> HIDE DEF C
    <3> QED BY <2>1, DownIsLeast
  <2> QED BY <1>1, <2>2
<1>6. Ends(T, s) \subseteq Ends(T, x)
  BY <1>5, DownOfPart
<1> QED BY <1>6

-----------------------------------------------------------------------------
(* Hierarchies that change: U is T with the space n put below q.           *)

Moved(T, U, n, q) ==
    /\ DOMAIN U = DOMAIN T \cup {n}
    /\ U[n] = q
    /\ \A c \in DOMAIN T \ {n} : U[c] = T[c]

LEMMA MovedIsTree ==
    ASSUME NEW T, IsTree(T), NEW n \in Spaces, NEW q \in DOMAIN T \cup {Top},
           NEW U, Moved(T, U, n, q)
    PROVE  IsTree(U)
BY DEF IsTree, Moved

\* A move from outside of s to outside of s changes nothing in it.
LEMMA MovedElsewhere ==
    ASSUME NEW T, NEW n, NEW q, NEW U, Moved(T, U, n, q), NEW s \in DOMAIN T,
           n \notin Down(T, s), q \notin Down(T, s)
    PROVE  Down(U, s) = Down(T, s) /\ Ends(U, s) = Ends(T, s)
<1> DEFINE D == Down(T, s)
<1>1. D \in SUBSET DOMAIN T /\ Closed(T, D) /\ s \in D
  BY DownIsClosed
<1>2. \A c \in DOMAIN U : U[c] \in D <=> c \in DOMAIN T \ {n} /\ T[c] \in D
  BY DEF Moved
<1>3. Down(U, s) \subseteq D
  <2>1. D \in SUBSET DOMAIN U /\ Closed(U, D)
    BY <1>1, <1>2 DEF Moved, Closed
  <2> HIDE DEF D
  <2> QED BY <1>1, <2>1, DownIsLeast
<1>4. D \subseteq Down(U, s)
  <2>1. Closed(U, Down(U, s)) /\ s \in Down(U, s)
    BY DownIsClosed DEF Moved
  <2>2. Closed(T, D \cap Down(U, s))
    <3> SUFFICES ASSUME NEW c \in DOMAIN T, T[c] \in D, T[c] \in Down(U, s)
                 PROVE  c \in D /\ c \in Down(U, s)
      BY DEF Closed
    <3>1. c \in D /\ c # n
      BY <1>1 DEF Closed
    <3>2. c \in DOMAIN U /\ U[c] = T[c]
      BY <3>1 DEF Moved
    <3> HIDE DEF D
    <3> QED BY <2>1, <3>1, <3>2 DEF Closed
  <2>3. D \cap Down(U, s) \in SUBSET DOMAIN T /\ s \in D \cap Down(U, s)
    BY <1>1, <2>1
  <2>4. D \subseteq D \cap Down(U, s)
    BY <2>2, <2>3, DownIsLeast
  <2> QED BY <2>4
<1>5. \A l \in D : Parts(U, l) = {} <=> Parts(T, l) = {}
  <2> SUFFICES ASSUME NEW l \in D PROVE Parts(U, l) = Parts(T, l)
    OBVIOUS
  <2>1. n \notin D /\ l # q
    OBVIOUS
  <2>2. \A c \in DOMAIN T : T[c] = l => c \in D
    BY <1>1 DEF Closed
  <2> HIDE DEF D
  <2> QED BY <2>1, <2>2 DEF Parts, Moved
<1> QED BY <1>3, <1>4, <1>5 DEF Ends

\* Nothing is below itself after a move that puts nothing below what it is in,
\* new spaces included.
LEMMA MovedStaysAcyclic ==
    ASSUME NEW T, IsTree(T), Acyclic(T), NEW n \in Spaces, NEW q \in DOMAIN T \cup {Top},
           n \in DOMAIN T => q \notin Down(T, n),
           NEW U, Moved(T, U, n, q)
    PROVE  Acyclic(U)
<1> DEFINE N == IF n \in DOMAIN T THEN Down(T, n) ELSE {n}
<1>0. DOMAIN T \in SUBSET Spaces /\ Top \notin Spaces
  BY SpacesAssumption DEF IsTree
<1>1. /\ N \in SUBSET DOMAIN U /\ n \in N /\ q \notin N
      /\ \A c \in DOMAIN T : T[c] \in N => c \in N
  <2>1. CASE n \in DOMAIN T
    BY <2>1, DownIsClosed DEF Moved, Closed
  <2>2. CASE n \notin DOMAIN T
    <3>1. q # n /\ \A c \in DOMAIN T : T[c] # n
      BY <1>0, <2>2 DEF IsTree
    <3> QED BY <2>2, <3>1 DEF Moved
  <2> QED BY <2>1, <2>2
<1>2. Closed(U, N)
  BY <1>1 DEF Closed, Moved
<1> SUFFICES ASSUME NEW c \in DOMAIN U PROVE U[c] \notin Down(U, c)
  BY DEF Acyclic
<1>3. CASE c = n
  <2>1. Down(U, n) \subseteq N
    <3> HIDE DEF N
    <3> QED BY <1>1, <1>2, DownIsLeast
  <2> HIDE DEF N
  <2> QED BY <1>1, <1>3, <2>1 DEF Moved
<1>4. CASE c # n /\ c \in N
  <2>1. c \in DOMAIN T /\ n \in DOMAIN T /\ U[c] = T[c] /\ N = Down(T, n)
    BY <1>4 DEF Moved
  <2>2. Down(T, c) \subseteq N
    BY <1>4, <2>1, DownOfPart
  <2>3. Down(T, c) \in SUBSET DOMAIN U /\ c \in Down(T, c)
    BY <2>1, DownIsClosed DEF Moved
  <2>4. Closed(U, Down(T, c))
    <3> SUFFICES ASSUME NEW d \in DOMAIN U, U[d] \in Down(T, c) PROVE d \in Down(T, c)
      BY DEF Closed
    <3>1. d # n
      BY <1>1, <2>2 DEF Moved
    <3> QED BY <3>1, DownIsClosed DEF Moved, Closed
  <2>5. T[c] \notin Down(T, c)
    BY <2>1 DEF Acyclic
  <2> QED BY <2>1, <2>3, <2>4, <2>5, DownIsLeast
<1>5. CASE c \notin N
  <2>1. c \in DOMAIN T /\ U[c] = T[c] /\ T[c] \notin N /\ T[c] \notin Down(T, c)
    BY <1>1, <1>5 DEF Moved, Acyclic
  <2> DEFINE C == Down(T, c) \cup N
  <2>2. C \in SUBSET DOMAIN U /\ c \in C
    BY <1>1, <2>1, DownIsClosed DEF Moved
  <2>3. Closed(U, C)
    <3> SUFFICES ASSUME NEW d \in DOMAIN U, U[d] \in C PROVE d \in C
      BY DEF Closed
    <3> HIDE DEF N
    <3> QED BY <1>1, DownIsClosed DEF Moved, Closed
  <2>4. Down(U, c) \subseteq C
    <3> HIDE DEF C
    <3> QED BY <2>2, <2>3, DownIsLeast
  <2> QED BY <2>1, <2>4
<1> QED BY <1>1, <1>3, <1>4, <1>5

\* A new space n does not come between the spaces there were.
LEMMA AddedBelow ==
    ASSUME NEW T, IsTree(T), NEW n \in Spaces \ DOMAIN T, NEW q \in DOMAIN T,
           NEW U, Moved(T, U, n, q), NEW s \in DOMAIN T
    PROVE  Down(U, s) \subseteq Down(T, s) \cup {n}
<1> DEFINE C == Down(T, s) \cup {n}
<1>1. C \in SUBSET DOMAIN U /\ s \in C
  BY DownIsClosed DEF Moved
<1>2. Closed(U, C)
  <2> SUFFICES ASSUME NEW c \in DOMAIN T, T[c] \in C PROVE c \in C
    BY DEF Moved, Closed
  <2>1. T[c] # n
    BY SpacesAssumption DEF IsTree
  <2> QED BY <2>1, DownIsClosed DEF Closed
<1> HIDE DEF C
<1>3. Down(U, s) \subseteq C
  BY <1>1, <1>2, DownIsLeast
<1> QED BY <1>3 DEF C

-----------------------------------------------------------------------------
(* The inductive invariant: transactions.                                  *)

\* What a transaction has read and is to write, where D are the spaces that exist.
TxTyped(D, x) ==
    /\ x.kind \in {"idle"} \cup Booking \cup Building
    /\ x.kind = "book" =>
          /\ x.event \in Events /\ x.space \in D /\ x.slot \in Slots
          /\ x.leaves \in SUBSET Spaces /\ x.status \in {"scheduled", "postponed"}
          /\ \E v \in 0 .. MaxVersion - 1 : x.read = {<<x.event, v>>}
    /\ x.kind = "close" =>
          /\ x.closure \in (D \cup {Facility}) \X Slots
          /\ \A r \in x.read : r[1] \in Events /\ r[2] \in 1 .. MaxVersion - 1
    /\ x.kind = "block" =>
          /\ x.block \in Blocks /\ x.space \in D
          /\ x.slots \in SUBSET Slots /\ x.leaves \in SUBSET Spaces
    /\ x.kind = "practice" =>
          /\ x.block \in Blocks /\ x.slot \in Slots
          /\ x.event \in Events /\ x.leaves \in SUBSET Spaces
    /\ x.kind \in Building => x.space \in Spaces /\ x.parent \in D \cup {Top}
    /\ x.kind = "add" => x.parent \in D
    /\ x.kind = "move" => x.space \in D

TxsTyped ==
    /\ tx = [p \in Sessions |-> tx[p]]
    /\ \A p \in Sessions : TxTyped(DOMAIN tree, tx[p])

\* Of the two transactions of a row that is yet to be written, one is idle.
Makes(x, e) == x.kind \in {"book", "practice"} /\ x.event = e
NewRows ==
    /\ \A p \in Busy({"add"}) :
          /\ tx[p].space \notin DOMAIN tree
          /\ \A q \in Busy(Building) \ {p} : tx[q].space # tx[p].space
    /\ \A p \in Busy({"block"}) :
          /\ block[tx[p].block] = Top
          /\ \A q \in Busy({"block"}) \ {p} : tx[q].block # tx[p].block
    /\ \A p \in Busy({"practice"}) :
          /\ event[tx[p].event] = None
          /\ block[tx[p].block] # Top
          /\ \A q \in Sessions \ {p} : ~Makes(tx[q], tx[p].event)

\* One space moves at a time, to where it does not contain itself.
OneMoves ==
    Mishap("crossing") \/
        \A p \in Busy({"move"}) :
            /\ tx[p].parent \notin Down(tree, tx[p].space)
            /\ \A q \in Busy({"move"}) : q = p

\* Nobody asks for slots of an allocation that does not exist.
Requests == \A b \in Blocks, t \in Slots : block[b] = Top => request[<<b, t>>] = "none"

TypeInv == SpacesTypeOK /\ TxsTyped /\ NewRows /\ OneMoves /\ Requests

-----------------------------------------------------------------------------
(* The inductive invariant: bookings.                                      *)

Careful == given.mishaps \cap {"race", "divided", "detached"} = {}

Place(h) == IF h \in Events THEN event[h].space ELSE block[h]
Has(h, t) == Reserved(h, t) # {}

\* Who has rows at an interval has one for each leaf of one space.
WholeSpaces ==
    \A h \in Holders, t \in Slots : Has(h, t) =>
        Place(h) \in DOMAIN tree /\ Reserved(h, t) = Ends(tree, Place(h))

EventHolds(e) ==
    /\ \A t \in Slots : Has(e, t) =>
          t = event[e].slot /\ (Live(event[e].status) \/ Mishap("revived"))
    /\ Live(event[e].status) => Has(e, event[e].slot)
EventsHold == \A e \in Events : EventHolds(e)

BlocksHold == \A b \in Blocks, t \in Slots : Has(b, t) => request[<<b, t>>] # "approved"

\* The hierarchy changes while nobody books, and not in what is booked.
Excluded == Busy(Building) = {} \/ Busy(Booking) = {}
Apart(s) == \A h \in Holders, t \in Slots : Has(h, t) => s \notin Down(tree, Place(h))
BuiltApart == \A p \in Busy(Building) : Apart(tx[p].space) /\ Apart(tx[p].parent)

\* The leaves that a booking has read are still those of its space.
LeavesRead ==
    /\ \A p \in Busy({"book"}) :
          /\ tx[p].leaves = Ends(tree, tx[p].space) /\ tx[p].leaves # {}
          /\ Live(tx[p].status) \/ Mishap("revived")
    /\ \A p \in Busy({"block"}) : tx[p].leaves = Ends(tree, tx[p].space)
    /\ \A p \in Busy({"practice"}) :
          tx[p].leaves = Ends(tree, block[tx[p].block]) /\ tx[p].leaves # {}

RowsInv ==
    Careful =>
        WholeSpaces /\ EventsHold /\ BlocksHold /\ Excluded /\ BuiltApart /\ LeavesRead

SpacesInv == TypeInv /\ RowsInv

-----------------------------------------------------------------------------
(* Types.                                                                  *)

LEMMA Hierarchy ==
    /\ \A s : /\ Within(s) = Down(tree, s) /\ Within(s)' = Down(tree', s)
              /\ Children(s) = Parts(tree, s) /\ Children(s)' = Parts(tree', s)
              /\ Leaves(s) = Ends(tree, s) /\ Leaves(s)' = Ends(tree', s)
    /\ Forest <=> Acyclic(tree)
    /\ Forest' <=> Acyclic(tree')
<1>1. \A s : Within(s) = Down(tree, s) /\ Within(s)' = Down(tree', s)
  BY DEF Within, Whole, Down, Closed
<1>2. \A s : Children(s) = Parts(tree, s) /\ Children(s)' = Parts(tree', s)
  BY DEF Children, Parts
<1>3. \A s : Leaves(s) = Ends(tree, s) /\ Leaves(s)' = Ends(tree', s)
  BY <1>1, <1>2 DEF Leaves, Ends
<1>4. /\ \A c \in DOMAIN tree : tree[c] \in Down(tree, c) => tree[c] \in DOMAIN tree
      /\ \A c \in DOMAIN tree' : tree'[c] \in Down(tree', c) => tree'[c] \in DOMAIN tree'
  BY DownIsClosed
<1>5. Forest <=> \A s \in DOMAIN tree : \A c \in Children(s) : s \notin Down(tree, c)
  BY <1>1 DEF Forest, InTree
<1>6. Forest' <=> \A s \in DOMAIN tree' : \A c \in Children(s)' : s \notin Down(tree', c)
  BY <1>1 DEF Forest, InTree
<1>7. Forest <=> Acyclic(tree)
  BY <1>4, <1>5 DEF Acyclic, Children
<1>8. Forest' <=> Acyclic(tree')
  BY <1>4, <1>6 DEF Acyclic, Children
<1> QED BY <1>1, <1>2, <1>3, <1>7, <1>8

LEMMA TreeIsTree == ASSUME SpacesTypeOK PROVE IsTree(tree)
BY DEF SpacesTypeOK, IsTree

LEMMA GivenTypes ==
    ASSUME SpacesTypeOK
    PROVE  /\ given.offices \in SUBSET Offices /\ given.mishaps \in SUBSET AllMishaps
           /\ given.events \in SUBSET Events /\ given.slots \in SUBSET Slots
           /\ given.changes \in 0 .. MaxVersion
BY SpacesAssumption DEF SpacesTypeOK

LEMMA EventTypes ==
    ASSUME SpacesTypeOK, NEW e \in Events
    PROVE  /\ event[e].version \in 0 .. MaxVersion
           /\ event[e] = None <=> event[e].version = 0
           /\ event[e] = None => ~Live(event[e].status) /\ event[e].space = Top
           /\ event[e] # None =>
                 /\ event[e].status \in {"scheduled", "postponed"}
                 /\ event[e].space \in DOMAIN tree /\ event[e].slot \in Slots
BY SpacesAssumption DEF SpacesTypeOK, None, Live

LEMMA TxBegins ==
    ASSUME TxsTyped, NEW p \in Sessions, NEW x, Begin(p, x)
    PROVE  /\ tx[p] = Idle /\ tx'[p] = x
           /\ tx' = [q \in Sessions |-> tx'[q]]
           /\ \A q \in Sessions \ {p} : tx'[q] = tx[q]
BY DEF TxsTyped, Begin

LEMMA TxEnds ==
    ASSUME TxsTyped, NEW p \in Sessions, End(p)
    PROVE  /\ tx'[p] = Idle
           /\ tx' = [q \in Sessions |-> tx'[q]]
           /\ \A q \in Sessions \ {p} : tx'[q] = tx[q]
BY DEF TxsTyped, End

LEMMA IdleIsTyped == ASSUME NEW D PROVE TxTyped(D, Idle)
BY DEF TxTyped, Idle, Booking, Building

LEMMA TypedStays ==
    ASSUME NEW D, NEW F, D \subseteq F, NEW x, TxTyped(D, x)
    PROVE  TxTyped(F, x)
BY DEF TxTyped

\* What the start of a transaction x needs for the types.
MayBegin(x) ==
    /\ TxTyped(DOMAIN tree, x)
    /\ x.kind = "add" =>
          x.space \notin DOMAIN tree /\ \A q \in Busy(Building) : tx[q].space # x.space
    /\ x.kind = "move" =>
          \/ Mishap("crossing")
          \/ Busy({"move"}) = {} /\ x.parent \notin Down(tree, x.space)
    /\ x.kind = "block" =>
          block[x.block] = Top /\ \A q \in Busy({"block"}) : tx[q].block # x.block
    /\ x.kind = "book" => \A q \in Busy({"practice"}) : tx[q].event # x.event
    /\ x.kind = "practice" =>
          /\ event[x.event] = None /\ block[x.block] # Top
          /\ \A q \in Busy({"book", "practice"}) : tx[q].event # x.event

LEMMA BeginKeepsTypes ==
    ASSUME TypeInv, NEW p \in Sessions, NEW x, Begin(p, x), MayBegin(x),
           UNCHANGED <<given, Data>>
    PROVE  TypeInv'
<1>0. /\ given' = given /\ tree' = tree /\ booked' = booked /\ event' = event
      /\ closed' = closed /\ block' = block /\ request' = request
  BY DEF Data
<1>1. /\ tx[p] = Idle /\ tx'[p] = x
      /\ tx' = [q \in Sessions |-> tx'[q]]
      /\ \A q \in Sessions \ {p} : tx'[q] = tx[q]
  BY TxBegins DEF TypeInv
<1>2. TxsTyped'
  BY <1>0, <1>1 DEF TypeInv, TxsTyped, MayBegin
<1>3. SpacesTypeOK'
  <2>1. \A q \in Sessions : tx'[q].kind \in {"idle"} \cup Booking \cup Building
    BY <1>2 DEF TxsTyped, TxTyped, Booking, Building
  <2>2. Mishap("crossing")' \/ Forest'
    BY <1>0, Hierarchy DEF TypeInv, SpacesTypeOK, Mishap
  <2> QED BY <1>0, <2>1, <2>2 DEF TypeInv, SpacesTypeOK, Booking, Building
<1>4. NewRows'
  <2>1. ASSUME NEW q \in Busy({"add"})'
        PROVE  /\ tx'[q].space \notin DOMAIN tree
               /\ \A r \in Busy(Building)' \ {q} : tx'[r].space # tx'[q].space
    <3>1. "add" \in Building /\ "idle" \notin Building
      BY DEF Building
    <3>2. CASE q = p
      BY <1>1, <2>1, <3>1, <3>2 DEF MayBegin, Busy
    <3>3. CASE q # p
      <4>1. q \in Busy({"add"}) /\ tx'[q] = tx[q]
        BY <1>1, <2>1, <3>3 DEF Busy
      <4>2. tx'[p].kind \in Building => tx'[p].space # tx[q].space
        BY <1>1, <3>1, <4>1 DEF TypeInv, TxsTyped, NewRows, MayBegin, TxTyped, Busy, Building
      <4> QED BY <1>1, <4>1, <4>2 DEF TypeInv, NewRows, Busy
    <3> QED BY <3>2, <3>3
  <2>2. ASSUME NEW q \in Busy({"block"})'
        PROVE  /\ block[tx'[q].block] = Top
               /\ \A r \in Busy({"block"})' \ {q} : tx'[r].block # tx'[q].block
    BY <1>1, <2>2 DEF TypeInv, NewRows, MayBegin, Busy
  <2>3. ASSUME NEW q \in Busy({"practice"})'
        PROVE  /\ event[tx'[q].event] = None
               /\ block[tx'[q].block] # Top
               /\ \A r \in Sessions \ {q} : ~Makes(tx'[r], tx'[q].event)
    BY <1>1, <2>3 DEF TypeInv, NewRows, MayBegin, Busy, Makes
  <2> QED BY <1>0, <2>1, <2>2, <2>3 DEF NewRows
<1>5. OneMoves'
  BY <1>0, <1>1 DEF TypeInv, OneMoves, MayBegin, Mishap, Busy, Idle
<1>6. Requests'
  BY <1>0 DEF TypeInv, Requests
<1> QED BY <1>2, <1>3, <1>4, <1>5, <1>6 DEF TypeInv

LEMMA LeavesAreSpaces ==
    ASSUME SpacesTypeOK, NEW s PROVE Leaves(s) \in SUBSET Spaces
BY Hierarchy, DownIsClosed, TreeIsTree DEF Leaves, IsTree

LEMMA BookTypes ==
    ASSUME TypeInv, NEW p \in Sessions, NEW e \in Events, NEW s \in DOMAIN tree,
           NEW t \in Slots, CreateEvent(p, e, s, t) \/ UpdateEvent(p, e, s, t)
    PROVE  TypeInv'
<1>1. PICK status \in {"scheduled", "postponed"} : BookEvent(p, e, s, t, status)
  BY EventTypes DEF TypeInv, CreateEvent, UpdateEvent
<1> DEFINE x == [kind |-> "book", event |-> e, space |-> s, slot |-> t,
                 leaves |-> Leaves(s), status |-> status, read |-> Read({e})]
<1>2. Begin(p, x) /\ UNCHANGED <<given, Data>> /\ event[e].version < given.changes
  BY <1>1 DEF BookEvent
<1>3. x.read = {<<e, event[e].version>>} /\ event[e].version \in 0 .. MaxVersion - 1
  BY <1>2, EventTypes, GivenTypes, SpacesAssumption DEF Read, TypeInv
<1>4. TxTyped(DOMAIN tree, x)
  BY <1>1, <1>3, LeavesAreSpaces DEF TypeInv, TxTyped, Booking, Building
<1>5. \A q \in Busy({"practice"}) : tx[q].event # e
  BY DEF TypeInv, NewRows, CreateEvent, UpdateEvent, Fresh, Busy
<1> HIDE DEF x
<1>6. x.kind = "book" /\ x.event = e
  BY DEF x
<1>7. MayBegin(x)
  BY <1>4, <1>5, <1>6 DEF MayBegin
<1> QED BY <1>2, <1>7, BeginKeepsTypes

LEMMA CloseTypes ==
    ASSUME TypeInv, NEW p \in Sessions, NEW scope \in DOMAIN tree \cup {Facility},
           NEW t \in Slots, CreateClosure(p, scope, t)
    PROVE  TypeInv'
<1> DEFINE x == [kind |-> "close", closure |-> <<scope, t>>, read |-> Read(Affected(scope, t))]
<1>1. /\ Begin(p, x) /\ UNCHANGED <<given, Data>>
      /\ \A e \in Affected(scope, t) : event[e].version < given.changes
  BY DEF CreateClosure
<1>2. ASSUME NEW r \in x.read PROVE r[1] \in Events /\ r[2] \in 1 .. MaxVersion - 1
  <2>1. PICK e \in Affected(scope, t) : r = <<e, event[e].version>>
    BY DEF Read
  <2>2. e \in Events /\ Live(event[e].status) /\ event[e].version < given.changes
    BY <1>1, <2>1 DEF Affected
  <2> QED BY <2>1, <2>2, EventTypes, GivenTypes, SpacesAssumption DEF TypeInv
<1>3. TxTyped(DOMAIN tree, x)
  BY <1>2 DEF TxTyped, Booking, Building
<1>4. MayBegin(x)
  BY <1>3 DEF MayBegin
<1> QED BY <1>1, <1>4, BeginKeepsTypes

LEMMA BlockTypes ==
    ASSUME TypeInv, NEW p \in Sessions, NEW b \in Blocks, NEW s \in DOMAIN tree,
           NEW slots \in SUBSET Slots, CreateAllocation(p, b, s, slots)
    PROVE  TypeInv'
<1> DEFINE x == [kind |-> "block", block |-> b, space |-> s, slots |-> slots,
                 leaves |-> Leaves(s)]
<1>1. /\ Begin(p, x) /\ UNCHANGED <<given, Data>>
      /\ block[b] = Top /\ \A q \in Busy({"block"}) : tx[q].block # b
  BY DEF CreateAllocation
<1>2. TxTyped(DOMAIN tree, x)
  BY LeavesAreSpaces DEF TypeInv, TxTyped, Booking, Building
<1>3. MayBegin(x)
  BY <1>1, <1>2 DEF MayBegin
<1> QED BY <1>1, <1>3, BeginKeepsTypes

LEMMA PracticeTypes ==
    ASSUME TypeInv, NEW p \in Sessions, NEW b \in Blocks, NEW t \in Slots,
           NEW e \in Events, MakePractice(p, b, t, e)
    PROVE  TypeInv'
<1> DEFINE x == [kind |-> "practice", block |-> b, slot |-> t, event |-> e,
                 leaves |-> Leaves(block[b]), was |-> request[<<b, t>>]]
<1>1. Begin(p, x) /\ UNCHANGED <<given, Data>> /\ Fresh(e) /\ block[b] # Top
  BY DEF MakePractice
<1>2. TxTyped(DOMAIN tree, x)
  BY LeavesAreSpaces DEF TypeInv, TxTyped, Booking, Building
<1>3. MayBegin(x)
  BY <1>1, <1>2 DEF MayBegin, Fresh
<1> QED BY <1>1, <1>3, BeginKeepsTypes

LEMMA AddTypes ==
    ASSUME TypeInv, NEW p \in Sessions, NEW n \in Spaces, NEW s \in DOMAIN tree,
           CreateSpace(p, n, s) \/ CreatePart(p, n, s)
    PROVE  TypeInv'
<1>1. PICK locks : AddPart(p, n, s, locks)
  BY DEF CreateSpace, CreatePart
<1> DEFINE x == [kind |-> "add", space |-> n, parent |-> s, locks |-> locks]
<1>2. /\ Begin(p, x) /\ UNCHANGED <<given, Data>>
      /\ n \notin DOMAIN tree /\ \A q \in Busy(Building) : tx[q].space # n
  BY <1>1 DEF AddPart
<1>3. TxTyped(DOMAIN tree, x)
  BY DEF TxTyped, Booking, Building
<1>4. MayBegin(x)
  BY <1>2, <1>3 DEF MayBegin
<1> QED BY <1>2, <1>4, BeginKeepsTypes

LEMMA MoveTypes ==
    ASSUME TypeInv, NEW p \in Sessions, NEW s \in DOMAIN tree,
           NEW parent \in DOMAIN tree \cup {Top}, UpdateSpace(p, s, parent)
    PROVE  TypeInv'
<1> DEFINE x == [kind |-> "move", space |-> s, parent |-> parent,
                 locks |-> {s, parent} \ {Top}]
<1>1. /\ Begin(p, x) /\ UNCHANGED <<given, Data>>
      /\ Busy({"move"}) # {} => Mishap("crossing")
      /\ parent # Top => parent \notin Within(s)
  BY DEF UpdateSpace, Mishap
<1>2. parent \notin Down(tree, s)
  BY <1>1, Hierarchy, DownIsClosed, TreeIsTree, SpacesAssumption DEF TypeInv, IsTree
<1>3. TxTyped(DOMAIN tree, x)
  BY TreeIsTree DEF TypeInv, TxTyped, Booking, Building, IsTree
<1> HIDE DEF x
<1>4. x.kind = "move" /\ x.space = s /\ x.parent = parent
  BY DEF x
<1>5. MayBegin(x)
  BY <1>1, <1>2, <1>3, <1>4 DEF MayBegin
<1> QED BY <1>1, <1>5, BeginKeepsTypes

\* The rows that the transaction x adds are those it says.
Adds(x) ==
    /\ given' = given
    /\ DOMAIN tree \subseteq DOMAIN tree'
    /\ \A s \in DOMAIN tree' \ DOMAIN tree : x.kind \in Building /\ s = x.space
    /\ \A b \in Blocks :
          /\ block[b] # Top => block'[b] # Top
          /\ block[b] = Top => block'[b] = Top \/ (x.kind = "block" /\ b = x.block)
    /\ \A e \in Events : event[e] = None => event'[e] = None \/ Makes(x, e)

LEMMA EndKeepsTxs ==
    ASSUME TypeInv, NEW p \in Sessions, End(p), Adds(tx[p])
    PROVE  TxsTyped' /\ NewRows'
<1>1. /\ tx'[p] = Idle /\ tx' = [q \in Sessions |-> tx'[q]]
      /\ \A q \in Sessions \ {p} : tx'[q] = tx[q]
      /\ DOMAIN tree \subseteq DOMAIN tree'
  BY TxEnds DEF TypeInv, Adds
<1>2. TxsTyped'
  <2>1. ASSUME NEW q \in Sessions PROVE TxTyped(DOMAIN tree', tx'[q])
    <3>1. CASE q = p
      BY <1>1, <3>1, IdleIsTyped
    <3>2. CASE q # p
      BY <1>1, <3>2, TypedStays DEF TypeInv, TxsTyped
    <3> QED BY <3>1, <3>2
  <2> QED BY <1>1, <2>1 DEF TxsTyped
<1>3. ASSUME NEW K, "idle" \notin K, NEW q \in Busy(K)'
      PROVE  q \in Busy(K) /\ q # p /\ tx'[q] = tx[q]
  BY <1>1, <1>3 DEF Busy, Idle
<1>4. /\ "idle" \notin {"add"} /\ "idle" \notin {"block"} /\ "idle" \notin {"practice"}
      /\ "idle" \notin Building /\ "add" \in Building
  BY DEF Building
<1>5. ASSUME NEW q \in Busy({"add"})'
      PROVE  /\ tx'[q].space \notin DOMAIN tree'
             /\ \A r \in Busy(Building)' \ {q} : tx'[r].space # tx'[q].space
  <2>1. q \in Busy({"add"}) /\ q # p /\ tx'[q] = tx[q] /\ q \in Sessions
    BY <1>3, <1>4, <1>5 DEF Busy
  <2>2. /\ tx[q].space \notin DOMAIN tree
        /\ \A r \in Busy(Building) \ {q} : tx[r].space # tx[q].space
    BY <2>1 DEF TypeInv, NewRows
  <2>3. tx[q].space \notin DOMAIN tree' \ DOMAIN tree
    BY <2>1, <2>2 DEF Adds, Busy
  <2> QED BY <1>3, <1>4, <2>1, <2>2, <2>3
<1>6. ASSUME NEW q \in Busy({"block"})'
      PROVE  /\ block'[tx'[q].block] = Top
             /\ \A r \in Busy({"block"})' \ {q} : tx'[r].block # tx'[q].block
  <2>1. q \in Busy({"block"}) /\ q # p /\ tx'[q] = tx[q] /\ q \in Sessions
    BY <1>3, <1>4, <1>6 DEF Busy
  <2>2. /\ block[tx[q].block] = Top /\ tx[q].block \in Blocks
        /\ \A r \in Busy({"block"}) \ {q} : tx[r].block # tx[q].block
    BY <2>1 DEF TypeInv, NewRows, TxsTyped, TxTyped, Busy
  <2>3. block'[tx[q].block] = Top
    BY <2>1, <2>2 DEF Adds, Busy
  <2> QED BY <1>3, <1>4, <2>1, <2>2, <2>3
<1>7. ASSUME NEW q \in Busy({"practice"})'
      PROVE  /\ event'[tx'[q].event] = None
             /\ block'[tx'[q].block] # Top
             /\ \A r \in Sessions \ {q} : ~Makes(tx'[r], tx'[q].event)
  <2>1. q \in Busy({"practice"}) /\ q # p /\ tx'[q] = tx[q] /\ q \in Sessions
    BY <1>3, <1>4, <1>7 DEF Busy
  <2>2. /\ event[tx[q].event] = None /\ tx[q].event \in Events
        /\ block[tx[q].block] # Top /\ tx[q].block \in Blocks
        /\ \A r \in Sessions \ {q} : ~Makes(tx[r], tx[q].event)
    BY <2>1 DEF TypeInv, NewRows, TxsTyped, TxTyped, Busy
  <2>3. event'[tx[q].event] = None /\ block'[tx[q].block] # Top
    BY <2>1, <2>2 DEF Adds
  <2>4. \A e : ~Makes(tx'[p], e)
    BY <1>1 DEF Makes, Idle
  <2> QED BY <1>1, <2>1, <2>2, <2>3, <2>4
<1>8. NewRows'
  BY <1>5, <1>6, <1>7 DEF NewRows
<1> QED BY <1>2, <1>8

LEMMA EndKeepsMoves ==
    ASSUME TypeInv, NEW p \in Sessions, End(p), UNCHANGED <<given, tree>>
    PROVE  OneMoves' /\ (Mishap("crossing")' \/ Forest')
<1>1. OneMoves'
  BY TxEnds DEF TypeInv, OneMoves, Mishap, Busy, Idle
<1>2. Mishap("crossing")' \/ Forest'
  BY Hierarchy DEF TypeInv, SpacesTypeOK, Mishap
<1> QED BY <1>1, <1>2

LEMMA KindsTyped ==
    ASSUME TxsTyped'
    PROVE  \A p \in Sessions : tx'[p].kind \in {"idle"} \cup Booking \cup Building
BY DEF TxsTyped, TxTyped, Booking, Building

LEMMA RollbackTypes ==
    ASSUME TypeInv, NEW p \in Sessions, Rollback(p) PROVE TypeInv'
<1>1. End(p) /\ given' = given /\ UNCHANGED Data
  BY DEF Rollback
<1>2. Adds(tx[p])
  BY <1>1 DEF Adds, Data
<1>3. TxsTyped' /\ NewRows' /\ OneMoves' /\ (Mishap("crossing")' \/ Forest')
  BY <1>1, <1>2, EndKeepsTxs, EndKeepsMoves DEF Data
<1>4. SpacesTypeOK'
  BY <1>1, <1>3, KindsTyped DEF TypeInv, SpacesTypeOK, Data, Booking, Building
<1>5. Requests'
  BY <1>1 DEF TypeInv, Requests, Data
<1> QED BY <1>3, <1>4, <1>5 DEF TypeInv

LEMMA RequestTypes ==
    ASSUME TypeInv, NEW b \in Blocks, NEW t \in Slots, RequestSlot(b, t) \/ DeclineRequest(b, t)
    PROVE  TypeInv'
<1>1. UNCHANGED <<given, tree, booked, event, closed, block, tx>>
  BY DEF RequestSlot, DeclineRequest
<1>2. /\ request' \in [Blocks \X Slots -> {"none", "pending", "approved"}]
      /\ Requests'
  <2>1. request \in [Blocks \X Slots -> {"none", "pending", "approved"}]
    BY DEF TypeInv, SpacesTypeOK
  <2>2. CASE RequestSlot(b, t)
    BY <1>1, <2>1, <2>2 DEF TypeInv, Requests, RequestSlot
  <2>3. CASE DeclineRequest(b, t)
    BY <1>1, <2>1, <2>3 DEF TypeInv, Requests, DeclineRequest
  <2> QED BY <2>2, <2>3
<1>3. TxsTyped'
  BY <1>1 DEF TypeInv, TxsTyped
<1>4. NewRows'
  BY <1>1 DEF TypeInv, NewRows, Busy, Makes
<1>5. OneMoves' /\ (Mishap("crossing")' \/ Forest')
  BY <1>1, Hierarchy DEF TypeInv, SpacesTypeOK, OneMoves, Busy, Mishap
<1>6. SpacesTypeOK'
  BY <1>1, <1>2, <1>3, <1>5, KindsTyped DEF TypeInv, SpacesTypeOK, Booking, Building
<1> QED BY <1>2, <1>3, <1>4, <1>5, <1>6 DEF TypeInv

EventRow == [status : {"scheduled", "postponed"}, space : DOMAIN tree,
             slot : Slots, version : 1 .. MaxVersion]

LEMMA CommitBookingTypes ==
    ASSUME TypeInv, NEW p \in Sessions, CommitBooking(p) PROVE TypeInv'
<1> DEFINE x == tx[p]
<1>1. /\ x.kind = "book" /\ Unchanged(x.read) /\ End(p)
      /\ booked' = With(Without({x.event}), x.leaves, {x.slot}, x.event)
      /\ event' = [event EXCEPT ![x.event] =
                      [status |-> x.status, space |-> x.space, slot |-> x.slot,
                       version |-> event[x.event].version + 1]]
      /\ UNCHANGED <<given, tree, closed, block, request>>
  BY DEF CommitBooking
<1>2. /\ x.event \in Events /\ x.space \in DOMAIN tree /\ x.slot \in Slots
      /\ x.status \in {"scheduled", "postponed"}
      /\ \E v \in 0 .. MaxVersion - 1 : x.read = {<<x.event, v>>}
  BY <1>1 DEF TypeInv, TxsTyped, TxTyped
<1>3. event[x.event].version \in 0 .. MaxVersion - 1
  BY <1>1, <1>2 DEF Unchanged
<1> HIDE DEF x
<1>4. event' \in [Events -> {None} \cup EventRow]
  <2>1. [status |-> x.status, space |-> x.space, slot |-> x.slot,
         version |-> event[x.event].version + 1] \in EventRow
    BY <1>2, <1>3, SpacesAssumption DEF EventRow
  <2>2. event \in [Events -> {None} \cup EventRow]
    BY DEF TypeInv, SpacesTypeOK, EventRow
  <2> HIDE DEF EventRow
  <2> QED BY <1>1, <2>1, <2>2
<1>5. booked' \in [Times -> Holders \cup {Nobody}]
  BY <1>1, <1>2 DEF TypeInv, SpacesTypeOK, With, Without, Holders
<1>6. Adds(tx[p])
  <2>1. \A e \in Events : event'[e] = event[e] \/ Makes(tx[p], e)
    BY <1>1 DEF Makes, TypeInv, SpacesTypeOK, x
  <2> QED BY <1>1, <2>1 DEF Adds
<1>7. TxsTyped' /\ NewRows' /\ OneMoves' /\ (Mishap("crossing")' \/ Forest')
  BY <1>1, <1>6, EndKeepsTxs, EndKeepsMoves
<1>8. SpacesTypeOK'
  BY <1>1, <1>4, <1>5, <1>7, KindsTyped DEF TypeInv, SpacesTypeOK, EventRow, Booking, Building
<1>9. Requests'
  BY <1>1 DEF TypeInv, Requests
<1> QED BY <1>7, <1>8, <1>9 DEF TypeInv

LEMMA CommitClosureTypes ==
    ASSUME TypeInv, NEW p \in Sessions, CommitClosure(p) PROVE TypeInv'
<1> DEFINE x == tx[p]
           ended == {r[1] : r \in x.read}
<1>1. /\ x.kind = "close" /\ Unchanged(x.read) /\ End(p)
      /\ closed' = closed \cup {x.closure} /\ booked' = Without(ended)
      /\ event' = [e \in Events |->
                      IF e \in ended THEN Postponed(event[e]) ELSE event[e]]
      /\ UNCHANGED <<given, tree, block, request>>
  BY DEF CommitClosure
<1>2. /\ x.closure \in (DOMAIN tree \cup {Facility}) \X Slots
      /\ \A r \in x.read : r[1] \in Events /\ r[2] \in 1 .. MaxVersion - 1
  BY <1>1 DEF TypeInv, TxsTyped, TxTyped
<1>3. \A e \in ended : event[e].version \in 1 .. MaxVersion - 1 /\ e \in Events
  BY <1>1, <1>2 DEF Unchanged
<1> HIDE DEF x, ended
<1>4. event' \in [Events -> {None} \cup EventRow]
  <2>1. event \in [Events -> {None} \cup EventRow]
    BY DEF TypeInv, SpacesTypeOK, EventRow
  <2>2. ASSUME NEW e \in ended
        PROVE  Postponed(event[e]) \in EventRow
    <3>1. event[e] \in EventRow
      BY <1>3, <2>1, SpacesAssumption DEF None
    <3> QED BY <1>3, <3>1, SpacesAssumption DEF EventRow, Postponed
  <2> HIDE DEF EventRow
  <2> QED BY <1>1, <2>1, <2>2
<1>5. booked' \in [Times -> Holders \cup {Nobody}]
  BY <1>1 DEF TypeInv, SpacesTypeOK, Without
<1>6. Adds(tx[p])
  <2>1. ASSUME NEW e \in Events, event[e] = None PROVE event'[e] = None
    <3>1. e \notin ended
      BY <1>3, <2>1, SpacesAssumption DEF None
    <3> QED BY <1>1, <2>1, <3>1
  <2> QED BY <1>1, <2>1 DEF Adds
<1>7. TxsTyped' /\ NewRows' /\ OneMoves' /\ (Mishap("crossing")' \/ Forest')
  BY <1>1, <1>6, EndKeepsTxs, EndKeepsMoves
<1>8. SpacesTypeOK'
  BY <1>1, <1>2, <1>4, <1>5, <1>7, KindsTyped
     DEF TypeInv, SpacesTypeOK, EventRow, Booking, Building
<1>9. Requests'
  BY <1>1 DEF TypeInv, Requests
<1> QED BY <1>7, <1>8, <1>9 DEF TypeInv

LEMMA CommitAllocationTypes ==
    ASSUME TypeInv, NEW p \in Sessions, CommitAllocation(p) PROVE TypeInv'
<1> DEFINE x == tx[p]
<1>1. /\ x.kind = "block" /\ End(p)
      /\ booked' = With(booked, x.leaves, x.slots, x.block)
      /\ block' = [block EXCEPT ![x.block] = x.space]
      /\ UNCHANGED <<given, tree, event, closed, request>>
  BY DEF CommitAllocation
<1>2. x.block \in Blocks /\ x.space \in DOMAIN tree
  BY <1>1 DEF TypeInv, TxsTyped, TxTyped
<1> HIDE DEF x
<1>3. block' \in [Blocks -> DOMAIN tree \cup {Top}]
  BY <1>1, <1>2 DEF TypeInv, SpacesTypeOK
<1>4. booked' \in [Times -> Holders \cup {Nobody}]
  BY <1>1, <1>2 DEF TypeInv, SpacesTypeOK, With, Holders
<1>5. /\ \A b \in Blocks \ {x.block} : block'[b] = block[b]
      /\ block'[x.block] # Top
  BY <1>1, <1>2, SpacesAssumption DEF TypeInv, SpacesTypeOK
<1>6. Adds(tx[p])
  BY <1>1, <1>5 DEF Adds, x
<1>7. TxsTyped' /\ NewRows' /\ OneMoves' /\ (Mishap("crossing")' \/ Forest')
  BY <1>1, <1>6, EndKeepsTxs, EndKeepsMoves
<1>8. SpacesTypeOK'
  BY <1>1, <1>3, <1>4, <1>7, KindsTyped DEF TypeInv, SpacesTypeOK, Booking, Building
<1>9. Requests'
  BY <1>1, <1>5 DEF TypeInv, Requests
<1> QED BY <1>7, <1>8, <1>9 DEF TypeInv

LEMMA CommitPracticeTypes ==
    ASSUME TypeInv, NEW p \in Sessions, CommitPractice(p) PROVE TypeInv'
<1> DEFINE x == tx[p]
           given_back == [y \in Times |-> IF y[2] = x.slot /\ booked[y] = x.block
                                          THEN Nobody ELSE booked[y]]
<1>1. /\ x.kind = "practice" /\ End(p)
      /\ booked' = With(given_back, x.leaves, {x.slot}, x.event)
      /\ event' = [event EXCEPT ![x.event] =
                      [status |-> "scheduled", space |-> block[x.block], slot |-> x.slot,
                       version |-> 1]]
      /\ request' = [request EXCEPT ![<<x.block, x.slot>>] = "approved"]
      /\ UNCHANGED <<given, tree, closed, block>>
  BY DEF CommitPractice
<1>2. /\ x.event \in Events /\ x.block \in Blocks /\ x.slot \in Slots
      /\ block[x.block] # Top
  BY <1>1 DEF TypeInv, TxsTyped, TxTyped, NewRows, Busy
<1> HIDE DEF x
<1>3. event' \in [Events -> {None} \cup EventRow]
  <2>1. [status |-> "scheduled", space |-> block[x.block], slot |-> x.slot,
         version |-> 1] \in EventRow
    BY <1>2, SpacesAssumption DEF EventRow, TypeInv, SpacesTypeOK
  <2>2. event \in [Events -> {None} \cup EventRow]
    BY DEF TypeInv, SpacesTypeOK, EventRow
  <2> HIDE DEF EventRow
  <2> QED BY <1>1, <2>1, <2>2
<1>4. booked' \in [Times -> Holders \cup {Nobody}]
  BY <1>1, <1>2 DEF TypeInv, SpacesTypeOK, With, Holders
<1>5. request' \in [Blocks \X Slots -> {"none", "pending", "approved"}]
  BY <1>1, <1>2 DEF TypeInv, SpacesTypeOK
<1>6. Adds(tx[p])
  <2>1. \A e \in Events : event'[e] = event[e] \/ Makes(tx[p], e)
    BY <1>1 DEF Makes, TypeInv, SpacesTypeOK, x
  <2> QED BY <1>1, <2>1 DEF Adds
<1>7. TxsTyped' /\ NewRows' /\ OneMoves' /\ (Mishap("crossing")' \/ Forest')
  BY <1>1, <1>6, EndKeepsTxs, EndKeepsMoves
<1>8. SpacesTypeOK'
  BY <1>1, <1>3, <1>4, <1>5, <1>7, KindsTyped
     DEF TypeInv, SpacesTypeOK, EventRow, Booking, Building
<1>9. Requests'
  <2>1. \A b \in Blocks, t \in Slots :
            b # x.block => request'[<<b, t>>] = request[<<b, t>>]
    BY <1>1 DEF TypeInv, SpacesTypeOK
  <2> QED BY <1>1, <1>2, <2>1 DEF TypeInv, Requests
<1> QED BY <1>7, <1>8, <1>9 DEF TypeInv

LEMMA CommitSpaceTypes ==
    ASSUME TypeInv, NEW p \in Sessions, CommitSpace(p) PROVE TypeInv'
<1> DEFINE n == tx[p].space
           q == tx[p].parent
<1>1. /\ tx[p].kind \in Building /\ End(p)
      /\ Moved(tree, tree', n, q)
      /\ UNCHANGED <<given, booked, event, closed, block, request>>
  BY DEF CommitSpace, Moved
<1>2. /\ n \in Spaces /\ q \in DOMAIN tree \cup {Top} /\ IsTree(tree)
      /\ tx[p].kind = "move" => n \in DOMAIN tree
      /\ tx[p].kind = "add" => n \notin DOMAIN tree /\ q \in DOMAIN tree
      /\ tx[p].kind = "add" \/ tx[p].kind = "move"
  BY <1>1, TreeIsTree DEF TypeInv, TxsTyped, TxTyped, NewRows, Busy, Building
<1> HIDE DEF n, q
<1>3. IsTree(tree') /\ DOMAIN tree \subseteq DOMAIN tree'
  BY <1>1, <1>2, MovedIsTree DEF Moved
<1>4. Adds(tx[p])
  BY <1>1 DEF Adds, Moved, n
<1>5. TxsTyped' /\ NewRows'
  BY <1>1, <1>4, EndKeepsTxs
<1>6. Mishap("crossing")' \/ Forest'
  <2> SUFFICES ASSUME ~Mishap("crossing") PROVE Acyclic(tree')
    BY <1>1, Hierarchy DEF Mishap
  <2>1. Acyclic(tree)
    BY Hierarchy DEF TypeInv, SpacesTypeOK
  <2>2. n \in DOMAIN tree => q \notin Down(tree, n)
    BY <1>2 DEF TypeInv, OneMoves, Busy, n, q
  <2> QED BY <1>1, <1>2, <2>1, <2>2, MovedStaysAcyclic
<1>7. OneMoves'
  <2> SUFFICES ASSUME ~Mishap("crossing"), NEW r \in Busy({"move"})'
               PROVE  /\ tx'[r].parent \notin Down(tree', tx'[r].space)
                      /\ \A o \in Busy({"move"})' : o = r
    BY <1>1 DEF OneMoves, Mishap
  <2>1. /\ r # p /\ tx'[r] = tx[r] /\ r \in Busy({"move"}) /\ r \in Sessions
        /\ \A o \in Busy({"move"})' : o \in Busy({"move"})
    BY <1>1, TxEnds DEF TypeInv, Busy, Idle
  <2>2. /\ tx[r].parent \notin Down(tree, tx[r].space)
        /\ \A o \in Busy({"move"}) : o = r
    BY <2>1 DEF TypeInv, OneMoves
  <2>3. tx[p].kind = "add"
    BY <1>2, <2>1, <2>2 DEF Busy
  <2>4. tx[r].space \in DOMAIN tree /\ tx[r].parent \in DOMAIN tree \cup {Top}
    BY <2>1 DEF TypeInv, TxsTyped, TxTyped, Busy, Building
  <2>5. Down(tree', tx[r].space) \subseteq Down(tree, tx[r].space) \cup {n}
    BY <1>1, <1>2, <2>3, <2>4, AddedBelow
  <2>6. tx[r].parent # n
    BY <1>2, <2>3, <2>4, SpacesAssumption
  <2> QED BY <2>1, <2>2, <2>5, <2>6
<1>8. SpacesTypeOK'
  BY <1>1, <1>3, <1>5, <1>6, KindsTyped
     DEF TypeInv, SpacesTypeOK, IsTree, Booking, Building
<1>9. Requests'
  BY <1>1 DEF TypeInv, Requests
<1> QED BY <1>5, <1>6, <1>7, <1>8, <1>9 DEF TypeInv

\* The hierarchy of the beginning has no cycle: what is below itself would be in
\* a set of spaces that are all parts of others of it.
LEMMA FirstTreeIsAcyclic == Acyclic(FirstTree)
<1> DEFINE T == FirstTree
<1> SUFFICES ASSUME NEW c \in DOMAIN T, T[c] \in Down(T, c) PROVE FALSE
  BY DEF Acyclic
<1> DEFINE D == Down(T, c)
           C == {c} \cup {d \in D : T[d] \in D}
<1>1. D \in SUBSET DOMAIN T /\ Closed(T, D) /\ c \in D
  BY DownIsClosed
<1>2. C \in SUBSET DOMAIN T /\ Closed(T, C)
  BY <1>1 DEF Closed
<1>3. D \subseteq C
  <2> HIDE DEF C
  <2>1. c \in C
    BY DEF C
  <2> QED BY <1>2, <2>1, DownIsLeast
<1>4. \A d \in D : T[d] \in D
  BY <1>3
<1> QED BY <1>1, <1>4, SpacesAssumption

LEMMA TypesStart == ASSUME SpacesInit PROVE TypeInv
<1>1. /\ tree = FirstTree /\ booked = [x \in Times |-> Nobody]
      /\ event = [e \in Events |-> None]
      /\ closed = {} /\ block = [b \in Blocks |-> Top]
      /\ request = [x \in Blocks \X Slots |-> "none"]
      /\ tx = [p \in Sessions |-> Idle] /\ given \in Givens
  BY DEF SpacesInit
<1>2. \A K : "idle" \notin K => Busy(K) = {}
  BY <1>1 DEF Busy, Idle
<1>3. /\ Busy({"add"}) = {} /\ Busy({"block"}) = {}
      /\ Busy({"practice"}) = {} /\ Busy({"move"}) = {}
  BY <1>2
<1>4. TxsTyped
  BY <1>1, IdleIsTyped DEF TxsTyped
<1>5. SpacesTypeOK
  BY <1>1, Hierarchy, FirstTreeIsAcyclic, SpacesAssumption DEF SpacesTypeOK, Idle
<1> QED BY <1>1, <1>3, <1>4, <1>5 DEF TypeInv, NewRows, OneMoves, Requests

LEMMA TypesKept == ASSUME TypeInv, [SpacesNext]_spacesVars PROVE TypeInv'
<1>1. given.slots \subseteq Slots
  BY GivenTypes DEF TypeInv
<1>2. ASSUME NEW p \in Sessions, Schedule(p) PROVE TypeInv'
  <2>1. CASE \E e \in Events, s \in DOMAIN tree, t \in given.slots :
                CreateEvent(p, e, s, t) \/ UpdateEvent(p, e, s, t)
    BY <1>1, <2>1, BookTypes
  <2>2. CASE \E scope \in DOMAIN tree \cup {Facility}, t \in given.slots :
                CreateClosure(p, scope, t)
    BY <1>1, <2>2, CloseTypes
  <2>3. CASE \E b \in Blocks, s \in DOMAIN tree : \E slots \in SUBSET given.slots \ {{}} :
                CreateAllocation(p, b, s, slots)
    BY <1>1, <2>3, BlockTypes
  <2>4. CASE \E b \in Blocks, t \in Slots, e \in Events :
                ApproveRequest(p, b, t, e) \/ TakeSlot(p, b, t, e)
    BY <2>4, PracticeTypes DEF ApproveRequest, TakeSlot
  <2> QED BY <1>2, <2>1, <2>2, <2>3, <2>4 DEF Schedule
<1>3. ASSUME NEW p \in Sessions, Build(p) PROVE TypeInv'
  BY <1>3, AddTypes, MoveTypes DEF Build
<1>4. ASSUME NEW p \in Sessions, Commit(p) PROVE TypeInv'
  BY <1>4, CommitBookingTypes, CommitClosureTypes, CommitAllocationTypes,
     CommitPracticeTypes, CommitSpaceTypes DEF Commit
<1>5. CASE UNCHANGED spacesVars
  <2>1. TxsTyped' /\ NewRows' /\ Requests' /\ OneMoves' /\ (Mishap("crossing")' \/ Forest')
    BY <1>5, Hierarchy DEF TypeInv, SpacesTypeOK, TxsTyped, NewRows, Requests, OneMoves,
                           Busy, Makes, Mishap, spacesVars
  <2>2. SpacesTypeOK'
    BY <1>5, <2>1 DEF TypeInv, SpacesTypeOK, spacesVars
  <2> QED BY <2>1, <2>2 DEF TypeInv
<1> QED BY <1>2, <1>3, <1>4, <1>5, RollbackTypes, RequestTypes DEF SpacesNext

-----------------------------------------------------------------------------
(* Rows.                                                                   *)

RowsOf(rows, h, t) == {l \in Spaces : rows[<<l, t>>] = h}

LEMMA RowsAre ==
    \A h, t : Reserved(h, t) = RowsOf(booked, h, t) /\ Reserved(h, t)' = RowsOf(booked', h, t)
BY DEF Reserved, RowsOf

LEMMA HoldersAre ==
    Nobody \notin Holders /\ (\A b \in Blocks : b \in Holders /\ b \notin Events)
        /\ Events \subseteq Holders
BY SpacesAssumption DEF Holders

LEMMA RowsWith ==
    ASSUME NEW rows, NEW leaves \in SUBSET Spaces, NEW slots \in SUBSET Slots,
           Insertable(rows, leaves, slots), NEW k, NEW h \in Holders, NEW t \in Slots
    PROVE  /\ h # k => RowsOf(With(rows, leaves, slots, k), h, t) = RowsOf(rows, h, t)
           /\ h = k /\ t \in slots /\ RowsOf(rows, h, t) = {} =>
                 RowsOf(With(rows, leaves, slots, k), h, t) = leaves
           /\ h = k /\ t \notin slots =>
                 RowsOf(With(rows, leaves, slots, k), h, t) = RowsOf(rows, h, t)
<1> DEFINE new == With(rows, leaves, slots, k)
<1>1. \A l \in Spaces : /\ <<l, t>> \in Times
                        /\ <<l, t>> \in leaves \X slots <=> l \in leaves /\ t \in slots
  BY DEF Times
<1>2. \A l \in Spaces :
          new[<<l, t>>] = IF l \in leaves /\ t \in slots THEN k ELSE rows[<<l, t>>]
  BY <1>1 DEF With
<1>3. \A l \in leaves : t \in slots => rows[<<l, t>>] = Nobody
  BY <1>1 DEF Insertable
<1>4. h # Nobody
  BY HoldersAre
<1> HIDE DEF new
<1>5. /\ h # k => RowsOf(new, h, t) = RowsOf(rows, h, t)
      /\ h = k /\ t \in slots /\ RowsOf(rows, h, t) = {} => RowsOf(new, h, t) = leaves
      /\ h = k /\ t \notin slots => RowsOf(new, h, t) = RowsOf(rows, h, t)
  BY <1>2, <1>3, <1>4 DEF RowsOf
<1> QED BY <1>5 DEF new

LEMMA RowsWithout ==
    ASSUME NEW H, NEW h \in Holders, NEW t \in Slots
    PROVE  /\ h \in H => RowsOf(Without(H), h, t) = {}
           /\ h \notin H => RowsOf(Without(H), h, t) = RowsOf(booked, h, t)
<1>1. \A l \in Spaces : <<l, t>> \in Times
  BY DEF Times
<1>2. h # Nobody
  BY HoldersAre
<1> QED BY <1>1, <1>2 DEF RowsOf, Without

LEMMA NothingApart ==
    ASSUME TypeInv, WholeSpaces, NEW s, s \notin DOMAIN tree PROVE Apart(s)
BY DownIsClosed DEF Apart

LEMMA UnbookedLeafApart ==
    ASSUME TypeInv, WholeSpaces, NEW s \in DOMAIN tree, Children(s) = {}, Unbooked(s)
    PROVE  Apart(s)
<1> SUFFICES ASSUME NEW h \in Holders, NEW t \in Slots, Has(h, t), s \in Down(tree, Place(h))
             PROVE  FALSE
  BY DEF Apart
<1>1. s \in Reserved(h, t)
  BY Hierarchy DEF WholeSpaces, Ends
<1> QED BY <1>1, HoldersAre DEF Reserved, Unbooked

LEMMA UnbookedSpaceApart ==
    ASSUME TypeInv, WholeSpaces, NEW s \in DOMAIN tree, \A l \in Within(s) : Unbooked(l)
    PROVE  Apart(s)
<1> SUFFICES ASSUME NEW h \in Holders, NEW t \in Slots, Has(h, t), s \in Down(tree, Place(h))
             PROVE  FALSE
  BY DEF Apart
<1>1. Place(h) \in DOMAIN tree /\ Reserved(h, t) = Ends(tree, Place(h))
  BY DEF WholeSpaces
<1>2. Ends(tree, s) # {} /\ Ends(tree, s) \subseteq Reserved(h, t)
  BY <1>1, PartsHaveEnds, DownOfPart, TreeIsTree DEF TypeInv, Has
<1>3. PICK l \in Down(tree, s) : booked[<<l, t>>] = h
  BY <1>2 DEF Ends, Reserved
<1> QED BY <1>3, HoldersAre, Hierarchy DEF Unbooked

-----------------------------------------------------------------------------
(* Bookings: transactions begin.                                           *)

\* What the start of a transaction x needs for the bookings.
MayStart(x) ==
    /\ x.kind \in Booking => Busy(Building) = {}
    /\ x.kind \in Building => Busy(Booking) = {} /\ Apart(x.space) /\ Apart(x.parent)
    /\ x.kind = "book" =>
          /\ x.leaves = Ends(tree, x.space) /\ x.leaves # {}
          /\ Live(x.status) \/ Mishap("revived")
    /\ x.kind = "block" => x.leaves = Ends(tree, x.space)
    /\ x.kind = "practice" => x.leaves = Ends(tree, block[x.block]) /\ x.leaves # {}

\* Of an operation that only starts a transaction nothing else is seen.
LEMMA DataSame ==
    ASSUME UNCHANGED <<given, tree, booked, event, block>>
    PROVE  /\ WholeSpaces => WholeSpaces'
           /\ EventsHold => EventsHold'
           /\ UNCHANGED request => (BlocksHold => BlocksHold')
           /\ \A s : Apart(s)' <=> Apart(s)
           /\ Careful' <=> Careful
<1>1. \A h : Place(h)' = Place(h)
  BY DEF Place
<1>2. \A h, t : Reserved(h, t)' = Reserved(h, t) /\ (Has(h, t)' <=> Has(h, t))
  BY DEF Reserved, Has
<1>3. WholeSpaces => WholeSpaces'
  BY <1>1, <1>2 DEF WholeSpaces
<1>4. EventsHold => EventsHold'
  BY <1>1, <1>2 DEF EventsHold, EventHolds, Mishap
<1>5. UNCHANGED request => (BlocksHold => BlocksHold')
  BY <1>2 DEF BlocksHold
<1>6. \A s : Apart(s)' <=> Apart(s)
  BY <1>1, <1>2 DEF Apart
<1> QED BY <1>3, <1>4, <1>5, <1>6 DEF Careful

LEMMA BeginKeepsRows ==
    ASSUME TypeInv, RowsInv, Careful, NEW p \in Sessions, NEW x, Begin(p, x), MayStart(x),
           UNCHANGED <<given, Data>>
    PROVE  RowsInv'
<1>1. /\ tx[p] = Idle /\ tx'[p] = x
      /\ \A q \in Sessions \ {p} : tx'[q] = tx[q]
  BY TxBegins DEF TypeInv
<1>2. UNCHANGED <<given, tree, booked, event, block, request>>
  BY DEF Data
<1>3. WholeSpaces' /\ EventsHold' /\ BlocksHold' /\ (\A s : Apart(s)' <=> Apart(s))
  BY <1>2, DataSame DEF RowsInv
<1>4. Excluded'
  BY <1>1 DEF RowsInv, Excluded, Busy, MayStart, Booking, Building
<1>5. BuiltApart'
  <2> SUFFICES ASSUME NEW q \in Busy(Building)'
               PROVE  Apart(tx'[q].space) /\ Apart(tx'[q].parent)
    BY <1>3 DEF BuiltApart
  <2>1. CASE q = p
    BY <1>1, <2>1 DEF MayStart, Busy
  <2>2. CASE q # p
    BY <1>1, <2>2 DEF RowsInv, BuiltApart, Busy
  <2> QED BY <2>1, <2>2
<1>6. LeavesRead'
  BY <1>1, <1>2 DEF RowsInv, LeavesRead, MayStart, Busy, Mishap
<1> QED BY <1>3, <1>4, <1>5, <1>6 DEF RowsInv

LEMMA Alone ==
    ASSUME Careful
    PROVE  /\ MayBook => Busy(Building) = {}
           /\ MayBuild => Busy(Booking) = {}
           /\ \A s : Undivided(s) => Children(s) = {}
BY DEF Careful, MayBook, MayBuild, Undivided

LEMMA BookRows ==
    ASSUME TypeInv, RowsInv, Careful, NEW p \in Sessions, NEW e \in Events,
           NEW s \in DOMAIN tree, NEW t \in Slots,
           CreateEvent(p, e, s, t) \/ UpdateEvent(p, e, s, t)
    PROVE  RowsInv'
<1>1. PICK status : BookEvent(p, e, s, t, status) /\ (Live(status) \/ Mishap("revived"))
  BY DEF CreateEvent, UpdateEvent, Live, Mishap
<1> DEFINE x == [kind |-> "book", event |-> e, space |-> s, slot |-> t,
                 leaves |-> Leaves(s), status |-> status, read |-> Read({e})]
<1>2. Begin(p, x) /\ UNCHANGED <<given, Data>> /\ Leaves(s) # {} /\ MayBook
  BY <1>1 DEF BookEvent, Free
<1>3. MayStart(x)
  BY <1>1, <1>2, Alone, Hierarchy DEF MayStart, Booking, Building
<1> QED BY <1>2, <1>3, BeginKeepsRows

LEMMA CloseRows ==
    ASSUME TypeInv, RowsInv, Careful, NEW p \in Sessions, NEW scope, NEW t,
           CreateClosure(p, scope, t)
    PROVE  RowsInv'
<1> DEFINE x == [kind |-> "close", closure |-> <<scope, t>>, read |-> Read(Affected(scope, t))]
<1>1. Begin(p, x) /\ UNCHANGED <<given, Data>> /\ MayBook
  BY DEF CreateClosure
<1>2. MayStart(x)
  BY <1>1, Alone DEF MayStart, Booking, Building
<1> QED BY <1>1, <1>2, BeginKeepsRows

LEMMA BlockRows ==
    ASSUME TypeInv, RowsInv, Careful, NEW p \in Sessions, NEW b \in Blocks,
           NEW s \in DOMAIN tree, NEW slots, CreateAllocation(p, b, s, slots)
    PROVE  RowsInv'
<1> DEFINE x == [kind |-> "block", block |-> b, space |-> s, slots |-> slots,
                 leaves |-> Leaves(s)]
<1>1. Begin(p, x) /\ UNCHANGED <<given, Data>> /\ MayBook
  BY DEF CreateAllocation
<1>2. MayStart(x)
  BY <1>1, Alone, Hierarchy DEF MayStart, Booking, Building
<1> QED BY <1>1, <1>2, BeginKeepsRows

LEMMA PracticeRows ==
    ASSUME TypeInv, RowsInv, Careful, NEW p \in Sessions, NEW b \in Blocks,
           NEW t \in Slots, NEW e \in Events, MakePractice(p, b, t, e)
    PROVE  RowsInv'
<1> DEFINE x == [kind |-> "practice", block |-> b, slot |-> t, event |-> e,
                 leaves |-> Leaves(block[b]), was |-> request[<<b, t>>]]
<1>1. /\ Begin(p, x) /\ UNCHANGED <<given, Data>> /\ MayBook
      /\ Reserved(b, t) # {}
  BY DEF MakePractice
<1>2. Leaves(block[b]) = Ends(tree, block[b]) /\ Leaves(block[b]) # {}
  <2>1. Reserved(b, t) = Ends(tree, block[b])
    BY <1>1, HoldersAre DEF RowsInv, WholeSpaces, Has, Place
  <2> QED BY <1>1, <2>1, Hierarchy
<1>3. MayStart(x)
  BY <1>1, <1>2, Alone DEF MayStart, Booking, Building
<1> QED BY <1>1, <1>3, BeginKeepsRows

LEMMA AddRows ==
    ASSUME TypeInv, RowsInv, Careful, NEW p \in Sessions, NEW n \in Spaces,
           NEW s \in DOMAIN tree, CreateSpace(p, n, s) \/ CreatePart(p, n, s)
    PROVE  RowsInv'
<1>1. PICK locks : AddPart(p, n, s, locks)
  BY DEF CreateSpace, CreatePart
<1> DEFINE x == [kind |-> "add", space |-> n, parent |-> s, locks |-> locks]
<1>2. /\ Begin(p, x) /\ UNCHANGED <<given, Data>> /\ MayBuild
      /\ n \notin DOMAIN tree /\ Undivided(s) /\ Unbooked(s)
  BY <1>1 DEF AddPart
<1>3. Apart(n) /\ Apart(s)
  BY <1>2, Alone, NothingApart, UnbookedLeafApart DEF RowsInv
<1>4. MayStart(x)
  BY <1>2, <1>3, Alone DEF MayStart, Booking, Building
<1> QED BY <1>2, <1>4, BeginKeepsRows

LEMMA MoveRows ==
    ASSUME TypeInv, RowsInv, Careful, NEW p \in Sessions, NEW s \in DOMAIN tree,
           NEW parent \in DOMAIN tree \cup {Top}, UpdateSpace(p, s, parent)
    PROVE  RowsInv'
<1> DEFINE x == [kind |-> "move", space |-> s, parent |-> parent,
                 locks |-> {s, parent} \ {Top}]
<1>1. /\ Begin(p, x) /\ UNCHANGED <<given, Data>> /\ MayBuild
      /\ \A l \in Within(s) : Unbooked(l)
      /\ parent # Top => Undivided(parent) /\ Unbooked(parent)
  BY DEF UpdateSpace, Careful
<1>2. Apart(s)
  BY <1>1, UnbookedSpaceApart DEF RowsInv
<1>3. Apart(parent)
  <2>1. CASE parent = Top
    BY <2>1, NothingApart, TreeIsTree, SpacesAssumption DEF RowsInv, TypeInv, IsTree
  <2>2. CASE parent # Top
    BY <1>1, <2>2, Alone, UnbookedLeafApart DEF RowsInv
  <2> QED BY <2>1, <2>2
<1>4. MayStart(x)
  BY <1>1, <1>2, <1>3, Alone DEF MayStart, Booking, Building
<1> QED BY <1>1, <1>4, BeginKeepsRows

LEMMA EndedKeepsTxs ==
    ASSUME TypeInv, RowsInv, Careful, NEW p \in Sessions, End(p), UNCHANGED <<given, tree>>,
           \A b \in Blocks : block[b] # Top => block'[b] = block[b]
    PROVE  Excluded' /\ LeavesRead'
<1>1. tx'[p] = Idle /\ \A q \in Sessions \ {p} : tx'[q] = tx[q]
  BY TxEnds DEF TypeInv
<1>2. ASSUME NEW K, "idle" \notin K, NEW q \in Busy(K)'
      PROVE  q \in Busy(K) /\ q # p /\ tx'[q] = tx[q]
  BY <1>1, <1>2 DEF Busy, Idle
<1>3. Excluded'
  <2>1. "idle" \notin Building /\ "idle" \notin Booking
    BY DEF Building, Booking
  <2>2. Busy(Building)' \subseteq Busy(Building) /\ Busy(Booking)' \subseteq Busy(Booking)
    BY <1>2, <2>1
  <2> QED BY <2>2 DEF RowsInv, Excluded
<1>4. ASSUME NEW q \in Busy({"book"})'
      PROVE  /\ tx'[q].leaves = Ends(tree, tx'[q].space) /\ tx'[q].leaves # {}
             /\ Live(tx'[q].status) \/ Mishap("revived")
  BY <1>2, <1>4 DEF RowsInv, LeavesRead
<1>5. ASSUME NEW q \in Busy({"block"})'
      PROVE  tx'[q].leaves = Ends(tree, tx'[q].space)
  BY <1>2, <1>5 DEF RowsInv, LeavesRead
<1>6. ASSUME NEW q \in Busy({"practice"})'
      PROVE  tx'[q].leaves = Ends(tree, block'[tx'[q].block]) /\ tx'[q].leaves # {}
  <2>1. q \in Busy({"practice"}) /\ tx'[q] = tx[q]
    BY <1>2, <1>6
  <2>2. block[tx[q].block] # Top /\ tx[q].block \in Blocks
    BY <2>1 DEF TypeInv, NewRows, TxsTyped, TxTyped, Busy
  <2> QED BY <2>1, <2>2 DEF RowsInv, LeavesRead
<1>7. LeavesRead'
  BY <1>4, <1>5, <1>6 DEF LeavesRead, Mishap
<1> QED BY <1>3, <1>7

LEMMA RollbackRows ==
    ASSUME TypeInv, RowsInv, Careful, NEW p \in Sessions, Rollback(p) PROVE RowsInv'
<1>1. End(p) /\ UNCHANGED <<given, tree, booked, event, block, request>>
  BY DEF Rollback, Data
<1>2. Excluded' /\ LeavesRead'
  BY <1>1, EndedKeepsTxs
<1>3. WholeSpaces' /\ EventsHold' /\ BlocksHold' /\ (\A s : Apart(s)' <=> Apart(s))
  BY <1>1, DataSame DEF RowsInv
<1>4. BuiltApart'
  <2> SUFFICES ASSUME NEW q \in Busy(Building)'
               PROVE  Apart(tx'[q].space) /\ Apart(tx'[q].parent)
    BY <1>3 DEF BuiltApart
  <2>1. q \in Busy(Building) /\ tx'[q] = tx[q]
    BY <1>1, TxEnds DEF TypeInv, Busy, Idle, Building
  <2> QED BY <2>1 DEF RowsInv, BuiltApart
<1> QED BY <1>2, <1>3, <1>4 DEF RowsInv

LEMMA RequestRows ==
    ASSUME TypeInv, RowsInv, Careful, NEW b \in Blocks, NEW t \in Slots,
           RequestSlot(b, t) \/ DeclineRequest(b, t)
    PROVE  RowsInv'
<1>1. UNCHANGED <<given, tree, booked, event, block, tx>>
  BY DEF RequestSlot, DeclineRequest
<1>2. WholeSpaces' /\ EventsHold' /\ (\A s : Apart(s)' <=> Apart(s))
  BY <1>1, DataSame DEF RowsInv
<1>3. ASSUME NEW c \in Blocks, NEW u \in Slots
      PROVE  request'[<<c, u>>] = request[<<c, u>>] \/ request'[<<c, u>>] # "approved"
  <2>1. request \in [Blocks \X Slots -> {"none", "pending", "approved"}]
    BY DEF TypeInv, SpacesTypeOK
  <2> QED BY <2>1 DEF RequestSlot, DeclineRequest
<1>4. BlocksHold'
  BY <1>1, <1>3 DEF RowsInv, BlocksHold, Has, Reserved
<1>5. Excluded' /\ BuiltApart' /\ LeavesRead'
  BY <1>1, <1>2 DEF RowsInv, Excluded, BuiltApart, LeavesRead, Busy, Mishap
<1> QED BY <1>2, <1>4, <1>5 DEF RowsInv

-----------------------------------------------------------------------------
(* Bookings: transactions commit.                                          *)

LEMMA BookedKeepsTxs ==
    ASSUME TypeInv, RowsInv, Careful, NEW p \in Sessions, End(p), UNCHANGED <<given, tree>>,
           tx[p].kind \in Booking, \A b \in Blocks : block[b] # Top => block'[b] = block[b]
    PROVE  Excluded' /\ BuiltApart' /\ LeavesRead'
<1>1. Busy(Building) = {}
  BY DEF RowsInv, Excluded, Busy
<1>2. Busy(Building)' = {}
  BY <1>1, TxEnds DEF TypeInv, Busy, Idle, Building
<1> QED BY <1>2, EndedKeepsTxs DEF BuiltApart

LEMMA CommitBookingRows ==
    ASSUME TypeInv, RowsInv, Careful, NEW p \in Sessions, CommitBooking(p) PROVE RowsInv'
<1> DEFINE x == tx[p]
           e == x.event
<1>1. /\ x.kind = "book" /\ End(p)
      /\ Insertable(Without({e}), x.leaves, {x.slot})
      /\ booked' = With(Without({e}), x.leaves, {x.slot}, e)
      /\ event' = [event EXCEPT ![e] =
                      [status |-> x.status, space |-> x.space, slot |-> x.slot,
                       version |-> event[e].version + 1]]
      /\ UNCHANGED <<given, tree, closed, block, request>>
  BY DEF CommitBooking
<1>2. /\ e \in Events /\ x.space \in DOMAIN tree /\ x.slot \in Slots
      /\ x.leaves \in SUBSET Spaces
  BY <1>1 DEF TypeInv, TxsTyped, TxTyped
<1>3. /\ x.leaves = Ends(tree, x.space) /\ x.leaves # {}
      /\ Live(x.status) \/ Mishap("revived")
  BY <1>1 DEF RowsInv, LeavesRead, Busy
<1>4. Excluded' /\ BuiltApart' /\ LeavesRead'
  BY <1>1, BookedKeepsTxs DEF Booking
<1> HIDE DEF x, e
<1>5. /\ event'[e].status = x.status /\ event'[e].space = x.space /\ event'[e].slot = x.slot
      /\ \A d \in Events \ {e} : event'[d] = event[d]
  BY <1>1, <1>2 DEF TypeInv, SpacesTypeOK
<1>6. ASSUME NEW h \in Holders, NEW t \in Slots
      PROVE  /\ h = e /\ t = x.slot => Reserved(h, t)' = x.leaves
             /\ h = e /\ t # x.slot => Reserved(h, t)' = {}
             /\ h # e => Reserved(h, t)' = Reserved(h, t)
  <2>1. /\ h = e => RowsOf(Without({e}), h, t) = {}
        /\ h # e => RowsOf(Without({e}), h, t) = Reserved(h, t)
    BY RowsWithout, RowsAre
  <2>2. {x.slot} \in SUBSET Slots
    BY <1>2
  <2>3. /\ h # e => RowsOf(booked', h, t) = RowsOf(Without({e}), h, t)
        /\ h = e /\ t \in {x.slot} /\ RowsOf(Without({e}), h, t) = {} =>
              RowsOf(booked', h, t) = x.leaves
        /\ h = e /\ t \notin {x.slot} => RowsOf(booked', h, t) = RowsOf(Without({e}), h, t)
    BY <1>1, <1>2, <2>2, RowsWith
  <2> QED BY <2>1, <2>3, RowsAre
<1>7. \A h \in Holders : h # e => Place(h)' = Place(h)
  BY <1>1, <1>5 DEF Place
<1>8. WholeSpaces'
  <2> SUFFICES ASSUME NEW h \in Holders, NEW t \in Slots, Has(h, t)'
               PROVE  Place(h)' \in DOMAIN tree /\ Reserved(h, t)' = Ends(tree, Place(h)')
    BY <1>1 DEF WholeSpaces
  <2>1. CASE h = e
    BY <1>2, <1>3, <1>5, <1>6, <2>1 DEF Has, Place
  <2>2. CASE h # e
    BY <1>6, <1>7, <2>2 DEF RowsInv, WholeSpaces, Has
  <2> QED BY <2>1, <2>2
<1>9. EventsHold'
  <2> SUFFICES ASSUME NEW d \in Events PROVE EventHolds(d)'
    BY DEF EventsHold
  <2>0. d \in Holders
    BY HoldersAre
  <2>1. CASE d = e
    BY <1>1, <1>2, <1>3, <1>5, <1>6, <2>0, <2>1 DEF EventHolds, Has, Mishap
  <2>2. CASE d # e
    <3>1. Live(event[d].status) => event[d].slot \in Slots
      BY EventTypes DEF TypeInv
    <3> QED BY <1>1, <1>5, <1>6, <2>0, <2>2, <3>1
               DEF RowsInv, EventsHold, EventHolds, Has, Mishap
  <2> QED BY <2>1, <2>2
<1>10. BlocksHold'
  <2>1. \A b \in Blocks : b # e /\ b \in Holders
    BY <1>2, HoldersAre
  <2> QED BY <1>1, <1>6, <2>1 DEF RowsInv, BlocksHold, Has
<1> QED BY <1>4, <1>8, <1>9, <1>10 DEF RowsInv

LEMMA CommitClosureRows ==
    ASSUME TypeInv, RowsInv, Careful, NEW p \in Sessions, CommitClosure(p) PROVE RowsInv'
<1> DEFINE x == tx[p]
           ended == {r[1] : r \in x.read}
<1>1. /\ x.kind = "close" /\ Unchanged(x.read) /\ End(p)
      /\ booked' = Without(ended)
      /\ event' = [e \in Events |-> IF e \in ended THEN Postponed(event[e]) ELSE event[e]]
      /\ UNCHANGED <<given, tree, block, request>>
  BY DEF CommitClosure
<1>2. ended \subseteq Events
  BY <1>1 DEF TypeInv, TxsTyped, TxTyped
<1>3. Excluded' /\ BuiltApart' /\ LeavesRead'
  BY <1>1, BookedKeepsTxs DEF Booking
<1> HIDE DEF x, ended
<1>4. ASSUME NEW h \in Holders, NEW t \in Slots
      PROVE  /\ h \in ended => Reserved(h, t)' = {}
             /\ h \notin ended => Reserved(h, t)' = Reserved(h, t)
  BY <1>1, RowsWithout, RowsAre
<1>5. \A e \in Events : /\ e \notin ended => event'[e] = event[e]
                        /\ e \in ended => event'[e].status = "postponed"
  BY <1>1 DEF Postponed
<1>6. \A h \in Holders \ ended : Place(h)' = Place(h)
  BY <1>1, <1>5 DEF Place
<1>7. WholeSpaces'
  BY <1>1, <1>4, <1>6 DEF RowsInv, WholeSpaces, Has
<1>8. EventsHold'
  <2> SUFFICES ASSUME NEW d \in Events PROVE EventHolds(d)'
    BY DEF EventsHold
  <2>0. d \in Holders
    BY HoldersAre
  <2>1. CASE d \in ended
    BY <1>4, <1>5, <2>0, <2>1 DEF EventHolds, Has, Live
  <2>2. CASE d \notin ended
    <3>1. Live(event[d].status) => event[d].slot \in Slots
      BY EventTypes DEF TypeInv
    <3> QED BY <1>1, <1>4, <1>5, <2>0, <2>2, <3>1
               DEF RowsInv, EventsHold, EventHolds, Has, Mishap
  <2> QED BY <2>1, <2>2
<1>9. BlocksHold'
  <2>1. \A b \in Blocks : b \notin ended /\ b \in Holders
    BY <1>2, HoldersAre
  <2> QED BY <1>1, <1>4, <2>1 DEF RowsInv, BlocksHold, Has
<1> QED BY <1>3, <1>7, <1>8, <1>9 DEF RowsInv

LEMMA CommitAllocationRows ==
    ASSUME TypeInv, RowsInv, Careful, NEW p \in Sessions, CommitAllocation(p) PROVE RowsInv'
<1> DEFINE x == tx[p]
           b == x.block
<1>1. /\ x.kind = "block" /\ End(p)
      /\ Insertable(booked, x.leaves, x.slots)
      /\ booked' = With(booked, x.leaves, x.slots, b)
      /\ block' = [block EXCEPT ![b] = x.space]
      /\ UNCHANGED <<given, tree, event, closed, request>>
  BY DEF CommitAllocation
<1>2. /\ b \in Blocks /\ x.space \in DOMAIN tree /\ x.slots \in SUBSET Slots
      /\ x.leaves \in SUBSET Spaces /\ block[b] = Top
  BY <1>1 DEF TypeInv, TxsTyped, TxTyped, NewRows, Busy
<1>3. x.leaves = Ends(tree, x.space)
  BY <1>1 DEF RowsInv, LeavesRead, Busy
<1> HIDE DEF b
<1>4. block'[b] = x.space /\ \A c \in Blocks \ {b} : block'[c] = block[c]
  BY <1>1, <1>2 DEF TypeInv, SpacesTypeOK
<1>5. Excluded' /\ BuiltApart' /\ LeavesRead'
  BY <1>1, <1>2, <1>4, BookedKeepsTxs DEF Booking
<1> HIDE DEF x
<1>6. b \in Holders /\ b \notin Events /\ Place(b) = Top /\ Top \notin DOMAIN tree
  BY <1>2, HoldersAre, TreeIsTree, SpacesAssumption DEF TypeInv, IsTree, Place
<1>7. \A t \in Slots : Reserved(b, t) = {}
  BY <1>6 DEF RowsInv, WholeSpaces, Has
<1>8. ASSUME NEW h \in Holders, NEW t \in Slots
      PROVE  /\ h = b /\ t \in x.slots => Reserved(h, t)' = x.leaves
             /\ h = b /\ t \notin x.slots => Reserved(h, t)' = {}
             /\ h # b => Reserved(h, t)' = Reserved(h, t)
  <2>1. /\ h # b => RowsOf(booked', h, t) = RowsOf(booked, h, t)
        /\ h = b /\ t \in x.slots /\ RowsOf(booked, h, t) = {} =>
              RowsOf(booked', h, t) = x.leaves
        /\ h = b /\ t \notin x.slots => RowsOf(booked', h, t) = RowsOf(booked, h, t)
    BY <1>1, <1>2, RowsWith
  <2> QED BY <1>7, <2>1, RowsAre
<1>9. ASSUME NEW h \in Holders
      PROVE  (h = b => Place(h)' = x.space) /\ (h # b => Place(h)' = Place(h))
  BY <1>1, <1>4, <1>6 DEF Place, Holders
<1>10. WholeSpaces'
  <2> SUFFICES ASSUME NEW h \in Holders, NEW t \in Slots, Has(h, t)'
               PROVE  Place(h)' \in DOMAIN tree /\ Reserved(h, t)' = Ends(tree, Place(h)')
    BY <1>1 DEF WholeSpaces
  <2>1. CASE h = b
    <3>1. Reserved(h, t)' = x.leaves
      BY <1>8, <2>1 DEF Has
    <3>2. Place(h)' = x.space
      BY <1>9, <2>1
    <3> QED BY <1>2, <1>3, <3>1, <3>2
  <2>2. CASE h # b
    <3>1. Reserved(h, t)' = Reserved(h, t)
      BY <1>8, <2>2
    <3>2. Place(h)' = Place(h)
      BY <1>9, <2>2
    <3> QED BY <3>1, <3>2 DEF RowsInv, WholeSpaces, Has
  <2> QED BY <2>1, <2>2
<1>11. EventsHold'
  <2>1. \A e \in Events : e # b /\ e \in Holders
    BY <1>6, HoldersAre
  <2>2. \A e \in Events : Live(event[e].status) => event[e].slot \in Slots
    BY EventTypes DEF TypeInv
  <2> QED BY <1>1, <1>8, <2>1, <2>2 DEF RowsInv, EventsHold, EventHolds, Has, Mishap
<1>12. BlocksHold'
  <2>1. \A c \in Blocks : c \in Holders
    BY HoldersAre
  <2>2. \A t \in Slots : request[<<b, t>>] = "none"
    BY <1>2 DEF TypeInv, Requests
  <2> QED BY <1>1, <1>8, <2>1, <2>2 DEF RowsInv, BlocksHold, Has
<1> QED BY <1>5, <1>10, <1>11, <1>12 DEF RowsInv

LEMMA CommitPracticeRows ==
    ASSUME TypeInv, RowsInv, Careful, NEW p \in Sessions, CommitPractice(p) PROVE RowsInv'
<1> DEFINE x == tx[p]
           given_back == [y \in Times |-> IF y[2] = x.slot /\ booked[y] = x.block
                                          THEN Nobody ELSE booked[y]]
<1>1. /\ x.kind = "practice" /\ End(p)
      /\ Insertable(given_back, x.leaves, {x.slot})
      /\ booked' = With(given_back, x.leaves, {x.slot}, x.event)
      /\ event' = [event EXCEPT ![x.event] =
                      [status |-> "scheduled", space |-> block[x.block], slot |-> x.slot,
                       version |-> 1]]
      /\ request' = [request EXCEPT ![<<x.block, x.slot>>] = "approved"]
      /\ UNCHANGED <<given, tree, closed, block>>
  BY DEF CommitPractice
<1>2. /\ x.event \in Events /\ x.block \in Blocks /\ x.slot \in Slots
      /\ x.leaves \in SUBSET Spaces
      /\ block[x.block] # Top /\ event[x.event] = None
  BY <1>1 DEF TypeInv, TxsTyped, TxTyped, NewRows, Busy
<1>3. x.leaves = Ends(tree, block[x.block]) /\ x.leaves # {}
  BY <1>1 DEF RowsInv, LeavesRead, Busy
<1>4. Excluded' /\ BuiltApart' /\ LeavesRead'
  BY <1>1, BookedKeepsTxs DEF Booking
<1>5. PICK e \in Events, b \in Blocks : e = x.event /\ b = x.block
  BY <1>2
<1> DEFINE slot == x.slot
           leaves == x.leaves
<1>6. /\ event'[e].status = "scheduled" /\ event'[e].space = block[b] /\ event'[e].slot = slot
      /\ \A d \in Events \ {e} : event'[d] = event[d]
      /\ block[b] \in DOMAIN tree
  BY <1>1, <1>2, <1>5 DEF TypeInv, SpacesTypeOK
<1>7. /\ e \in Holders /\ b \in Holders /\ b \notin Events /\ e # b
      /\ Nobody \notin Holders
  BY HoldersAre
<1>8. \A t \in Slots : Reserved(e, t) = {}
  <2>1. Place(e) \notin DOMAIN tree
    BY <1>2, <1>5, EventTypes, TreeIsTree, SpacesAssumption DEF TypeInv, IsTree, Place
  <2> QED BY <1>7, <2>1 DEF RowsInv, WholeSpaces, Has
<1>9. /\ slot \in Slots /\ leaves \in SUBSET Spaces /\ {slot} \in SUBSET Slots
      /\ leaves = Ends(tree, block[b]) /\ leaves # {}
  BY <1>2, <1>3, <1>5
<1>10. ASSUME NEW h \in Holders, NEW t \in Slots
       PROVE  RowsOf(given_back, h, t) =
                  IF h = b /\ t = slot THEN {} ELSE Reserved(h, t)
  <2>1. \A l \in Spaces : <<l, t>> \in Times
    BY DEF Times
  <2>2. \A l \in Spaces : given_back[<<l, t>>] =
            IF t = slot /\ booked[<<l, t>>] = b THEN Nobody ELSE booked[<<l, t>>]
    BY <1>5, <2>1
  <2> HIDE DEF given_back
  <2> QED BY <1>7, <2>2 DEF RowsOf, Reserved
<1> HIDE DEF x, given_back, slot, leaves
<1>11. /\ booked' = With(given_back, leaves, {slot}, e)
       /\ Insertable(given_back, leaves, {slot})
  BY <1>1, <1>5 DEF x, leaves, slot
<1>12. ASSUME NEW h \in Holders, NEW t \in Slots
       PROVE  /\ h = e /\ t = slot => Reserved(h, t)' = leaves
              /\ h = e /\ t # slot => Reserved(h, t)' = {}
              /\ h = b /\ t = slot => Reserved(h, t)' = {}
              /\ h # e /\ (h # b \/ t # slot) => Reserved(h, t)' = Reserved(h, t)
  <2>1. /\ h # e => RowsOf(booked', h, t) = RowsOf(given_back, h, t)
        /\ h = e /\ t \in {slot} /\ RowsOf(given_back, h, t) = {} =>
              RowsOf(booked', h, t) = leaves
        /\ h = e /\ t \notin {slot} => RowsOf(booked', h, t) = RowsOf(given_back, h, t)
    BY <1>9, <1>11, RowsWith
  <2> QED BY <1>7, <1>8, <1>10, <2>1, RowsAre
<1>13. ASSUME NEW h \in Holders
       PROVE  (h = e => Place(h)' = block[b]) /\ (h # e => Place(h)' = Place(h))
  BY <1>1, <1>6 DEF Place
<1>14. WholeSpaces'
  <2> SUFFICES ASSUME NEW h \in Holders, NEW t \in Slots, Has(h, t)'
               PROVE  Place(h)' \in DOMAIN tree /\ Reserved(h, t)' = Ends(tree, Place(h)')
    BY <1>1 DEF WholeSpaces
  <2>1. CASE h = e
    <3>1. Reserved(h, t)' = leaves
      BY <1>12, <2>1 DEF Has
    <3>2. Place(h)' = block[b]
      BY <1>13, <2>1
    <3> QED BY <1>6, <1>9, <3>1, <3>2
  <2>2. CASE h # e
    <3>1. Reserved(h, t)' = Reserved(h, t)
      BY <1>12, <2>2 DEF Has
    <3>2. Place(h)' = Place(h)
      BY <1>13, <2>2
    <3> QED BY <3>1, <3>2 DEF RowsInv, WholeSpaces, Has
  <2> QED BY <2>1, <2>2
<1>15. EventsHold'
  <2> SUFFICES ASSUME NEW d \in Events PROVE EventHolds(d)'
    BY DEF EventsHold
  <2>0. d \in Holders /\ d # b
    BY <1>7, HoldersAre
  <2>1. CASE d = e
    BY <1>6, <1>9, <1>12, <2>0, <2>1 DEF EventHolds, Has, Live
  <2>2. CASE d # e
    <3>1. Live(event[d].status) => event[d].slot \in Slots
      BY EventTypes DEF TypeInv
    <3> QED BY <1>1, <1>6, <1>12, <2>0, <2>2, <3>1
               DEF RowsInv, EventsHold, EventHolds, Has, Mishap
  <2> QED BY <2>1, <2>2
<1>16. BlocksHold'
  <2> SUFFICES ASSUME NEW c \in Blocks, NEW t \in Slots, Has(c, t)'
               PROVE  request'[<<c, t>>] # "approved"
    BY DEF BlocksHold
  <2>1. c \in Holders /\ c # e
    BY HoldersAre
  <2>2. (c # b \/ t # slot) /\ Has(c, t)
    BY <1>12, <2>1 DEF Has
  <2>3. request'[<<c, t>>] = request[<<c, t>>]
    BY <1>1, <1>5, <2>2 DEF TypeInv, SpacesTypeOK, slot
  <2> QED BY <2>2, <2>3 DEF RowsInv, BlocksHold
<1> QED BY <1>4, <1>14, <1>15, <1>16 DEF RowsInv

LEMMA CommitSpaceRows ==
    ASSUME TypeInv, RowsInv, Careful, NEW p \in Sessions, CommitSpace(p) PROVE RowsInv'
<1> DEFINE n == tx[p].space
           q == tx[p].parent
<1>1. /\ tx[p].kind \in Building /\ End(p)
      /\ Moved(tree, tree', n, q)
      /\ UNCHANGED <<given, booked, event, closed, block, request>>
  BY DEF CommitSpace, Moved
<1>2. Busy(Booking) = {} /\ Apart(n) /\ Apart(q)
  BY <1>1 DEF RowsInv, Excluded, BuiltApart, Busy
<1>3. DOMAIN tree \subseteq DOMAIN tree'
  BY <1>1 DEF Moved
<1> HIDE DEF n, q
<1>4. \A h : Place(h)' = Place(h)
  BY <1>1 DEF Place
<1>5. \A h, t : Reserved(h, t)' = Reserved(h, t) /\ (Has(h, t)' <=> Has(h, t))
  BY <1>1 DEF Reserved, Has
<1>6. ASSUME NEW h \in Holders, NEW t \in Slots, Has(h, t)
      PROVE  /\ Place(h) \in DOMAIN tree /\ Reserved(h, t) = Ends(tree, Place(h))
             /\ Down(tree', Place(h)) = Down(tree, Place(h))
             /\ Ends(tree', Place(h)) = Ends(tree, Place(h))
  <2>1. Place(h) \in DOMAIN tree /\ Reserved(h, t) = Ends(tree, Place(h))
    BY <1>6 DEF RowsInv, WholeSpaces
  <2>2. n \notin Down(tree, Place(h)) /\ q \notin Down(tree, Place(h))
    BY <1>2, <1>6 DEF Apart
  <2> QED BY <1>1, <2>1, <2>2, MovedElsewhere
<1>7. WholeSpaces'
  <2> SUFFICES ASSUME NEW h \in Holders, NEW t \in Slots, Has(h, t)'
               PROVE  Place(h)' \in DOMAIN tree' /\ Reserved(h, t)' = Ends(tree', Place(h)')
    BY DEF WholeSpaces
  <2>1. Has(h, t) /\ Place(h)' = Place(h) /\ Reserved(h, t)' = Reserved(h, t)
    BY <1>4, <1>5
  <2> QED BY <1>3, <1>6, <2>1
<1>8. EventsHold' /\ BlocksHold'
  BY <1>1, <1>5 DEF RowsInv, EventsHold, EventHolds, BlocksHold, Mishap
<1>9. Excluded' /\ LeavesRead'
  <2>1. Busy(Booking)' = {}
    BY <1>1, <1>2, TxEnds DEF TypeInv, Busy, Idle, Booking
  <2>2. Busy({"book"})' = {} /\ Busy({"block"})' = {} /\ Busy({"practice"})' = {}
    BY <2>1 DEF Busy, Booking
  <2> QED BY <2>1, <2>2 DEF Excluded, LeavesRead
<1>10. \A s : Apart(s) => Apart(s)'
  <2> SUFFICES ASSUME NEW s, Apart(s), NEW h \in Holders, NEW t \in Slots, Has(h, t)'
               PROVE  s \notin Down(tree', Place(h)')
    BY DEF Apart
  <2>1. Has(h, t) /\ Place(h)' = Place(h)
    BY <1>4, <1>5
  <2> QED BY <1>6, <2>1 DEF Apart
<1>11. BuiltApart'
  <2> SUFFICES ASSUME NEW r \in Busy(Building)'
               PROVE  Apart(tx'[r].space) /\ Apart(tx'[r].parent)
    BY <1>10 DEF BuiltApart
  <2>1. r \in Busy(Building) /\ tx'[r] = tx[r]
    BY <1>1, TxEnds DEF TypeInv, Busy, Idle, Building
  <2> QED BY <2>1 DEF RowsInv, BuiltApart
<1> QED BY <1>7, <1>8, <1>9, <1>11 DEF RowsInv

LEMMA RowsStart == ASSUME SpacesInit PROVE RowsInv
<1>1. /\ booked = [x \in Times |-> Nobody] /\ event = [e \in Events |-> None]
      /\ tx = [p \in Sessions |-> Idle]
  BY DEF SpacesInit
<1>2. \A K : "idle" \notin K => Busy(K) = {}
  BY <1>1 DEF Busy, Idle
<1>3. /\ Busy(Building) = {} /\ Busy({"book"}) = {} /\ Busy({"block"}) = {}
      /\ Busy({"practice"}) = {}
  BY <1>2 DEF Building
<1>4. \A h \in Holders, t \in Slots : ~Has(h, t)
  BY <1>1, HoldersAre DEF Has, Reserved, Times
<1>5. \A e \in Events : ~Live(event[e].status)
  BY <1>1 DEF Live, None
<1> QED BY <1>3, <1>4, <1>5, HoldersAre
        DEF RowsInv, WholeSpaces, EventsHold, EventHolds, BlocksHold, Excluded, BuiltApart,
            LeavesRead

LEMMA RowsKept == ASSUME TypeInv, RowsInv, [SpacesNext]_spacesVars PROVE RowsInv'
<1>1. given' = given
  <2>1. ASSUME NEW p \in Sessions, Schedule(p) PROVE given' = given
    BY <2>1 DEF Schedule, CreateEvent, UpdateEvent, BookEvent, CreateClosure,
                CreateAllocation, ApproveRequest, TakeSlot, MakePractice
  <2>2. ASSUME NEW p \in Sessions, Build(p) PROVE given' = given
    BY <2>2 DEF Build, CreateSpace, CreatePart, AddPart, UpdateSpace
  <2>3. ASSUME NEW p \in Sessions, Commit(p) PROVE given' = given
    BY <2>3 DEF Commit, CommitBooking, CommitClosure, CommitAllocation, CommitPractice,
                CommitSpace
  <2>4. ASSUME NEW p \in Sessions, Rollback(p) PROVE given' = given
    BY <2>4 DEF Rollback
  <2>5. ASSUME NEW b \in Blocks, NEW t \in Slots, RequestSlot(b, t) \/ DeclineRequest(b, t)
        PROVE  given' = given
    BY <2>5 DEF RequestSlot, DeclineRequest
  <2> QED BY <2>1, <2>2, <2>3, <2>4, <2>5 DEF SpacesNext, spacesVars
<1> SUFFICES ASSUME Careful PROVE RowsInv'
  BY <1>1 DEF RowsInv, Careful
<1>2. given.slots \subseteq Slots
  BY GivenTypes DEF TypeInv
<1>3. ASSUME NEW p \in Sessions, Schedule(p) PROVE RowsInv'
  <2>1. CASE \E e \in Events, s \in DOMAIN tree, t \in given.slots :
                CreateEvent(p, e, s, t) \/ UpdateEvent(p, e, s, t)
    BY <1>2, <2>1, BookRows
  <2>2. CASE \E scope \in DOMAIN tree \cup {Facility}, t \in given.slots :
                CreateClosure(p, scope, t)
    BY <2>2, CloseRows
  <2>3. CASE \E b \in Blocks, s \in DOMAIN tree : \E slots \in SUBSET given.slots \ {{}} :
                CreateAllocation(p, b, s, slots)
    BY <2>3, BlockRows
  <2>4. CASE \E b \in Blocks, t \in Slots, e \in Events :
                ApproveRequest(p, b, t, e) \/ TakeSlot(p, b, t, e)
    BY <2>4, PracticeRows DEF ApproveRequest, TakeSlot
  <2> QED BY <1>3, <2>1, <2>2, <2>3, <2>4 DEF Schedule
<1>4. ASSUME NEW p \in Sessions, Build(p) PROVE RowsInv'
  BY <1>4, AddRows, MoveRows DEF Build
<1>5. ASSUME NEW p \in Sessions, Commit(p) PROVE RowsInv'
  BY <1>5, CommitBookingRows, CommitClosureRows, CommitAllocationRows,
     CommitPracticeRows, CommitSpaceRows DEF Commit
<1>6. CASE UNCHANGED spacesVars
  <2>1. UNCHANGED <<given, tree, booked, event, block, request, tx>>
    BY <1>6 DEF spacesVars
  <2>2. WholeSpaces' /\ EventsHold' /\ BlocksHold' /\ (\A s : Apart(s)' <=> Apart(s))
    BY <2>1, DataSame DEF RowsInv
  <2>3. Excluded' /\ BuiltApart' /\ LeavesRead'
    BY <2>1, <2>2 DEF RowsInv, Excluded, BuiltApart, LeavesRead, Busy, Mishap
  <2> QED BY <2>2, <2>3 DEF RowsInv
<1> QED BY <1>3, <1>4, <1>5, <1>6, RollbackRows, RequestRows DEF SpacesNext

-----------------------------------------------------------------------------
(* Theorems.                                                               *)

\* What transactions between their statements rely on stays as they read it,
\* and every row of space_bookings belongs to somebody who has all leaves of a
\* space (events.ts, operations.ts, facilities/service.ts).
THEOREM SpacesInductive == SpacesSpec => []SpacesInv
<1>1. SpacesInit => SpacesInv
  BY TypesStart, RowsStart DEF SpacesInv
<1>2. SpacesInv /\ [SpacesNext]_spacesVars => SpacesInv'
  BY TypesKept, RowsKept DEF SpacesInv
<1> QED BY <1>1, <1>2, PTL DEF SpacesSpec

\* Rows keep their domains and the hierarchy has no cycle, however many spaces
\* are added and moved at once, unless two are moved below each other.
THEOREM SpacesTypeCorrect == SpacesSpec => []SpacesTypeOK
<1>1. SpacesInv => SpacesTypeOK
  BY DEF SpacesInv, TypeInv
<1> QED BY <1>1, SpacesInductive, PTL

LEMMA RowsOfEvent ==
    ASSUME TypeInv, RowsInv, Careful, NEW e \in Events, Live(event[e].status)
    PROVE  {x \in Times : booked[x] = e} = Leaves(event[e].space) \X {event[e].slot}
<1> DEFINE slot == event[e].slot
           leaves == Leaves(event[e].space)
<1>1. slot \in Slots /\ e \in Holders
  BY EventTypes, HoldersAre DEF TypeInv
<1>2. Reserved(e, slot) = leaves
  BY <1>1, Hierarchy DEF RowsInv, WholeSpaces, EventsHold, EventHolds, Place
<1>3. \A t \in Slots : t # slot => Reserved(e, t) = {}
  BY DEF RowsInv, EventsHold, EventHolds, Has
<1> HIDE DEF slot, leaves
<1>4. \A x \in Times : x[1] \in Spaces /\ x[2] \in Slots /\ x = <<x[1], x[2]>>
  BY DEF Times
<1>5. \A x \in Times : booked[x] = e <=> x[1] \in Reserved(e, x[2])
  BY <1>4 DEF Reserved
<1>6. \A x \in Times : booked[x] = e <=> x[1] \in leaves /\ x[2] = slot
  BY <1>2, <1>3, <1>4, <1>5
<1>7. leaves \X {slot} \subseteq Times
  BY <1>1, <1>2 DEF Reserved, Times
<1>8. {x \in Times : booked[x] = e} = leaves \X {slot}
  BY <1>4, <1>6, <1>7
<1> QED BY <1>8 DEF slot, leaves

\* A scheduled event has all leaves of its space at its time and no other row;
\* what is not of a scheduled event is of an allocation, for a time not taken:
\* for any hierarchy and any number of sessions, when bookings and changes of
\* the hierarchy do not race (space_bookings, reject_nonleaf_booking).
THEOREM BookingsAlwaysAgree == SpacesSpec => []BookingsAgree
<1>1. ASSUME SpacesInv PROVE BookingsAgree
  <2> SUFFICES ASSUME Careful
               PROVE  /\ \A e \in Events : Live(event[e].status) =>
                            {x \in Times : booked[x] = e} =
                                Leaves(event[e].space) \X {event[e].slot}
                      /\ \A e \in Events : Live(event[e].status) \/ Mishap("revived") \/
                            \A x \in Times : booked[x] # e
                      /\ \A b \in Blocks : \A x \in Times : booked[x] = b =>
                            x[1] \in Leaves(block[b]) /\ request[<<b, x[2]>>] # "approved"
    BY DEF BookingsAgree, Careful
  <2>1. \A e \in Events : Live(event[e].status) =>
            {x \in Times : booked[x] = e} = Leaves(event[e].space) \X {event[e].slot}
    BY <1>1, RowsOfEvent DEF SpacesInv
  <2>2. ASSUME NEW h \in Holders, NEW x \in Times, booked[x] = h
        PROVE  x[2] \in Slots /\ x[1] \in Reserved(h, x[2]) /\ Has(h, x[2])
    <3>1. x[1] \in Spaces /\ x[2] \in Slots /\ x = <<x[1], x[2]>>
      BY DEF Times
    <3> QED BY <2>2, <3>1 DEF Reserved, Has
  <2>3. ASSUME NEW e \in Events, NEW x \in Times, booked[x] = e
        PROVE  Live(event[e].status) \/ Mishap("revived")
    BY <1>1, <2>2, <2>3, HoldersAre DEF SpacesInv, RowsInv, EventsHold, EventHolds
  <2>4. ASSUME NEW b \in Blocks, NEW x \in Times, booked[x] = b
        PROVE  x[1] \in Leaves(block[b]) /\ request[<<b, x[2]>>] # "approved"
    <3>1. b \in Holders /\ Place(b) = block[b]
      BY HoldersAre DEF Place
    <3>2. x[2] \in Slots /\ x[1] \in Reserved(b, x[2]) /\ Has(b, x[2])
      BY <2>2, <2>4, <3>1
    <3> QED BY <1>1, <3>1, <3>2, Hierarchy DEF SpacesInv, RowsInv, WholeSpaces, BlocksHold
  <2> QED BY <2>1, <2>3, <2>4
<1> QED BY <1>1, SpacesInductive, PTL
=============================================================================
