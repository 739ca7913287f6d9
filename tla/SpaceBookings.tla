--------------------------- MODULE SpaceBookings ---------------------------
(***************************************************************************)
(* Who has which space when: fields and their parts, and the events,       *)
(* practice allocations and closures that take their time.                 *)
(*                                                                         *)
(* A booking of a space is one row for each of its leaves, and PostgreSQL  *)
(* keeps two rows of one leaf from overlapping.  A transaction reads (the  *)
(* event's version, conflicts, the leaves, and what the triggers look at)  *)
(* in its Begin step and writes in its Commit step; other transactions may *)
(* commit in between (READ COMMITTED).  It may roll back instead: because  *)
(* what Commit needs is false by then, as the victim of a deadlock, or     *)
(* because the process stops.                                              *)
(*                                                                         *)
(* One facility; intervals that coincide or do not meet, all in the        *)
(* future; buffers, blackouts, availability and the soft conflicts of      *)
(* teams and coaches are left out, and so are archived spaces, which       *)
(* bookings ignore, and recurring series.                                  *)
(***************************************************************************)
EXTENDS Naturals, FiniteSets

CONSTANTS
    Spaces,      \* fields and parts, the ones not yet created included
    Top,         \* the parent of a field
    Facility,    \* closes all spaces
    FirstTree,   \* the spaces of the beginning and their parents
    Slots,       \* intervals
    Events,      \* events, by id
    Blocks,      \* allocations, by id
    Nobody,
    Sessions,    \* database sessions
    MaxVersion,  \* bound on the changes of an event
    MaxClosures, \* bound on closures
    Givens       \* what a behaviour is given, see given

\* What staff do in a behaviour, and the mishaps, named at Mishap below.
Offices == {"adds", "moves", "closures", "blocks"}
AllMishaps == {"race", "crossing", "divided", "detached", "revived"}

ASSUME SpacesAssumption ==
    /\ Top \notin Spaces /\ Facility \notin Spaces
    /\ DOMAIN FirstTree \subseteq Spaces
    /\ \A s \in DOMAIN FirstTree : FirstTree[s] \in DOMAIN FirstTree \cup {Top}
    /\ \A C \in SUBSET DOMAIN FirstTree : C # {} => \E s \in C : FirstTree[s] \notin C
    /\ IsFiniteSet(Spaces)
    /\ Nobody \notin Events \cup Blocks /\ Events \cap Blocks = {}
    /\ MaxVersion \in Nat \ {0} /\ MaxClosures \in Nat
    /\ Givens \subseteq [offices : SUBSET Offices, mishaps : SUBSET AllMishaps,
                         events : SUBSET Events, slots : SUBSET Slots,
                         changes : 0 .. MaxVersion]

VARIABLES
    given,    \* what staff do in this behaviour, what may go wrong, its events, the
              \* intervals they use and how often they change
    tree,     \* spaces: parent_space_id of those that exist
    booked,   \* space_bookings: who has a leaf at an interval
    event,    \* events: status, space_id, interval, version
    closed,   \* closures: <<scope, interval>>
    block,    \* allocations: the space, Nobody before it is created
    request,  \* allocation_requests, by allocation and interval
    tx        \* the transaction of each session

spacesVars == <<given, tree, booked, event, closed, block, request, tx>>

Times == Spaces \X Slots
None == [status |-> "none", space |-> Top, slot |-> Nobody, version |-> 0]
Idle == [kind |-> "idle"]

-----------------------------------------------------------------------------
(* The hierarchy.                                                          *)

Children(s) == {c \in DOMAIN tree : tree[c] = s}

\* The spaces in s, itself included: every set that has s and the parts of what
\* it has, has them.  The queries of the code do not end when the hierarchy has a
\* cycle.
Whole(C) == \A c \in DOMAIN tree : tree[c] \in C => c \in C
Within(s) ==
    LET around == {C \in SUBSET DOMAIN tree : s \in C /\ Whole(C)}
    IN  {c \in DOMAIN tree : \A C \in around : c \in C}

Leaves(s) == {l \in Within(s) : Children(l) = {}}

\* The spaces whose closure closes s: itself, its leaves and what they are in.
Relevant(s) ==
    LET leaves == Leaves(s)
    IN  {s} \cup {r \in DOMAIN tree : leaves \cap Within(r) # {}}

InTree(s) == \A c \in Children(s) : s \notin Within(c)
Forest == \A s \in DOMAIN tree : InTree(s)

-----------------------------------------------------------------------------
(* Transactions.                                                           *)

Holders == Events \cup Blocks

Busy(kinds) == {p \in Sessions : tx[p].kind \in kinds}
Booking == {"book", "close", "block", "practice"}
Building == {"add", "move"}

\* Rows locked FOR UPDATE by the transactions on the hierarchy.
Locked == UNION {tx[p].locks : p \in Busy(Building)}

Begin(p, x) == tx[p] = Idle /\ tx' = [tx EXCEPT ![p] = x]
End(p) == tx' = [tx EXCEPT ![p] = Idle]

\* Bookings and changes of the hierarchy come between each other in a race only.
MayBook == Busy(Building) # {} => "race" \in given.mishaps
MayBuild == Busy(Booking) # {} => "race" \in given.mishaps

Data == <<tree, booked, event, closed, block, request>>

Rollback(p) == tx[p] # Idle /\ End(p) /\ UNCHANGED <<given, Data>>

-----------------------------------------------------------------------------
(* Bookings.                                                               *)

\* No hard conflict for holder h in space s at t.
Free(s, t, h) ==
    /\ LET leaves == Leaves(s)
       IN  leaves # {} /\ \A l \in leaves : booked[<<l, t>>] \in {Nobody, h}
    /\ \A x \in closed : x[2] = t => x[1] \notin Relevant(s) \cup {Facility}

\* The bookings without those of the holders H, and with h on leaves at slots.
Without(H) == [x \in Times |-> IF booked[x] \in H THEN Nobody ELSE booked[x]]
With(rows, leaves, slots, h) ==
    [x \in Times |-> IF x \in leaves \X slots THEN h ELSE rows[x]]
Insertable(rows, leaves, slots) == \A x \in leaves \X slots : rows[x] = Nobody

Unchanged(read) == \A x \in read : event[x[1]].version = x[2]
Read(E) == {<<e, event[e].version>> : e \in E}

Live(status) == status = "scheduled"

BookEvent(p, e, s, t, status) ==
    /\ MayBook
    /\ event[e].version < given.changes
    /\ Free(s, t, e)
    /\ Begin(p, [kind |-> "book", event |-> e, space |-> s, slot |-> t,
                 leaves |-> Leaves(s), status |-> status, read |-> Read({e})])
    /\ UNCHANGED <<given, Data>>

Fresh(e) ==
    /\ e \in given.events /\ event[e] = None
    /\ \A q \in Busy({"book", "practice"}) : tx[q].event # e

CreateEvent(p, e, s, t) == Fresh(e) /\ BookEvent(p, e, s, t, "scheduled")

UpdateEvent(p, e, s, t) ==
    /\ event[e] # None
    /\ Live(event[e].status) \/ "revived" \in given.mishaps
    /\ BookEvent(p, e, s, t, event[e].status)

CommitBooking(p) ==
    LET x == tx[p]
        rows == Without({x.event})
    IN  /\ x.kind = "book"
        /\ Unchanged(x.read)
        /\ Insertable(rows, x.leaves, {x.slot})
        /\ booked' = With(rows, x.leaves, {x.slot}, x.event)
        /\ event' = [event EXCEPT ![x.event] =
                        [status |-> x.status, space |-> x.space, slot |-> x.slot,
                         version |-> @.version + 1]]
        /\ End(p)
        /\ UNCHANGED <<given, tree, closed, block, request>>

-----------------------------------------------------------------------------
(* Closures.                                                               *)

\* The scheduled events a closure postpones: those of this very space.
Affected(scope, t) ==
    {e \in Events : /\ Live(event[e].status) /\ event[e].slot = t
                    /\ scope \in {event[e].space, Facility}}

CreateClosure(p, scope, t) ==
    /\ "closures" \in given.offices /\ MayBook
    /\ <<scope, t>> \notin closed /\ Cardinality(closed) < MaxClosures
    /\ \A e \in Affected(scope, t) : event[e].version < given.changes
    /\ Begin(p, [kind |-> "close", closure |-> <<scope, t>>,
                 read |-> Read(Affected(scope, t))])
    /\ UNCHANGED <<given, Data>>

Postponed(row) ==
    [status |-> "postponed", space |-> row.space, slot |-> row.slot,
     version |-> row.version + 1]

\* Mutant: the postponed events keep their rows.
CommitClosureOnly(p) ==
    LET x == tx[p]
    IN  /\ x.kind = "close"
        /\ Unchanged(x.read)
        /\ closed' = closed \cup {x.closure}
        /\ event' = [e \in Events |->
                        IF \E r \in x.read : r[1] = e THEN Postponed(event[e]) ELSE event[e]]
        /\ End(p)
        /\ UNCHANGED <<given, tree, booked, block, request>>

CommitClosure(p) ==
    LET x == tx[p]
        ended == {r[1] : r \in x.read}
    IN  /\ x.kind = "close"
        /\ Unchanged(x.read)
        /\ closed' = closed \cup {x.closure}
        /\ booked' = Without(ended)
        /\ event' = [e \in Events |->
                        IF e \in ended THEN Postponed(event[e]) ELSE event[e]]
        /\ End(p)
        /\ UNCHANGED <<given, tree, block, request>>

-----------------------------------------------------------------------------
(* Allocations, and the practices coaches pick from them.                  *)

\* No conflict is looked for: PostgreSQL refuses rows that overlap.
CreateAllocation(p, b, s, slots) ==
    /\ "blocks" \in given.offices /\ MayBook
    /\ block[b] = Top /\ \A q \in Busy({"block"}) : tx[q].block # b
    /\ Leaves(s) # {}
    /\ Begin(p, [kind |-> "block", block |-> b, space |-> s, slots |-> slots,
                 leaves |-> Leaves(s)])
    /\ UNCHANGED <<given, Data>>

CommitAllocation(p) ==
    LET x == tx[p]
    IN  /\ x.kind = "block"
        /\ Insertable(booked, x.leaves, x.slots)
        /\ booked' = With(booked, x.leaves, x.slots, x.block)
        /\ block' = [block EXCEPT ![x.block] = x.space]
        /\ End(p)
        /\ UNCHANGED <<given, tree, event, closed, request>>

Reserved(b, t) == {l \in Spaces : booked[<<l, t>>] = b}

RequestSlot(b, t) ==
    /\ block[b] # Top
    /\ request[<<b, t>>] = "none" /\ Reserved(b, t) # {}
    /\ request' = [request EXCEPT ![<<b, t>>] = "pending"]
    /\ UNCHANGED <<given, tree, booked, event, closed, block, tx>>

DeclineRequest(b, t) ==
    /\ request[<<b, t>>] = "pending"
    /\ request' = [request EXCEPT ![<<b, t>>] = "none"]
    /\ UNCHANGED <<given, tree, booked, event, closed, block, tx>>

MakePractice(p, b, t, e) ==
    /\ MayBook /\ Fresh(e)
    /\ block[b] # Top /\ Reserved(b, t) # {}
    /\ Begin(p, [kind |-> "practice", block |-> b, slot |-> t, event |-> e,
                 leaves |-> Leaves(block[b]), was |-> request[<<b, t>>]])
    /\ UNCHANGED <<given, Data>>

ApproveRequest(p, b, t, e) == request[<<b, t>>] = "pending" /\ MakePractice(p, b, t, e)

\* A request where the program asks for no approval.
TakeSlot(p, b, t, e) == request[<<b, t>>] = "none" /\ MakePractice(p, b, t, e)

CommitPractice(p) ==
    LET x == tx[p]
        given_back == [y \in Times |-> IF y[2] = x.slot /\ booked[y] = x.block
                                       THEN Nobody ELSE booked[y]]
    IN  /\ x.kind = "practice"
        /\ request[<<x.block, x.slot>>] = x.was
        /\ Insertable(given_back, x.leaves, {x.slot})
        /\ booked' = With(given_back, x.leaves, {x.slot}, x.event)
        /\ event' = [event EXCEPT ![x.event] =
                        [status |-> "scheduled", space |-> block[x.block], slot |-> x.slot,
                         version |-> 1]]
        /\ request' = [request EXCEPT ![<<x.block, x.slot>>] = "approved"]
        /\ End(p)
        /\ UNCHANGED <<given, tree, closed, block>>

-----------------------------------------------------------------------------
(* The hierarchy changes.                                                  *)

\* Bookings of the parent itself refuse it, those of its parts do not.
Unbooked(s) == \A t \in Slots : booked[<<s, t>>] = Nobody

\* A part is added to a space that has parts: whoever holds the whole of it
\* does not hold the new part.
Undivided(s) == Children(s) = {} \/ "divided" \in given.mishaps

AddPart(p, n, s, locks) ==
    /\ "adds" \in given.offices /\ MayBuild /\ Undivided(s)
    /\ n \notin DOMAIN tree /\ \A q \in Busy(Building) : tx[q].space # n
    /\ Unbooked(s)
    /\ Begin(p, [kind |-> "add", space |-> n, parent |-> s, locks |-> locks])
    /\ UNCHANGED <<given, Data>>

\* scheduling: POST /spaces.
CreateSpace(p, n, s) == AddPart(p, n, s, {})

\* facilities: the parent is locked.
CreatePart(p, n, s) == s \notin Locked /\ AddPart(p, n, s, {s})

\* Mutant: a space may go below a part of itself.
UpdateSpaceUnchecked(p, s, parent) ==
    /\ "moves" \in given.offices /\ MayBuild
    /\ Busy({"move"}) # {} => "crossing" \in given.mishaps
    /\ (\A l \in Within(s) : Unbooked(l)) \/ "detached" \in given.mishaps
    /\ parent # tree[s]
    /\ {s, parent} \cap Locked = {}
    /\ parent # Top => Undivided(parent) /\ Unbooked(parent)
    /\ Begin(p, [kind |-> "move", space |-> s, parent |-> parent,
                 locks |-> {s, parent} \ {Top}])
    /\ UNCHANGED <<given, Data>>

\* A space goes to another parent, or stands alone, with the bookings it and
\* its parts have.
UpdateSpace(p, s, parent) ==
    /\ "moves" \in given.offices /\ MayBuild
    /\ Busy({"move"}) # {} => "crossing" \in given.mishaps
    /\ (\A l \in Within(s) : Unbooked(l)) \/ "detached" \in given.mishaps
    /\ parent # tree[s]
    /\ {s, parent} \cap Locked = {}
    /\ parent # Top =>
          /\ Undivided(parent)
          /\ parent \notin Within(s)
          /\ Unbooked(parent)
    /\ Begin(p, [kind |-> "move", space |-> s, parent |-> parent,
                 locks |-> {s, parent} \ {Top}])
    /\ UNCHANGED <<given, Data>>

CommitSpace(p) ==
    LET x == tx[p]
    IN  /\ x.kind \in Building
        /\ tree' = [s \in DOMAIN tree \cup {x.space} |->
                        IF s = x.space THEN x.parent ELSE tree[s]]
        /\ End(p)
        /\ UNCHANGED <<given, booked, event, closed, block, request>>

-----------------------------------------------------------------------------
SpacesInit ==
    /\ given \in Givens
    /\ tree = FirstTree
    /\ booked = [x \in Times |-> Nobody]
    /\ event = [e \in Events |-> None]
    /\ closed = {}
    /\ block = [b \in Blocks |-> Top]
    /\ request = [x \in Blocks \X Slots |-> "none"]
    /\ tx = [p \in Sessions |-> Idle]

Schedule(p) ==
    \/ \E e \in Events, s \in DOMAIN tree, t \in given.slots :
          CreateEvent(p, e, s, t) \/ UpdateEvent(p, e, s, t)
    \/ \E scope \in DOMAIN tree \cup {Facility}, t \in given.slots : CreateClosure(p, scope, t)
    \/ \E b \in Blocks, s \in DOMAIN tree : \E slots \in SUBSET given.slots \ {{}} :
          CreateAllocation(p, b, s, slots)
    \/ \E b \in Blocks, t \in Slots, e \in Events :
          ApproveRequest(p, b, t, e) \/ TakeSlot(p, b, t, e)

Build(p) ==
    \/ \E n \in Spaces, s \in DOMAIN tree : CreateSpace(p, n, s) \/ CreatePart(p, n, s)
    \/ \E s \in DOMAIN tree, parent \in DOMAIN tree \cup {Top} : UpdateSpace(p, s, parent)

Commit(p) ==
    CommitBooking(p) \/ CommitClosure(p) \/ CommitAllocation(p) \/ CommitPractice(p)
        \/ CommitSpace(p)

SpacesNext ==
    \/ \E p \in Sessions : tx[p] = Idle /\ (Schedule(p) \/ Build(p))
    \/ \E p \in Sessions : Commit(p) \/ Rollback(p)
    \/ \E b \in Blocks, t \in Slots : RequestSlot(b, t) \/ DeclineRequest(b, t)

SpacesSpec == SpacesInit /\ [][SpacesNext]_spacesVars

-----------------------------------------------------------------------------
(* Properties.                                                             *)

\* What may go wrong in a behaviour, and what it breaks.
\*   race      a booking and a change of the hierarchy each miss the other's
\*             rows: the triggers look at committed ones only
\*   crossing  two spaces are moved at once, each below the other
\*   divided   a space is added to one with parts, which may be booked as a whole
\*   detached  a booked space is moved: its bookings stay those of its leaves
\*   revived   a postponed event is given a time again, and stays postponed
Mishap(m) == m \in given.mishaps

\* The rows are what they should be, and the hierarchy has no cycle: "Space
\* hierarchy cannot contain a cycle" (0113_spine_space_hierarchy.sql:28), on
\* which every walk up or down it relies.
SpacesTypeOK ==
    /\ given \in Givens
    /\ DOMAIN tree \subseteq Spaces
    /\ \A s \in DOMAIN tree : tree[s] \in DOMAIN tree \cup {Top}
    /\ Mishap("crossing") \/ Forest
    /\ booked \in [Times -> Holders \cup {Nobody}]
    /\ event \in [Events -> {None} \cup
                       [status : {"scheduled", "postponed"}, space : DOMAIN tree,
                        slot : Slots, version : 1 .. MaxVersion]]
    /\ closed \subseteq (DOMAIN tree \cup {Facility}) \X Slots
    /\ block \in [Blocks -> DOMAIN tree \cup {Top}]
    /\ request \in [Blocks \X Slots -> {"none", "pending", "approved"}]
    /\ \A p \in Sessions : tx[p].kind \in {"idle"} \cup Booking \cup Building

\* A scheduled event holds every leaf of its space at its time, so nobody else
\* can be there, whatever space he names ("space double booking is never
\* overridable", docs/codex/11-PHASES-OPERATIONS.md:131), and no space is kept
\* from others for nothing: all other rows are of allocations, for times not
\* taken.  Through updates, closures, approvals and new parts of a space ("adding
\* child spaces to a space with future bookings is rejected",
\* 15-SPEC-CLARIFICATIONS.md:56).
BookingsAgree ==
    given.mishaps \cap {"race", "divided", "detached"} = {} =>
        /\ \A e \in Events : Live(event[e].status) =>
              {x \in Times : booked[x] = e} = Leaves(event[e].space) \X {event[e].slot}
        /\ \A e \in Events : Live(event[e].status) \/ Mishap("revived") \/
              \A x \in Times : booked[x] # e
        /\ \A b \in Blocks : \A x \in Times : booked[x] = b =>
              x[1] \in Leaves(block[b]) /\ request[<<b, x[2]>>] # "approved"
=============================================================================
