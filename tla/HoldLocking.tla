---------------------------- MODULE HoldLocking ----------------------------
(***************************************************************************)
(* The transactions of CheckoutCapacity statement by statement, with the   *)
(* row locks PostgreSQL gives them under READ COMMITTED.                   *)
(*                                                                         *)
(* Cart transactions lock the checkout row, read the holds without locking *)
(* them, lock the counters in subject order and update the holds last; the *)
(* hold-expiry job locks holds first (FOR UPDATE SKIP LOCKED), then        *)
(* counters, then checkouts.  A transaction writes only rows it has        *)
(* locked, and nothing it writes is seen before it commits, so the         *)
(* variables of CheckoutCapacity are the committed database and a          *)
(* transaction's updates are applied in its commit.                        *)
(***************************************************************************)
EXTENDS CheckoutCapacity

CONSTANTS
    Sessions,  \* database sessions
    Kinds,     \* the transactions sessions run, out of those below
    SubjectNo, \* subject order: program, division, offering, then id
    NoCart     \* the session has no cart

AllKinds == {"reserve", "confirm", "keep", "expire"}

ASSUME SessionAssumption ==
    /\ Kinds \subseteq AllKinds
    /\ SubjectNo \in [Subjects -> Nat]
    /\ \A s, t \in Subjects : SubjectNo[s] = SubjectNo[t] => s = t
    /\ NoCart \notin Checkouts

VARIABLES
    phase,    \* what a session does next
    kind,     \* the transaction it runs
    cart,     \* the cart of the transaction
    honours,  \* its honorProcessingHold
    readHold, \* the hold rows it read
    batch,    \* the hold rows the job selected
    owns      \* the rows a session has locked

session == <<phase, kind, cart, honours, readHold, batch>>
lockVars == <<vars, session, owns>>

Row ==
    ({"checkout"} \X Checkouts) \cup ({"counter"} \X Subjects)
        \cup ({"hold"} \X Checkouts \X Subjects)

NoHolds == [s \in Subjects |-> "none"]

LockTypeOK ==
    /\ phase \in [Sessions -> {"idle", "checkout", "counters", "rows"}]
    /\ kind \in [Sessions -> AllKinds \cup {"none"}]
    /\ cart \in [Sessions -> Checkouts \cup {NoCart}]
    /\ honours \in [Sessions -> BOOLEAN]
    /\ readHold \in [Sessions -> [Subjects -> HoldStatus]]
    /\ batch \in [Sessions -> SUBSET (Checkouts \X Subjects)]
    /\ owns \in [Sessions -> SUBSET Row]
    /\ \A p, q \in Sessions : p # q => owns[p] \cap owns[q] = {}
    /\ \A p \in Sessions : phase[p] = "idle" => owns[p] = {}

LockInit ==
    /\ Init
    /\ phase = [p \in Sessions |-> "idle"]
    /\ kind = [p \in Sessions |-> "none"]
    /\ cart = [p \in Sessions |-> NoCart]
    /\ honours = [p \in Sessions |-> FALSE]
    /\ readHold = [p \in Sessions |-> NoHolds]
    /\ batch = [p \in Sessions |-> {}]
    /\ owns = [p \in Sessions |-> {}]

-----------------------------------------------------------------------------
(* Locks.                                                                  *)

Free(r) == \A p \in Sessions : r \notin owns[p]

\* The subjects whose counters the transaction locks.
CountersOf(p) ==
    CASE kind[p] \in {"reserve", "confirm"} -> Cart(cart[p])
      [] kind[p] = "keep" -> {s \in Cart(cart[p]) : readHold[p][s] = "converted"}
      [] kind[p] = "expire" -> {h[2] : h \in batch[p]}

\* The rows its last statements lock: the cart's holds, or the open checkouts
\* past their deadline among those of the job's batch.
LastRows(p) ==
    CASE kind[p] = "reserve" -> {}
      [] kind[p] \in {"confirm", "keep"} -> {<<"hold", cart[p], s>> : s \in Cart(cart[p])}
      [] kind[p] = "expire" ->
            {<<"checkout", c>> : c \in {d \in {h[1] : h \in batch[p]} :
                                          status[d] = "open" /\ expiresAt[d] <= now}}

\* The rows it may lock next: the counters come one by one in subject order,
\* the rows of one UPDATE in whatever order the scan finds them.
Wanted(p) ==
    CASE phase[p] = "idle" -> {}
      [] phase[p] = "checkout" -> {<<"checkout", cart[p]>>}
      [] phase[p] = "counters" ->
            LET missing == {s \in CountersOf(p) : <<"counter", s>> \notin owns[p]} IN
            {<<"counter", s>> : s \in {t \in missing :
                \A u \in missing : SubjectNo[t] <= SubjectNo[u]}}
      [] phase[p] = "rows" -> LastRows(p) \ owns[p]

Take(p, r) ==
    /\ r \in Wanted(p)
    /\ Free(r)
    /\ owns' = [owns EXCEPT ![p] = @ \cup {r}]

\* Mutant: the connection goes back to the pool inside its transaction.
EndInTransaction(p) ==
    /\ phase' = [phase EXCEPT ![p] = "idle"]
    /\ kind' = [kind EXCEPT ![p] = "none"]
    /\ cart' = [cart EXCEPT ![p] = NoCart]
    /\ honours' = [honours EXCEPT ![p] = FALSE]
    /\ readHold' = [readHold EXCEPT ![p] = NoHolds]
    /\ batch' = [batch EXCEPT ![p] = {}]
    /\ UNCHANGED owns

\* Commit or rollback: the session forgets the transaction and its locks.
End(p) ==
    /\ phase' = [phase EXCEPT ![p] = "idle"]
    /\ kind' = [kind EXCEPT ![p] = "none"]
    /\ cart' = [cart EXCEPT ![p] = NoCart]
    /\ honours' = [honours EXCEPT ![p] = FALSE]
    /\ readHold' = [readHold EXCEPT ![p] = NoHolds]
    /\ batch' = [batch EXCEPT ![p] = {}]
    /\ owns' = [owns EXCEPT ![p] = {}]

\* The session waits: every row it wants next is locked by another.
Waiting(p) == Wanted(p) # {} /\ \A r \in Wanted(p) : ~Free(r)

\* Sessions of D wait for one another.
WaitCycle(D) ==
    /\ D # {}
    /\ \A p \in D : Waiting(p) /\ \A r \in Wanted(p) : \E q \in D \ {p} : r \in owns[q]

-----------------------------------------------------------------------------
(* The transactions.                                                       *)

\* A cart transaction begins.  The deadline of a reservation is compared with
\* the clock before its transaction.
BeginCart(p, k, c, h) ==
    /\ phase[p] = "idle"
    /\ k \in Kinds \ {"expire"}
    /\ k = "reserve" => status[c] # "none" /\ expiresAt[c] > now
    /\ k \in {"confirm", "keep"} => Payable(c)
    /\ h => k = "confirm"
    /\ phase' = [phase EXCEPT ![p] = "checkout"]
    /\ kind' = [kind EXCEPT ![p] = k]
    /\ cart' = [cart EXCEPT ![p] = c]
    /\ honours' = [honours EXCEPT ![p] = h]
    /\ UNCHANGED <<vars, readHold, batch, owns>>

\* Mutant: the batch is selected without FOR UPDATE SKIP LOCKED.
BeginJobOnLocked(p, B) ==
    /\ phase[p] = "idle"
    /\ "expire" \in Kinds
    /\ B # {} /\ B \subseteq DueHolds
    /\ phase' = [phase EXCEPT ![p] = "counters"]
    /\ kind' = [kind EXCEPT ![p] = "expire"]
    /\ batch' = [batch EXCEPT ![p] = B]
    /\ owns' = [owns EXCEPT ![p] = {<<"hold", h[1], h[2]>> : h \in B}]
    /\ UNCHANGED <<vars, cart, honours, readHold>>

\* The job's first statement selects and locks due holds, skipping locked
\* ones.  A hold changed while the statement runs is examined again before it
\* is locked, so the statement is one step.
BeginJob(p, B) ==
    /\ phase[p] = "idle"
    /\ "expire" \in Kinds
    /\ B # {} /\ B \subseteq DueHolds
    /\ \A h \in B : Free(<<"hold", h[1], h[2]>>)
    /\ phase' = [phase EXCEPT ![p] = "counters"]
    /\ kind' = [kind EXCEPT ![p] = "expire"]
    /\ batch' = [batch EXCEPT ![p] = B]
    /\ owns' = [owns EXCEPT ![p] = {<<"hold", h[1], h[2]>> : h \in B}]
    /\ UNCHANGED <<vars, cart, honours, readHold>>

\* What the locked checkout and the holds, read without a lock, allow.
Admitted(p) ==
    LET c == cart[p] IN
    CASE kind[p] = "reserve" ->
            /\ status[c] \in {"open", "awaiting_payment"}
            /\ \A s \in Cart(c) : hold[c][s] = "none"
      [] kind[p] = "confirm" -> status[c] = "awaiting_payment" /\ AllActive(c)
      [] kind[p] = "keep" ->
            /\ status[c] \in {"awaiting_payment", "completed"}
            /\ ~failedOnce[c]
            /\ \A s \in Cart(c) : hold[c][s] # "released"

\* Lock the checkout and read its holds; whatever is not admitted returns or
\* throws without writing.
LockCheckout(p) ==
    /\ phase[p] = "checkout"
    /\ Free(<<"checkout", cart[p]>>)
    /\ \/ ~Admitted(p) /\ End(p) /\ UNCHANGED vars
       \/ /\ Admitted(p)
          /\ Take(p, <<"checkout", cart[p]>>)
          /\ readHold' = [readHold EXCEPT ![p] = hold[cart[p]]]
          /\ phase' = [phase EXCEPT ![p] = "counters"]
          /\ UNCHANGED <<vars, kind, cart, honours, batch>>

LockCounter(p) ==
    /\ phase[p] = "counters"
    /\ \E r \in Wanted(p) : Take(p, r)
    /\ UNCHANGED <<vars, session>>

\* What the locked counters allow.
CountersAllow(p) ==
    LET c == cart[p] IN
    CASE kind[p] = "reserve" -> \A s \in Cart(c) : Fits(s, Quantity(c, s))
      [] kind[p] = "confirm" ->
            /\ \A s \in Cart(c) : held[s] >= Quantity(c, s)
            /\ honours[p] \/ holdExpires[c] > now
      [] kind[p] = "keep" -> \A s \in CountersOf(p) : confirmed[s] >= Quantity(c, s)
      [] kind[p] = "expire" ->
            \A s \in Subjects : held[s] >= Cardinality(BatchSeats(batch[p], s))

\* All counters are locked: go on to the updates, or give up.
CheckCounters(p) ==
    /\ phase[p] = "counters"
    /\ Wanted(p) = {}
    /\ \/ ~CountersAllow(p) /\ End(p) /\ UNCHANGED vars
       \/ /\ CountersAllow(p)
          /\ phase' = [phase EXCEPT ![p] = "rows"]
          /\ UNCHANGED <<vars, kind, cart, honours, readHold, batch, owns>>

\* Mutant: converted_at is written over released_at.
LockRowUnchecked(p) ==
    /\ phase[p] = "rows"
    /\ \E r \in Wanted(p) : Take(p, r)
    /\ UNCHANGED <<vars, session>>

\* Lock a row of the last statements.  A released hold cannot be converted
\* (CHECK released_at IS NULL OR converted_at IS NULL, migration 0102).
LockRow(p) ==
    /\ phase[p] = "rows"
    /\ \E r \in Wanted(p) :
          /\ Free(r)
          /\ \/ /\ kind[p] = "confirm" /\ hold[r[2]][r[3]] = "released"
                /\ End(p)
             \/ /\ ~(kind[p] = "confirm" /\ hold[r[2]][r[3]] = "released")
                /\ Take(p, r)
                /\ UNCHANGED session
    /\ UNCHANGED vars

\* The updates of each transaction, as its SQL writes the locked rows.
WriteReserve(c) ==
    /\ held' = [s \in Subjects |-> held[s] + Quantity(c, s)]
    /\ hold' = SetHolds(c, Cart(c), "active")
    /\ holdExpires' = [holdExpires EXCEPT ![c] = expiresAt[c]]
    /\ UNCHANGED <<capacity, confirmed, checkout, registration, now>>

WriteConfirm(c) ==
    /\ held' = [s \in Subjects |-> held[s] - Quantity(c, s)]
    /\ confirmed' = [s \in Subjects |-> confirmed[s] + Quantity(c, s)]
    /\ hold' = SetHolds(c, Cart(c), "converted")
    /\ status' = [status EXCEPT ![c] = "completed"]
    /\ registration' = [registration EXCEPT ![c] = IF @ = "pending_payment" THEN "confirmed" ELSE @]
    /\ UNCHANGED <<capacity, createdAt, expiresAt, failedOnce, holdExpires, now>>

\* The counters follow the holds as they were read; the update of the holds
\* clears converted_at and leaves released_at as it finds it.
WriteKeep(c, counted) ==
    /\ confirmed' = [s \in Subjects |->
          IF s \in counted THEN confirmed[s] - Quantity(c, s) ELSE confirmed[s]]
    /\ held' = [s \in Subjects |->
          IF s \in counted THEN held[s] + Quantity(c, s) ELSE held[s]]
    /\ hold' = SetHolds(c, {s \in Cart(c) : hold[c][s] # "released"}, "active")
    /\ holdExpires' = [holdExpires EXCEPT ![c] = now + FailWindow]
    /\ status' = [status EXCEPT ![c] = "awaiting_payment"]
    /\ expiresAt' = [expiresAt EXCEPT ![c] = now + FailWindow]
    /\ failedOnce' = [failedOnce EXCEPT ![c] = TRUE]
    /\ registration' = [registration EXCEPT ![c] = IF @ = "confirmed" THEN "pending_payment" ELSE @]
    /\ UNCHANGED <<capacity, createdAt, now>>

WriteExpire(B, expiring) ==
    /\ held' = [s \in Subjects |-> held[s] - Cardinality(BatchSeats(B, s))]
    /\ hold' = [c \in Checkouts |-> [s \in Subjects |->
          IF <<c, s>> \in B THEN "released" ELSE hold[c][s]]]
    /\ status' = [c \in Checkouts |->
          IF <<"checkout", c>> \in expiring THEN "expired" ELSE status[c]]
    /\ UNCHANGED <<capacity, confirmed, createdAt, expiresAt, failedOnce, holdExpires,
                   registration, now>>

Commit(p) ==
    /\ phase[p] = "rows"
    /\ Wanted(p) = {}
    /\ \/ kind[p] = "reserve" /\ WriteReserve(cart[p])
       \/ kind[p] = "confirm" /\ WriteConfirm(cart[p])
       \/ kind[p] = "keep" /\ WriteKeep(cart[p], CountersOf(p))
       \/ kind[p] = "expire" /\ WriteExpire(batch[p], LastRows(p))
    /\ End(p)

\* PostgreSQL breaks a cycle of waiting sessions by rolling one of them back.
BreakDeadlock(p) ==
    /\ \E D \in SUBSET Sessions : p \in D /\ WaitCycle(D)
    /\ End(p)
    /\ UNCHANGED vars

-----------------------------------------------------------------------------
\* No transaction has locked a hold row of cart c.
HoldsFree(c) == \A s \in Cart(c) : Free(<<"hold", c, s>>)

\* What else happens to carts.  Freezing prices and quoting lock the checkout,
\* then its hold rows; opening a cart locks nothing another one can have.  A
\* clock unit is longer than a transaction.
OtherStep ==
    \/ \E c \in Checkouts : Free(<<"checkout", c>>) /\ StartCheckout(c)
    \/ \E c \in Checkouts :
          /\ Free(<<"checkout", c>>) /\ HoldsFree(c)
          /\ Freeze(c) \/ QuotePaid(c)
    \/ (\A p \in Sessions : phase[p] = "idle") /\ Tick

Proceed(p) ==
    \/ LockCheckout(p)
    \/ LockCounter(p)
    \/ CheckCounters(p)
    \/ LockRow(p)
    \/ Commit(p)

LockNext ==
    \/ \E p \in Sessions, k \in AllKinds, c \in Checkouts, h \in BOOLEAN : BeginCart(p, k, c, h)
    \/ \E p \in Sessions, B \in SUBSET DueHolds : BeginJob(p, B)
    \/ \E p \in Sessions : Proceed(p)
    \/ \E p \in Sessions : BreakDeadlock(p)
    \/ OtherStep /\ UNCHANGED <<session, owns>>

LockSpec == LockInit /\ [][LockNext]_lockVars

\* Sessions proceed, the queue of a row lock is served in turn, and deadlocks
\* are detected.
LockFairSpec ==
    /\ LockSpec
    /\ \A p \in Sessions : SF_lockVars(Proceed(p)) /\ WF_lockVars(BreakDeadlock(p))

-----------------------------------------------------------------------------
(* Properties.                                                             *)

\* The one commit that is no step of CheckoutCapacity: a failed payment keeps
\* a cart some of whose holds the job released after they were read.
KeepAfterRelease ==
    \E p \in Sessions :
        /\ kind[p] = "keep"
        /\ \E s \in Cart(cart[p]) : hold[cart[p]][s] = "released"
        /\ WriteKeep(cart[p], CountersOf(p))

\* What transactions commit, however their statements interleave, is a step of
\* CheckoutCapacity: its model of one transaction as one action is right,
\* except for KeepAfterRelease, and that leaves the counters reconciled.
CommitsAreSteps == [][Next \/ (KeepAfterRelease /\ Reconciled')]_vars

\* Every transaction ends, also when the job, which locks holds before
\* counters, and a confirmation, which locks counters before holds, wait for
\* each other: the deadlock is broken and both are done.
TransactionsEnd == \A p \in Sessions : (phase[p] # "idle") ~> (phase[p] = "idle")
=============================================================================
