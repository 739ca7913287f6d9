-------------------------- MODULE CheckoutPayments --------------------------
(***************************************************************************)
(* Payments of family carts: Stripe intents, the payments rows that mirror *)
(* them, and the workers that apply stored webhook events to both money    *)
(* and seats (PaymentIntentEventService.handle).                           *)
(*                                                                         *)
(* Handling one event is not one transaction.  A worker fetches the latest *)
(* intent from Stripe, settles the payment row, reads the checkout, and    *)
(* then confirms the seats, keeps them after a failure, or claims, issues  *)
(* and records the refund of a payment that came too late: each a step of  *)
(* its own, between which other workers, the hold-expiry job and the payer *)
(* act and after which the worker may stop.  The event is only marked      *)
(* processed at the end; whatever throws is retried from the beginning.    *)
(*                                                                         *)
(* Seats are those of CheckoutCapacity, whose actions the steps call.      *)
(***************************************************************************)
EXTENDS CheckoutCapacity

CONSTANTS
    Intents,      \* Stripe PaymentIntents
    CartOf,       \* the cart an intent pays for
    AchIntents,   \* intents paid by us_bank_account, the others by card
    ConfirmOnAch, \* the organization's setting confirmOnAchProcessing
    Workers,      \* concurrent executions of the event job
    Faults,       \* whether Stripe calls fail and processes stop
    Prompt,       \* whether every event is tried within a clock unit
    MaxChanges,   \* bound on the status changes of one intent
    NoTime,       \* processing_started_at IS NULL
    Nobody        \* no worker

ASSUME PaymentAssumption ==
    /\ CartOf \in [Intents -> Checkouts]
    /\ AchIntents \subseteq Intents
    /\ ConfirmOnAch \in BOOLEAN
    /\ Faults \in BOOLEAN /\ Prompt \in BOOLEAN
    /\ MaxChanges \in Nat
    /\ NoTime \notin Nat
    /\ Nobody \notin Workers

VARIABLES
    intent,       \* status of the intent at Stripe
    changes,      \* number of status changes, each of which sends an event
    payment,      \* payments.status
    processingAt, \* payments.processing_started_at
    todo,         \* stored events not yet processed
    failed,       \* those whose last dispatch threw: stripe_events.error
    stage,        \* what a worker does next
    job,          \* the event it handles
    seen,         \* the intent status it fetched
    honor,        \* honorProcessingHold, as computed from what it read
    claimed,      \* intents with a row in checkout_capacity_refund_claims
    refundCalls,  \* refunds created at Stripe for an intent
    recorded,     \* claims with a stripe_refund_id
    undone        \* history: payments whose confirmed cart a failure took back

seats == <<counters, checkout, hold, holdExpires, registration, now>>
stripe == <<intent, changes>>
money == <<payment, processingAt, undone>>
queue == <<todo, failed>>
worker == <<stage, job, seen, honor>>
refunds == <<claimed, refundCalls, recorded>>
allVars == <<seats, stripe, money, queue, worker, refunds>>

IntentStatus ==
    {"absent", "requires_payment_method", "requires_action", "processing",
     "succeeded", "canceled"}
PaymentStatus ==
    {"none", "requires_action", "processing", "succeeded", "failed", "canceled"}
Stage ==
    {"idle", "settle", "read", "confirm", "keep", "claim", "refund", "record", "complete"}

Event == Intents \X (1 .. MaxChanges)
IntentOf(w) == job[w][1]
CartFor(w) == CartOf[IntentOf(w)]

PaymentsTypeOK ==
    /\ intent \in [Intents -> IntentStatus]
    /\ changes \in [Intents -> 0 .. MaxChanges]
    /\ payment \in [Intents -> PaymentStatus]
    /\ processingAt \in [Intents -> Nat \cup {NoTime}]
    /\ todo \subseteq Event
    /\ failed \subseteq todo
    /\ stage \in [Workers -> Stage]
    /\ job \in [Workers -> Event \cup {Nobody}]
    /\ seen \in [Workers -> IntentStatus]
    /\ honor \in [Workers -> BOOLEAN]
    /\ claimed \subseteq Intents
    /\ refundCalls \in [Intents -> Nat]
    /\ recorded \subseteq claimed
    /\ undone \subseteq Intents

PaymentsInit ==
    /\ Init
    /\ intent = [i \in Intents |-> "absent"]
    /\ changes = [i \in Intents |-> 0]
    /\ payment = [i \in Intents |-> "none"]
    /\ processingAt = [i \in Intents |-> NoTime]
    /\ todo = {}
    /\ failed = {}
    /\ stage = [w \in Workers |-> "idle"]
    /\ job = [w \in Workers |-> Nobody]
    /\ seen = [w \in Workers |-> "absent"]
    /\ honor = [w \in Workers |-> FALSE]
    /\ claimed = {}
    /\ refundCalls = [i \in Intents |-> 0]
    /\ recorded = {}
    /\ undone = {}

-----------------------------------------------------------------------------
(* The payer and Stripe.                                                   *)

\* CheckoutPaymentService.create: the cart is payable and no other payment of
\* it is pending or done; a failed or canceled one is no obstacle.
\* reserve, load, Stripe's creation of the intent and recordPending are folded
\* into one step: the payer has nothing to pay with before the last of them.
CreatePayment(i) ==
    LET c == CartOf[i] IN
    /\ intent[i] = "absent"
    /\ status[c] = "awaiting_payment"
    /\ expiresAt[c] > now
    /\ registration[c] = "pending_payment"
    /\ \A j \in Intents :
          CartOf[j] = c => payment[j] \notin {"requires_action", "processing", "succeeded"}
    /\ intent' = [intent EXCEPT ![i] = "requires_payment_method"]
    /\ payment' = [payment EXCEPT ![i] = "requires_action"]
    /\ UNCHANGED <<seats, changes, processingAt, undone, queue, worker, refunds>>

\* What an attempt, its authentication or its settlement can make of an
\* intent.  A failed attempt leaves it at requires_payment_method, open to
\* another attempt; only succeeded and canceled are final.
StripeMoves(i) ==
    LET open == {"requires_payment_method", "requires_action"}
        outcome == IF i \in AchIntents
                   THEN {"processing"}
                   ELSE {"requires_action", "requires_payment_method", "succeeded"}
    IN  (open \X outcome) \cup (open \X {"canceled"})
            \cup ({"processing"} \X {"succeeded", "requires_payment_method"})

\* The intent changes and the webhook of the change is stored.
StripeChange(i, s) ==
    /\ <<intent[i], s>> \in StripeMoves(i)
    /\ changes[i] < MaxChanges
    /\ intent' = [intent EXCEPT ![i] = s]
    /\ changes' = [changes EXCEPT ![i] = @ + 1]
    /\ todo' = todo \cup {<<i, changes'[i]>>}
    /\ UNCHANGED <<seats, money, failed, worker, refunds>>

-----------------------------------------------------------------------------
(* A worker handling an event.                                             *)

GoTo(w, next) == stage' = [stage EXCEPT ![w] = next]

\* The worker is done with its event and forgets what it read.
Forget(w) ==
    /\ GoTo(w, "idle")
    /\ job' = [job EXCEPT ![w] = Nobody]
    /\ seen' = [seen EXCEPT ![w] = "absent"]
    /\ honor' = [honor EXCEPT ![w] = FALSE]

\* The job throws: the event is given back with its error.
Throw(w) ==
    /\ Forget(w)
    /\ failed' = failed \cup {job[w]}
    /\ UNCHANGED <<seats, stripe, money, todo, refunds>>

\* Claim a stored event that no worker has, or whose worker stopped and let
\* the lease of five minutes run out, and fetch the intent it is about.  A
\* worker that is still running is taken to finish within its lease.
Fetch(w, e) ==
    /\ stage[w] = "idle"
    /\ e \in todo
    /\ \A v \in Workers : stage[v] # "idle" => job[v] # e
    /\ job' = [job EXCEPT ![w] = e]
    /\ seen' = [seen EXCEPT ![w] = intent[e[1]]]
    /\ GoTo(w, "settle")
    /\ UNCHANGED <<seats, stripe, money, queue, honor, refunds>>

\* storedStatus: the payments.status an intent status is stored as.
StoredStatus(s) == IF s = "requires_payment_method" THEN "failed" ELSE s

\* Money does not go backwards, and a cart's invoice, charged in full, is not
\* paid twice: its balance would be negative (migration 0103).
Refused(i, target) ==
    \/ payment[i] \in {"succeeded", "canceled"} /\ target # payment[i]
    \/ /\ target = "succeeded"
       /\ \E j \in Intents \ {i} : CartOf[j] = CartOf[i] /\ payment[j] = "succeeded"

\* PostgresPaymentEventRepository.applyLatest.
Settle(w) ==
    LET i == IntentOf(w)
        target == StoredStatus(seen[w])
    IN
    /\ stage[w] = "settle"
    /\ \/ Refused(i, target) /\ Throw(w)
       \/ /\ ~Refused(i, target)
          /\ payment' = [payment EXCEPT ![i] = target]
          /\ processingAt' =
                IF target = "processing" /\ processingAt[i] = NoTime
                THEN [processingAt EXCEPT ![i] = now] ELSE processingAt
          /\ GoTo(w, "read")
          /\ UNCHANGED <<seats, undone, stripe, queue, job, seen, honor, refunds>>

\* Processing began before the hold expired.
InTime(i) == processingAt[i] # NoTime /\ processingAt[i] <= holdExpires[CartOf[i]]

\* Mutant: a processing bank payment leaves the seats alone.
ReadSuccessOnly(w) ==
    LET i == IntentOf(w)
        next == CASE seen[w] = "succeeded" -> "confirm"
                  [] seen[w] \in {"requires_payment_method", "canceled"} -> "keep"
                  [] OTHER -> "complete"
    IN
    /\ stage[w] = "read"
    /\ \/ payment[i] # StoredStatus(seen[w]) /\ Throw(w)
       \/ /\ payment[i] = StoredStatus(seen[w])
          /\ honor' = [honor EXCEPT ![w] = InTime(i)]
          /\ GoTo(w, next)
          /\ UNCHANGED <<seats, stripe, money, queue, job, seen, refunds>>

\* CheckoutPaymentEventService.applyLatest, its first transaction: read the
\* payment, the checkout and the holds, and choose what to do with the seats.
Read(w) ==
    LET i == IntentOf(w)
        confirms == \/ seen[w] = "succeeded"
                    \/ seen[w] = "processing" /\ ConfirmOnAch /\ i \in AchIntents
        next == CASE confirms -> "confirm"
                  [] seen[w] \in {"requires_payment_method", "canceled"} -> "keep"
                  [] OTHER -> "complete"
    IN
    /\ stage[w] = "read"
    /\ \/ payment[i] # StoredStatus(seen[w]) /\ Throw(w)
       \/ /\ payment[i] = StoredStatus(seen[w])
          /\ honor' = [honor EXCEPT ![w] =
                /\ InTime(i)
                /\ seen[w] = "succeeded" => status[CartOf[i]] = "awaiting_payment"]
          /\ GoTo(w, next)
          /\ UNCHANGED <<seats, stripe, money, queue, job, seen, refunds>>

\* Mutant: a payment that comes too late is neither seated nor refunded.
ConfirmOrForget(w) ==
    LET c == CartFor(w)
        confirmable == /\ status[c] = "awaiting_payment"
                       /\ AllActive(c)
                       /\ honor[w] \/ holdExpires[c] > now
    IN
    /\ stage[w] = "confirm"
    /\ \/ confirmable /\ Confirm(c, honor[w])
       \/ ~confirmable /\ UNCHANGED seats
    /\ GoTo(w, "complete")
    /\ UNCHANGED <<stripe, money, queue, job, seen, honor, refunds>>

\* capacity.confirm: 'confirmed', 'already_confirmed', or 'expired', which
\* for a successful payment leads to its refund.
ConfirmSeats(w) ==
    LET c == CartFor(w)
        confirmable == /\ status[c] = "awaiting_payment"
                       /\ AllActive(c)
                       /\ honor[w] \/ holdExpires[c] > now
    IN
    /\ stage[w] = "confirm"
    /\ \/ /\ confirmable
          /\ Confirm(c, honor[w])
          /\ GoTo(w, "complete")
       \/ /\ ~confirmable
          /\ GoTo(w, IF status[c] # "completed" /\ seen[w] = "succeeded"
                     THEN "claim" ELSE "complete")
          /\ UNCHANGED seats
    /\ UNCHANGED <<stripe, money, queue, job, seen, honor, refunds>>

\* Payments that had succeeded when a failure took back the confirmed places
\* of their cart: no part of the code, which keeps no trace of them.
TakenBack(c) ==
    IF status[c] = "completed"
    THEN {i \in Intents : CartOf[i] = c /\ payment[i] = "succeeded"} ELSE {}

\* Mutant: a failure is nothing to a confirmed cart.
KeepUnlessCompleted(w) ==
    LET c == CartFor(w)
        lost == \E s \in Cart(c) : hold[c][s] = "released"
    IN
    /\ stage[w] = "keep"
    /\ \/ ~failedOnce[c] /\ lost /\ Throw(w)
       \/ /\ failedOnce[c] \/ status[c] = "completed"
          /\ GoTo(w, "complete")
          /\ UNCHANGED <<seats, stripe, money, queue, job, seen, honor, refunds>>
       \/ /\ status[c] = "awaiting_payment"
          /\ KeepForFailedPayment(c)
          /\ GoTo(w, "complete")
          /\ UNCHANGED <<stripe, money, queue, job, seen, honor, refunds>>

\* failPayment: the seats are kept for 72 hours the first time, a later
\* failure changes nothing, and without a hold to keep the event fails.
KeepSeats(w) ==
    LET c == CartFor(w)
        payable == status[c] \in {"awaiting_payment", "completed"}
        lost == \E s \in Cart(c) : hold[c][s] = "released"
    IN
    /\ stage[w] = "keep"
    /\ \/ (~payable \/ (~failedOnce[c] /\ lost)) /\ Throw(w)
       \/ /\ payable /\ failedOnce[c]
          /\ GoTo(w, "complete")
          /\ UNCHANGED <<seats, stripe, money, queue, job, seen, honor, refunds>>
       \/ /\ KeepForFailedPayment(c)
          /\ undone' = undone \cup TakenBack(c)
          /\ GoTo(w, "complete")
          /\ UNCHANGED <<stripe, payment, processingAt, queue, job, seen, honor, refunds>>

\* Mutant: whoever finds the refund claimed issues it again.
ClaimAgain(w) ==
    /\ stage[w] = "claim"
    /\ payment[IntentOf(w)] = "succeeded"
    /\ claimed' = claimed \cup {IntentOf(w)}
    /\ GoTo(w, "refund")
    /\ UNCHANGED <<seats, stripe, money, queue, job, seen, honor, refundCalls, recorded>>

\* Mutant: the claim is taken for the refund.
ClaimOnly(w) ==
    /\ stage[w] = "claim"
    /\ payment[IntentOf(w)] = "succeeded"
    /\ claimed' = claimed \cup {IntentOf(w)}
    /\ GoTo(w, "complete")
    /\ UNCHANGED <<seats, stripe, money, queue, job, seen, honor, refundCalls, recorded>>

\* claimLostCapacityRefund: only the first claim of an intent goes on to the
\* refund; whoever finds it claimed leaves it to the claimer.
ClaimRefund(w) ==
    LET i == IntentOf(w) IN
    /\ stage[w] = "claim"
    /\ \/ payment[i] # "succeeded" /\ Throw(w)
       \/ /\ payment[i] = "succeeded"
          /\ claimed' = claimed \cup {i}
          /\ GoTo(w, IF i \in claimed THEN "complete" ELSE "refund")
          /\ UNCHANGED <<seats, stripe, money, queue, job, seen, honor, refundCalls, recorded>>

\* gateway.createRefund.
CreateRefund(w) ==
    /\ stage[w] = "refund"
    /\ refundCalls' = [refundCalls EXCEPT ![IntentOf(w)] = @ + 1]
    /\ GoTo(w, "record")
    /\ UNCHANGED <<seats, stripe, money, queue, job, seen, honor, claimed, recorded>>

\* recordLostCapacityRefund.
RecordRefund(w) ==
    /\ stage[w] = "record"
    /\ recorded' = recorded \cup {IntentOf(w)}
    /\ GoTo(w, "complete")
    /\ UNCHANGED <<seats, stripe, money, queue, job, seen, honor, claimed, refundCalls>>

\* Mutant: the error of an earlier try stays on a processed event.
CompleteKeepingError(w) ==
    /\ stage[w] = "complete"
    /\ todo' = todo \ {job[w]}
    /\ Forget(w)
    /\ UNCHANGED <<seats, stripe, money, failed, refunds>>

\* The event is processed.
Complete(w) ==
    /\ stage[w] = "complete"
    /\ todo' = todo \ {job[w]}
    /\ failed' = failed \ {job[w]}
    /\ Forget(w)
    /\ UNCHANGED <<seats, stripe, money, refunds>>

\* A Stripe call fails (retrieving the intent or creating the refund).
GatewayError(w) ==
    /\ Faults
    /\ stage[w] \in {"settle", "refund"}
    /\ Throw(w)

\* The process stops; the event keeps its lease until it runs out.
Stop(w) ==
    /\ Faults
    /\ stage[w] # "idle"
    /\ Forget(w)
    /\ UNCHANGED <<seats, stripe, money, queue, refunds>>

-----------------------------------------------------------------------------
WorkerStep(w) ==
    \/ Settle(w)
    \/ Read(w)
    \/ ConfirmSeats(w)
    \/ KeepSeats(w)
    \/ ClaimRefund(w)
    \/ CreateRefund(w)
    \/ RecordRefund(w)
    \/ Complete(w)

\* Every stored event has been tried, and those that failed wait for a retry.
QueueKeepsUp == todo \subseteq failed /\ \A w \in Workers : stage[w] = "idle"

\* What the family and the job do to the cart meanwhile (no route calls
\* extendHold or releaseSeats).
SeatChange ==
    \/ \E c \in Checkouts :
          StartCheckout(c) \/ Reserve(c) \/ Freeze(c) \/ QuotePaid(c)
    \/ \E batch \in SUBSET DueHolds : ReleaseExpiredHolds(batch)
    \/ (Prompt => QueueKeepsUp) /\ Tick

PaymentsNext ==
    \/ \E i \in Intents : CreatePayment(i)
    \/ \E i \in Intents, s \in IntentStatus : StripeChange(i, s)
    \/ \E w \in Workers, e \in todo : Fetch(w, e)
    \/ \E w \in Workers : WorkerStep(w)
    \/ \E w \in Workers : GatewayError(w) \/ Stop(w)
    \/ SeatChange /\ UNCHANGED <<stripe, money, queue, worker, refunds>>

PaymentsSpec == PaymentsInit /\ [][PaymentsNext]_allVars

others == <<stripe, money, queue, worker, refunds>>
JobRuns == \E batch \in SUBSET DueHolds : ReleaseExpiredHolds(batch)
ClockRuns == (Prompt => QueueKeepsUp) /\ Tick

\* A worker goes on with what it began, and every event is retried in turn:
\* by the queue, and by the replay job once the queue has given up.  The
\* hold-expiry job runs every minute, and the clock runs between retries.
PaymentsFairSpec ==
    /\ PaymentsSpec
    /\ \A w \in Workers : WF_allVars(WorkerStep(w))
    /\ \A e \in Event : SF_allVars(\E w \in Workers : Fetch(w, e))
    /\ WF_allVars(JobRuns /\ UNCHANGED others)
    /\ SF_allVars(ClockRuns /\ UNCHANGED others)

-----------------------------------------------------------------------------
(* Properties.                                                             *)

\* Nothing about intent i is in the queue or in a worker's hands.
Handled(i) ==
    /\ \A e \in todo : e[1] # i
    /\ \A w \in Workers : stage[w] # "idle" => IntentOf(w) # i

HandledCart(c) == \A i \in Intents : CartOf[i] = c => Handled(i)

\* The handlers change seats only as CheckoutCapacity allows, so its theorems
\* hold of carts driven by concurrent, retried and interrupted events.
ImplementsCapacity == Spec

\* At most one refund is created for a payment that came too late, however
\* often its event is retried and by whichever workers.
RefundedOnce == \A i \in Intents : refundCalls[i] <= 1

\* Events are handled one after another and nothing fails on the way.
InOrder == ~Faults /\ \A v, w \in Workers : v = w

\* The job has begun to give back the places of cart c.
Lost(c) == \E s \in Cart(c) : hold[c][s] = "released"

\* Once its events are handled, a payment that succeeded has a confirmed
\* seat or a refund (docs/codex/20-ALGORITHMS.md, capacity holds; the
\* comment on processingGraceMs in hold-expiry.ts).  Two things only leave it
\* with neither, and neither comes of events handled in order: a fault after
\* the refund was claimed, and a failure acted upon after the success, which
\* took its confirmed places back.
SeatedOrRefunded ==
    \A i \in Intents :
        (payment[i] = "succeeded" /\ HandledCart(CartOf[i])) =>
            \/ status[CartOf[i]] = "completed" \/ refundCalls[i] > 0
            \/ Faults /\ i \in claimed
            \/ ~InOrder /\ i \in undone

\* "The hold is kept while a PaymentIntent is processing"
\* (docs/codex/20-ALGORITHMS.md, capacity holds): until a day after its hold
\* expires, a cart with a bank payment that began in time has every place;
\* and where carts are confirmed while bank payments process, the cart is
\* confirmed once the payment's events are handled.  In order and in time, it
\* is not only if a payment of it had failed and its 72 hours were over;
\* otherwise, also if a failure came after or the events came too late.
ProcessingKeepsPlace ==
    \A i \in Intents :
        (intent[i] = "processing" /\ InTime(i)) =>
            LET c == CartOf[i] IN
            /\ now < Deadline(c) => ~Lost(c)
            /\ (ConfirmOnAch /\ Handled(i)) =>
                  \/ status[c] = "completed"
                  \/ failedOnce[c] /\ Lost(c)
                  \/ ~(InOrder /\ Prompt) /\ (failedOnce[c] \/ Lost(c))

\* A cart is confirmed and without a payment, done or on its way, only where a
\* failure of it has been acted upon before: failures take its places back for
\* 72 hours, but once.
UnpaidIsKnown ==
    \A c \in Checkouts :
        (status[c] = "completed" /\ HandledCart(c)) =>
            \/ failedOnce[c]
            \/ \E i \in Intents : CartOf[i] = c /\ payment[i] \in {"processing", "succeeded"}

\* Money and seats agree, in both directions.
MoneyAndSeatsAgree == SeatedOrRefunded /\ UnpaidIsKnown

\* A payment that succeeds at Stripe gets its seat or its refund in the end,
\* unless another payment of its cart was settled before: then its settlement
\* is refused at every retry (payment-event-repo.ts).
SuccessResolves ==
    \A i \in Intents :
        (intent[i] = "succeeded") ~>
            \/ status[CartOf[i]] = "completed" \/ refundCalls[i] > 0
            \/ payment[i] # "succeeded" /\ Refused(i, "succeeded")
=============================================================================
