-------------------------- MODULE RefundsDisputes --------------------------
(***************************************************************************)
(* What leaves a payment again: the refunds the finance office makes, and  *)
(* a dispute of the charge.                                                *)
(*                                                                         *)
(* A refund request reserves an attempt, reads what may still be refunded, *)
(* fences the attempt with beginExternal, calls Stripe, records the refund *)
(* and completes the attempt, each in a transaction of its own.  A dispute *)
(* is applied to the invoice and then moves money: the disputed cents and  *)
(* the fee are taken back from the organization's account, and given back  *)
(* when it wins; each movement is claimed, started, made and completed.    *)
(* Webhooks fetch the latest refund or dispute and apply it later; events  *)
(* overlap, repeat after a failure and come before the row they are for.   *)
(*                                                                         *)
(* The payment is all that pays its invoice.  Invoice lines, the service   *)
(* fee and the second approver are left out.                               *)
(***************************************************************************)
EXTENDS Integers, FiniteSets, Functions

CONSTANTS
    Amount,     \* cents of the payment, and of the transfer to the organization
    Keys,       \* refund requests, by Idempotency-Key
    Outside,    \* a refund without an attempt: of a checkout that lost its places
    Ask,        \* the cents of a refund
    Disputed,   \* the cents in dispute
    Fee,        \* Stripe's fee for it
    Back,       \* reinstatedNetCents after a win
    Workers,    \* workers that handle dispute events
    Changes,    \* bound on the status changes of the dispute
    Failures,   \* bound on processes that stop
    Givens      \* what a behaviour is given, see given

Refunds == Keys \cup {Outside}
Directions == {"from_connected", "to_connected"}

\* Named and defined at Mishap below.
AllMishaps == {"stopped", "outside", "returned", "inquiry", "late"}

ASSUME RefundsAssumption ==
    /\ Amount \in Nat \ {0} /\ Disputed \in 1 .. Amount /\ Fee \in Nat
    /\ Back \in Nat \ {0}
    /\ Outside \notin Keys /\ IsFiniteSet(Keys)
    /\ Ask \in [Refunds -> 1 .. Amount]
    /\ Changes \in Nat /\ Failures \in Nat
    /\ Givens \subseteq [mishaps : SUBSET AllMishaps, keys : SUBSET Keys,
                         workers : SUBSET Workers]

VARIABLES
    given,      \* what else may go wrong in this behaviour, its refund requests,
                \* and the workers for its dispute, if there is one
    \* refund_attempts, and the process of the request
    attempt, step,
    \* refunds
    record,     \* status
    \* invoices
    refunded, disputed, lost,
    \* Stripe: refunds, the dispute and how often it changed
    refund,
    dispute, moves,
    \* refund events not processed; handlers: an event and what it has still to
    \* apply of what it fetched
    todo, fetched,
    \* disputes
    accounting,
    \* dispute_liability_movements: state and amount_cents, and what Stripe moved
    movement, cents, moved,
    \* dispute events not processed, and the handlers' work
    raised, work,
    failures

requests == <<attempt, step>>
invoice == <<refunded, disputed, lost>>
stripe == <<refund, dispute, moves>>
refundQueue == <<todo, fetched>>
liability == <<movement, cents, moved>>
disputeQueue == <<raised, work>>
refundsVars == <<given, requests, record, invoice, stripe, refundQueue, accounting, liability,
                 disputeQueue, failures>>

RefundStatuses == {"none", "pending", "succeeded", "failed", "canceled"}

\* What a GatewayDispute says: 'warning' is an inquiry, or a dispute whose
\* funds are not withdrawn yet; 'winning' is won and not reinstated.
DisputeFacts == {"none", "warning", "withdrawn", "winning", "won", "lost", "prevented"}

Idle == [at |-> "idle"]
Events == {<<"charge", k>> : k \in Refunds}
              \cup {<<"updated", k, s>> : k \in Refunds, s \in RefundStatuses}

RefundsTypeOK ==
    /\ given \in Givens
    /\ attempt \in [Keys -> {"none", "reserved", "external_started", "completed",
                             "failed_pre_external"}]
    /\ step \in [Keys -> {"idle", "load", "fail", "begin", "create", "record", "complete"}]
    /\ record \in [Refunds -> RefundStatuses]
    /\ refunded \in 0 .. Amount /\ disputed \in 0 .. Amount /\ lost \in 0 .. Amount
    /\ refunded + disputed + lost <= Amount
    /\ refund \in [Refunds -> RefundStatuses]
    /\ dispute \in DisputeFacts /\ moves \in 0 .. Changes
    /\ todo \subseteq Events
    /\ fetched \subseteq [event : Events, left : SUBSET (Refunds \X RefundStatuses)]
    /\ accounting \in {"none", "warning", "active", "won", "lost"}
    /\ movement \in [Directions -> {"none", "reserved", "external_started", "completed"}]
    /\ cents \in [Directions -> 0 .. Amount] /\ moved \in [Directions -> 0 .. Amount]
    /\ raised \subseteq 1 .. Changes
    /\ DOMAIN work = Workers
    /\ failures \in 0 .. Failures

RefundsInit ==
    /\ given \in Givens
    /\ attempt = [k \in Keys |-> "none"] /\ step = [k \in Keys |-> "idle"]
    /\ record = [k \in Refunds |-> "none"]
    /\ refunded = 0 /\ disputed = 0 /\ lost = 0
    /\ refund = [k \in Refunds |-> "none"]
    /\ dispute = "none" /\ moves = 0
    /\ todo = {} /\ fetched = {}
    /\ accounting = "none"
    /\ movement = [d \in Directions |-> "none"]
    /\ cents = [d \in Directions |-> 0] /\ moved = [d \in Directions |-> 0]
    /\ raised = {} /\ work = [h \in Workers |-> Idle]
    /\ failures = 0

-----------------------------------------------------------------------------
(* Refund requests.                                                        *)

Total(S) == SumFunctionOnSet(Ask, S)
Alive(status) == {k \in Refunds : status[k] \in {"pending", "succeeded"}}
Claimed(s) == s \in {"reserved", "external_started"}

To(k, s) == step' = [step EXCEPT ![k] = s]

\* reserve, under the lock of the payment; busy while any attempt on it is
\* reserved or external_started.
Reserve(k) ==
    /\ attempt[k] \in {"none", "failed_pre_external"} /\ step[k] = "idle"
    /\ \A q \in Keys : ~Claimed(attempt[q])
    /\ attempt' = [attempt EXCEPT ![k] = "reserved"]
    /\ To(k, "load")
    /\ UNCHANGED <<given, record, invoice, stripe, refundQueue, accounting, liability,
                   disputeQueue, failures>>

\* The source is read: what is left of the payment, and no dispute; approval
\* may still be missing.
Load(k) ==
    /\ step[k] = "load"
    /\ \/ /\ disputed = 0 /\ lost = 0
          /\ Ask[k] + Total(Alive(record)) <= Amount
          /\ To(k, "begin")
       \/ To(k, "fail")
    /\ UNCHANGED <<given, attempt, record, invoice, stripe, refundQueue, accounting, liability,
                   disputeQueue, failures>>

Fail(k) ==
    /\ step[k] = "fail"
    /\ attempt' = [attempt EXCEPT ![k] = "failed_pre_external"]
    /\ To(k, "idle")
    /\ UNCHANGED <<given, record, invoice, stripe, refundQueue, accounting, liability,
                   disputeQueue, failures>>

BeginExternal(k) ==
    /\ step[k] = "begin"
    /\ attempt' = [attempt EXCEPT ![k] = "external_started"]
    /\ To(k, "create")
    /\ UNCHANGED <<given, record, invoice, stripe, refundQueue, accounting, liability,
                   disputeQueue, failures>>

\* Stripe refunds a charge that is not in dispute, up to its amount.
Refundable(k) ==
    /\ dispute \in {"none", "warning", "prevented", "won"}
    /\ Ask[k] + Total(Alive(refund)) <= Amount

Issued(k) ==
    /\ \E s \in {"pending", "succeeded"} : refund' = [refund EXCEPT ![k] = s]
    /\ todo' = todo \cup {<<"charge", k>>}

\* createRefund; a refusal leaves the attempt external_started.
Create(k) ==
    /\ step[k] = "create"
    /\ \/ /\ Refundable(k)
          /\ dispute = "warning" => "inquiry" \in given.mishaps
          /\ dispute = "won" /\ accounting # "won" => "late" \in given.mishaps
          /\ Issued(k)
          /\ To(k, "record")
       \/ /\ ~Refundable(k)
          /\ To(k, "idle")
          /\ UNCHANGED <<refund, todo>>
    /\ UNCHANGED <<given, attempt, record, invoice, dispute, moves, fetched,
                   accounting, liability, disputeQueue, failures>>

\* recordPending, under the lock of the payment.
Recordable(k) == Ask[k] + Total(Alive(record)) <= Amount

RecordPending(k) ==
    /\ step[k] = "record"
    /\ \/ /\ Recordable(k)
          /\ record' = [record EXCEPT ![k] = "pending"]
          /\ To(k, "complete")
       \/ /\ ~Recordable(k)
          /\ To(k, "idle")
          /\ UNCHANGED record
    /\ UNCHANGED <<given, attempt, invoice, stripe, refundQueue, accounting, liability,
                   disputeQueue, failures>>

Complete(k) ==
    /\ step[k] = "complete"
    /\ attempt' = [attempt EXCEPT ![k] = "completed"]
    /\ To(k, "idle")
    /\ UNCHANGED <<given, record, invoice, stripe, refundQueue, accounting, liability,
                   disputeQueue, failures>>

\* The process stops, or a call to Stripe or the database fails.
StopRequest(k) ==
    /\ step[k] # "idle"
    /\ failures' = failures + 1
    /\ To(k, "idle")
    /\ UNCHANGED <<given, attempt, record, invoice, stripe, refundQueue, accounting, liability,
                   disputeQueue>>

-----------------------------------------------------------------------------
(* Refunds at Stripe, and their events.                                    *)

\* CheckoutService refunds a payment whose places are gone; no row of refunds
\* is written.
RefundOutside ==
    /\ refund[Outside] = "none" /\ dispute = "none"
    /\ Ask[Outside] + Total(Alive(refund)) <= Amount
    /\ Issued(Outside)
    /\ UNCHANGED <<given, requests, record, invoice, dispute, moves, fetched,
                   accounting, liability, disputeQueue, failures>>

\* A pending refund settles; a bank may still return a succeeded one.
RefundChange(k, s) ==
    /\ \/ /\ refund[k] = "pending"
          /\ s \in {"succeeded", "failed", "canceled"}
       \/ /\ refund[k] = "succeeded" /\ s = "failed"
          /\ "returned" \in given.mishaps
    /\ refund' = [refund EXCEPT ![k] = s]
    /\ todo' = todo \cup {<<"updated", k, s>>}
    /\ UNCHANGED <<given, requests, record, invoice, dispute, moves, fetched, accounting,
                   liability, disputeQueue, failures>>

\* charge.refunded lists every refund of the charge, charge.refund.updated
\* retrieves one.
FetchRefunds(e) ==
    /\ e \in todo
    /\ \A f \in fetched : f.event # e
    /\ LET of == IF e[1] = "charge" THEN {k \in Refunds : refund[k] # "none"} ELSE {e[2]}
       IN  fetched' = fetched \cup {[event |-> e, left |-> {<<k, refund[k]>> : k \in of}]}
    /\ UNCHANGED <<given, requests, record, invoice, stripe, todo, accounting, liability,
                   disputeQueue, failures>>

\* Mutant: an older answer takes back a success.
RefundMayRegress(k, s) ==
    \/ record[k] = "none"
    \/ record[k] \in {"failed", "canceled"} /\ s # record[k]
    \/ s = "succeeded" /\ record[k] # s /\ refunded + Ask[k] + disputed + lost > Amount

\* applyLatest throws: the refund has no row, its row is terminal, or the
\* CHECK of invoices is violated.
RefundRefused(k, s) ==
    \/ record[k] = "none"
    \/ record[k] \in {"succeeded", "failed", "canceled"} /\ s # record[k]
    \/ s = "succeeded" /\ record[k] # s /\ refunded + Ask[k] + disputed + lost > Amount

\* The invoice learns of the first success.
ApplyRefund(k, s) ==
    /\ record' = [record EXCEPT ![k] = s]
    /\ refunded' = IF s = "succeeded" /\ record[k] # s THEN refunded + Ask[k] ELSE refunded

\* Mutant: the event of a refund without a row is done with.
HandleRefundOnce(e) ==
    \E f \in fetched : \E r \in f.left :
        /\ f.event = e
        /\ \/ /\ RefundRefused(r[1], r[2])
              /\ fetched' = fetched \ {f}
              /\ todo' = todo \ {e}
              /\ UNCHANGED <<record, refunded>>
           \/ /\ ~RefundRefused(r[1], r[2])
              /\ ApplyRefund(r[1], r[2])
              /\ IF f.left = {r}
                    THEN fetched' = fetched \ {f} /\ todo' = todo \ {e}
                    ELSE /\ fetched' = (fetched \ {f}) \cup {[f EXCEPT !.left = @ \ {r}]}
                         /\ UNCHANGED todo
        /\ UNCHANGED <<given, requests, disputed, lost, stripe, accounting, liability,
                       disputeQueue, failures>>

\* The handler applies the refunds one by one until one throws; Stripe lists
\* them in an order of its own.
HandleRefund(e) ==
    \E f \in fetched : \E r \in f.left :
        /\ f.event = e
        /\ \/ /\ RefundRefused(r[1], r[2])
              /\ fetched' = fetched \ {f}
              /\ UNCHANGED <<record, refunded, todo>>
           \/ /\ ~RefundRefused(r[1], r[2])
              /\ ApplyRefund(r[1], r[2])
              /\ IF f.left = {r}
                    THEN fetched' = fetched \ {f} /\ todo' = todo \ {e}
                    ELSE /\ fetched' = (fetched \ {f}) \cup {[f EXCEPT !.left = @ \ {r}]}
                         /\ UNCHANGED todo
        /\ UNCHANGED <<given, requests, disputed, lost, stripe, accounting, liability,
                       disputeQueue, failures>>

-----------------------------------------------------------------------------
(* The dispute at Stripe, and its events.                                  *)

DisputeMoves ==
    [none |-> {"warning", "withdrawn"},
     warning |-> {"withdrawn", "prevented"},
     withdrawn |-> {"winning", "won", "lost"},
     winning |-> {"won"},
     won |-> {}, lost |-> {}, prevented |-> {}]

DisputeChange(s) ==
    /\ moves < Changes
    /\ s \in DisputeMoves[dispute]
    /\ (dispute = "none" \/ s = "withdrawn") =>
          \/ Disputed + Total(Alive(refund)) <= Amount
          \/ dispute = "warning" /\ "inquiry" \in given.mishaps
    /\ dispute' = s
    /\ moves' = moves + 1
    /\ raised' = raised \cup {moves'}
    /\ UNCHANGED <<given, requests, record, invoice, refund, refundQueue, accounting,
                   liability, work, failures>>

\* accountingState.
AccountingState(s) ==
    CASE s = "warning" -> "warning"
      [] s \in {"withdrawn", "winning"} -> "active"
      [] s \in {"won", "prevented"} -> "won"
      [] s = "lost" -> "lost"

Won(s) == s \in {"winning", "won", "prevented"}

Busy(h) == work[h].at # "idle"
Go(h, job) == work' = [work EXCEPT ![h] = job]
Throw(h) == Go(h, Idle)

\* A handler retrieves the dispute.
FetchDispute(h, n) ==
    /\ ~Busy(h)
    /\ n \in raised
    /\ \A g \in Workers : Busy(g) => work[g].event # n
    /\ Go(h, [at |-> "apply", event |-> n, saw |-> dispute])
    /\ UNCHANGED <<given, requests, record, invoice, stripe, refundQueue, accounting, liability,
                   raised, failures>>

\* Mutant: a dispute that is over is not applied again.
ApplyDisputeOnce(h) ==
    LET target == AccountingState(work[h].saw)
        active == IF target = "active" THEN Disputed ELSE 0
        gone == IF target = "lost" THEN Disputed ELSE 0 IN
    /\ work[h].at = "apply"
    /\ \/ /\ \/ accounting \in {"won", "lost"}
             \/ active + gone + refunded > Amount
          /\ Throw(h)
          /\ UNCHANGED <<accounting, disputed, lost>>
       \/ /\ accounting \notin {"won", "lost"}
          /\ active + gone + refunded <= Amount
          /\ accounting' = target /\ disputed' = active /\ lost' = gone
          /\ Go(h, [work[h] EXCEPT !.at = "look"])
    /\ UNCHANGED <<given, requests, record, refunded, stripe, refundQueue, liability, raised,
                   failures>>

\* applyLatest, under the locks of the payment, the invoice and the dispute.
ApplyDispute(h) ==
    LET target == AccountingState(work[h].saw)
        active == IF target = "active" THEN Disputed ELSE 0
        gone == IF target = "lost" THEN Disputed ELSE 0 IN
    /\ work[h].at = "apply"
    /\ \/ /\ \/ accounting \in {"won", "lost"} /\ target # accounting
             \/ active + gone + refunded > Amount
          /\ Throw(h)
          /\ UNCHANGED <<accounting, disputed, lost>>
       \/ /\ accounting \in {"won", "lost"} => target = accounting
          /\ active + gone + refunded <= Amount
          /\ accounting' = target /\ disputed' = active /\ lost' = gone
          /\ Go(h, [work[h] EXCEPT !.at = "look"])
    /\ UNCHANGED <<given, requests, record, refunded, stripe, refundQueue, liability, raised,
                   failures>>

LeastOf(m, n) == IF m <= n THEN m ELSE n

\* What is left of the transfer after refunds and reversals.
Remaining == Amount - Total(Alive(refund)) - moved["from_connected"]

\* The handler is done with its event.
Done(h) ==
    /\ raised' = raised \ {work[h].event}
    /\ Throw(h)

\* It goes on to give back what a completed reversal took, once the dispute is
\* won.
AfterReversal(h) ==
    IF ~Won(work[h].saw) \/ movement["from_connected"] # "completed" \/ cents["from_connected"] = 0
       THEN Done(h)
       ELSE /\ UNCHANGED raised
            /\ IF work[h].saw = "won"
                  THEN Go(h, [work[h] EXCEPT !.at = "look again"])
                  ELSE Throw(h)

Claiming(h, d, n) ==
    Go(h, [at |-> "claim", event |-> work[h].event, saw |-> work[h].saw, dir |-> d, cents |-> n])
Starting(h, d) ==
    Go(h, [at |-> "start", event |-> work[h].event, saw |-> work[h].saw, dir |-> d])

\* handleLatest loads the reversal, and the transfer if there is none and
\* funds were withdrawn.
LookForReversal(h) ==
    LET d == "from_connected" IN
    /\ work[h].at = "look"
    /\ \/ /\ movement[d] = "none"
          /\ IF work[h].saw \in {"withdrawn", "lost"}
                THEN Claiming(h, d, LeastOf(Disputed + Fee, Remaining)) /\ UNCHANGED raised
                ELSE Done(h)
       \/ /\ movement[d] = "completed"
          /\ AfterReversal(h)
       \/ /\ movement[d] = "external_started"
          /\ Throw(h)
          /\ UNCHANGED raised
       \/ /\ movement[d] = "reserved"
          /\ Starting(h, d)
          /\ UNCHANGED raised
    /\ UNCHANGED <<given, requests, record, invoice, stripe, refundQueue, accounting, liability,
                   failures>>

LookForRestoration(h) ==
    LET d == "to_connected" IN
    /\ work[h].at = "look again"
    /\ \/ /\ movement[d] = "none"
          /\ Claiming(h, d, LeastOf(cents["from_connected"], Back))
          /\ UNCHANGED raised
       \/ /\ movement[d] = "completed"
          /\ Done(h)
       \/ /\ movement[d] = "external_started"
          /\ Throw(h)
          /\ UNCHANGED raised
       \/ /\ movement[d] = "reserved"
          /\ Starting(h, d)
          /\ UNCHANGED raised
    /\ UNCHANGED <<given, requests, record, invoice, stripe, refundQueue, accounting, liability,
                   failures>>

\* claim; it throws when an earlier claim has other cents.  A movement of
\* nothing is completed at once.
Claim(h) ==
    LET d == work[h].dir
        n == work[h].cents IN
    /\ work[h].at = "claim"
    /\ \/ /\ movement[d] = "none"
          /\ movement' = [movement EXCEPT ![d] = IF n = 0 THEN "completed" ELSE "reserved"]
          /\ cents' = [cents EXCEPT ![d] = n]
          /\ IF n = 0 THEN Done(h) ELSE Starting(h, d) /\ UNCHANGED raised
       \/ /\ movement[d] # "none"
          /\ IF cents[d] = n /\ movement[d] = "completed" THEN Done(h)
             ELSE /\ IF cents[d] = n /\ movement[d] = "reserved" THEN Starting(h, d) ELSE Throw(h)
                  /\ UNCHANGED raised
          /\ UNCHANGED <<movement, cents>>
    /\ UNCHANGED <<given, requests, record, invoice, stripe, refundQueue, accounting, moved,
                   failures>>

\* Mutant: start does not ask for a reserved movement.
StartAnyway(h) ==
    LET d == work[h].dir IN
    /\ work[h].at = "start"
    /\ movement' = [movement EXCEPT ![d] = "external_started"]
    /\ Go(h, [work[h] EXCEPT !.at = "move"])
    /\ UNCHANGED <<given, requests, record, invoice, stripe, refundQueue, accounting, cents,
                   moved, raised, failures>>

\* start, which only one handler gets; the others throw.
Start(h) ==
    LET d == work[h].dir IN
    /\ work[h].at = "start"
    /\ \/ /\ movement[d] = "reserved"
          /\ movement' = [movement EXCEPT ![d] = "external_started"]
          /\ Go(h, [work[h] EXCEPT !.at = "move"])
       \/ /\ movement[d] # "reserved"
          /\ Throw(h)
          /\ UNCHANGED movement
    /\ UNCHANGED <<given, requests, record, invoice, stripe, refundQueue, accounting, cents,
                   moved, raised, failures>>

\* reverseTransfer or createTransfer.  Refunds since the claim may have taken
\* the rest of the transfer: then Stripe refuses.
Move(h) ==
    LET d == work[h].dir IN
    /\ work[h].at = "move"
    /\ \/ /\ d = "from_connected" => cents[d] <= Remaining
          /\ moved' = [moved EXCEPT ![d] = @ + cents[d]]
          /\ Go(h, [work[h] EXCEPT !.at = "complete"])
       \/ /\ d = "from_connected" /\ cents[d] > Remaining
          /\ Throw(h)
          /\ UNCHANGED moved
    /\ UNCHANGED <<given, requests, record, invoice, stripe, refundQueue, accounting, movement,
                   cents, raised, failures>>

\* complete; a reversal may be followed by the restoration.
CompleteMove(h) ==
    LET d == work[h].dir IN
    /\ work[h].at = "complete"
    /\ movement' = [movement EXCEPT ![d] = "completed"]
    /\ IF d = "from_connected" /\ Won(work[h].saw)
          THEN /\ IF work[h].saw = "won" THEN Go(h, [work[h] EXCEPT !.at = "look again"]) ELSE Throw(h)
               /\ UNCHANGED raised
          ELSE Done(h)
    /\ UNCHANGED <<given, requests, record, invoice, stripe, refundQueue, accounting, cents,
                   moved, failures>>

StopHandler(h) ==
    /\ Busy(h)
    /\ failures' = failures + 1
    /\ Throw(h)
    /\ UNCHANGED <<given, requests, record, invoice, stripe, refundQueue, accounting, liability,
                   raised>>

-----------------------------------------------------------------------------
(* What a behaviour is given.  Each of the following loses money or keeps  *)
(* an event from ever being processed; the properties below say which of   *)
(* them they exclude, besides more than one worker at a dispute.           *)
(*                                                                         *)
(*   stopped   a process stops, or a call fails, between two transactions  *)
(*   outside   a checkout refunds the payment without a row of refunds     *)
(*   returned  a bank returns a refund that had succeeded                  *)
(*   inquiry   a refund is made during an inquiry which then becomes a     *)
(*             dispute of the whole charge                                 *)
(*   late      a refund that was read before a dispute is made after it is *)
(*             won, while the dispute's money is still taken back          *)

Mishap(m) == m \in given.mishaps

CanStop == Mishap("stopped") /\ failures < Failures

RefundsNext ==
    \/ \E k \in given.keys : Reserve(k)
    \/ \E k \in given.keys : Load(k)
    \/ \E k \in given.keys : Fail(k)
    \/ \E k \in given.keys : BeginExternal(k)
    \/ \E k \in given.keys : Create(k)
    \/ \E k \in given.keys : RecordPending(k)
    \/ \E k \in given.keys : Complete(k)
    \/ \E k \in given.keys : CanStop /\ StopRequest(k)
    \/ Mishap("outside") /\ RefundOutside
    \/ \E k \in Refunds, s \in RefundStatuses : RefundChange(k, s)
    \/ \E e \in todo : FetchRefunds(e)
    \/ \E e \in todo : HandleRefund(e)
    \/ \E s \in DisputeFacts : given.workers # {} /\ DisputeChange(s)
    \/ \E h \in given.workers, n \in raised : FetchDispute(h, n)
    \/ \E h \in given.workers : ApplyDispute(h)
    \/ \E h \in given.workers : LookForReversal(h)
    \/ \E h \in given.workers : LookForRestoration(h)
    \/ \E h \in given.workers : Claim(h)
    \/ \E h \in given.workers : Start(h)
    \/ \E h \in given.workers : Move(h)
    \/ \E h \in given.workers : CompleteMove(h)
    \/ \E h \in given.workers : CanStop /\ StopHandler(h)

RefundsSpec == RefundsInit /\ [][RefundsNext]_refundsVars

\* A request goes on until it is answered; its client need not ask again.
GoesOn(k) == Load(k) \/ Fail(k) \/ BeginExternal(k) \/ Create(k) \/ RecordPending(k) \/ Complete(k)

Handles(h) ==
    \/ ApplyDispute(h)
    \/ LookForReversal(h)
    \/ LookForRestoration(h)
    \/ Claim(h)
    \/ Start(h)
    \/ Move(h)
    \/ CompleteMove(h)

\* Events are tried until they are processed.
RefundsFairSpec ==
    /\ RefundsSpec
    /\ \A k \in Keys : WF_refundsVars(GoesOn(k))
    /\ \A k \in Keys :
          WF_refundsVars(\E e \in todo : e[2] = k /\ (FetchRefunds(e) \/ HandleRefund(e)))
    /\ \A h \in Workers :
          WF_refundsVars(\/ Handles(h)
                         \/ \E n \in raised : h \in given.workers /\ FetchDispute(h, n))

-----------------------------------------------------------------------------
(* Properties.                                                             *)

\* The invoice has given back what the succeeded refunds say, and what each
\* movement says was moved exactly once, the organization never getting more
\* back than it gave (refund-event-repo.ts applyLatest, dispute-events.ts); and
\* Stripe never makes a refund whose row must be refused (refund-record-repo.ts
\* recordPending, refund-attempt-repo.ts reserve).
BooksAgree ==
    /\ refunded = Total({k \in Refunds : record[k] = "succeeded"})
    /\ \A d \in Directions :
          /\ moved[d] \in {0, cents[d]}
          /\ movement[d] = "completed" => moved[d] = cents[d]
          /\ movement[d] \in {"none", "reserved"} => moved[d] = 0
    /\ moved["to_connected"] <= moved["from_connected"]
    /\ \A k \in Keys : step[k] = "record" => Recordable(k)

Ended(s) == s \in {"succeeded", "failed", "canceled"}

\* The row of a refund comes to say what became of it at Stripe, however its
\* events overlap and come before the row (refund-events.ts, refund-event-repo.ts).
RefundsAreBooked ==
    \A k \in Keys :
        (refund[k] # "none" /\ given.mishaps = {})
            ~> (Ended(refund[k]) => record[k] = refund[k])

DisputeSettled ==
    /\ raised = {}
    /\ accounting = dispute
    /\ IF dispute = "won"
          THEN moved["to_connected"] = LeastOf(moved["from_connected"], Back)
          ELSE movement["from_connected"] = "completed"

\* A dispute that is won or lost is applied to the invoice, and its money ends
\* where it belongs: taken back when it is lost, restored when it is won
\* (dispute-events.ts handleLatest).
DisputeEnds ==
    (dispute \in {"won", "lost"} /\ given.mishaps = {} /\ Cardinality(given.workers) = 1)
        ~> DisputeSettled
=============================================================================
