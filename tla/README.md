# Athlentry: places, payments and bookings in TLA+

Athlentry is a platform for youth-sports organizations: families register
children in programs and classes, pay by card or bank debit through Stripe, at
once or in installments, and staff run seasons, waitlists and fields.  These
modules model the parts of it where money, places and time are given out and
taken back: seats of programs from cart to cancellation, the webhooks of Stripe
and what they do to seats, invoices, refunds and disputes, classes and their
sessions, and the fields all of it happens on.

Source paths below are relative to `server/src/`; `docs/` is `docs/codex/`.

## 1. Inventory

### How the system is built

A web client talks to an Express API; a worker process runs pg-boss jobs (crons
and queued work) over the same modules; PostgreSQL holds all state, with row
level security by organization.  Each repository method is one transaction
(`db/withOrg.ts`) under READ COMMITTED, so concurrency is controlled by row
locks (`FOR UPDATE`, `FOR UPDATE SKIP LOCKED`), unique keys and CHECK
constraints.  A request or a job that calls several repository methods or
Stripe is *not* atomic: other requests, jobs and crashes come in between.

### Components, their state and what makes them correct

| Component | State | Operations | Hard behaviour | Correct when |
|---|---|---|---|---|
| Checkout capacity `modules/checkout/capacity-repo.ts`, `hold-expiry.ts` | `capacity_counters`, `capacity_holds`, `checkouts`, `registrations` | reserve, extend, confirm, keepForFailedPayment, release, hold-expiry job | carts compete; the job takes batches that cut through carts; time | counters equal hold rows, no oversell, carts whole, holds end |
| Start and quote `modules/registration/checkout-start.ts`, `checkout-quote.ts` | the same, plus snapshots and invoices | start, freeze, quote (paid, free, approval) | several transactions in a request | a quoted cart has its places |
| Payments `modules/finance`, `modules/checkout/payment-events.ts` | `payments`, refund claims, Stripe's intents | create payment, settle, confirm, fail, refund | stages between which workers stop or race; bank payments take days | a success is seated or refunded, once; failures give places back |
| Stripe events `integrations/stripe`, `modules/finance/stripe-event-job.ts` | `stripe_events` (lease, processed) | store, enqueue, claim, complete, fail, replay | duplicates, lost enqueues, expired leases | stored once, processed once, never lost |
| Payment attempts `modules/finance/attempt-repo.ts`, `manual-installment-pay.ts` | attempts by idempotency key | reserve, beginExternal, complete, fail | crash around the Stripe call | one intent for a key |
| Registration lifecycle `modules/registration/lifecycle.ts`, `reminders.ts` | registrations, waitlist entries, the counters above | cancel, decide, offer, accept, decline, advance, transfer, the job | shares counters with carts in payment; places come free in many ways | counters follow registrations, one registration each, offers in turn |
| Installments, autopay, dunning `installment-charge-repo.ts`, `installment-dunning.ts` | installments, charge attempts with leases, mandates | claim, begin, charge, record, retry, late fee, staff actions | two executions, payer and job at once, stale webhooks | money counted once, every charge booked, dunning ends |
| Refunds and disputes `refunds.ts`, `refund-*.ts`, `dispute-*.ts` | refund attempts, refunds, disputes, movements of money | request, record, apply, reverse, restore | webhooks before rows, repeated and out of order; stops between Stripe and the books | never more than paid; a cent moves once |
| Space booking `scheduling/events.ts`, `operations.ts`, `facilities/service.ts` | space bookings by leaf, events, closures, allocations, the tree of spaces | create, move, close, allocate, approve, add and move spaces | each reads before and writes after what others commit | no double booking; bookings are those of the schedule |
| Classes `modules/classes` | enrollments, waitlist, session bookings, credits, punch cards | enroll, withdraw, offer, promote, book, cancel, mark, the daily job | many ways to free a place or give a payment back; stale counts | a booking is paid once; free places are offered |
| Request idempotency `lib/idempotency.ts` | `idempotency_keys` | claim, store response | one transaction with the work | one effect for a key |
| Algorithms `shared/src/algorithms` | none | fees, proration, pricing, brackets, waitlist, dunning | boundaries | sums and orders exact |
| Everything else | see `PROJECT.json` | mostly single-row record keeping and views | | |

`PROJECT.json` lists all components, the ones left out with the reason, and the
hazards of the code, each at its line, with the properties that catch them.

### Interactions

    payer --> Stripe --webhook--> store/enqueue --job--> dispatch
                ^                                            |
                |  intents, refunds, movements               v
    family --> start/quote --> holds, counters <-- settle, confirm, keep, refund claim
    staff  --> capacity, lifecycle ^        installments, refunds, disputes <--+
    crons  --> hold-expiry, reminders, charges, tuition: one job each, over all
               organizations, beside requests and webhooks

Seats meet money in `CheckoutPayments`; the lifecycle writes the same counters
and registrations as carts (`RegistrationLifecycle` has the transactions of both
with what they do to registrations).  Invoices, refunds and disputes meet Stripe
through the same stored events, whose delivery `StripeEvents` models.

## 2. Modules

| Module | What it is |
|---|---|
| `CheckoutCapacity` | one committed transaction per action on counters, holds, carts and registrations |
| `SeatLedger` | the abstract promise: a ledger of places, without counters, clocks or hold rows |
| `HoldLocking` | the transactions of `CheckoutCapacity` statement by statement under row locks |
| `CheckoutPayments` | extends `CheckoutCapacity` with intents, payments and workers handling events in stages |
| `StripeEvents` | stored events, leases, queue and replay |
| `RegistrationLifecycle` | registrations, counters and the waitlist after the quote |
| `InvoicePayments` | one installment plan collected by autopay, payer and staff |
| `RefundsDisputes` | what leaves a payment again: refunds and a dispute |
| `SpaceBookings` | who has which space when, as transactions of two sessions |
| `ClassBookings` | places in classes, their waitlists, and bookings of sessions |
| `*Proofs` | the theorems of a module |
| `FoldLemmas` | what sums and chains over finite sets obey, for the proofs |
| `MC*` | instances for TLC |

### CheckoutCapacity

`capacity`, `confirmed`, `held` are the columns of `capacity_counters` by
subject (program, division, offering); `status`, `createdAt`, `expiresAt`,
`failedOnce` are those of `checkouts` (`failedOnce` is
`first_payment_failed_at IS NOT NULL`); `hold` is the state of a cart's hold row
in a subject (`none`, `active`, `released`, `converted`) and `holdExpires` the
deadline a cart's hold rows share; `registration` is the status the
registrations of a cart share.  Seats are cart lines: `CheckoutOf` and
`SubjectsOf` fix which cart and which subjects each is in, and the `quantity` of
a hold is the number of the cart's seats in the subject.

| Action | Code |
|---|---|
| `StartCheckout` | `RegistrationCheckoutStartService.start` |
| `Reserve`, `Extend`, `Confirm`, `KeepForFailedPayment`, `Release` | the methods of `PostgresCheckoutHoldRepository` |
| `Freeze` | `pricing-repo.ts` freeze (open to awaiting_payment) |
| `QuotePaid`, `QuoteFree`, `QuoteForApproval` | the outcomes of `checkout-quote.ts` quote |
| `ReleaseExpiredHolds` | one batch of the hold-expiry job |
| `SetCapacity` | staff edit an offering or a division |
| `Tick` | the clock |

Calls that return without writing and calls that throw are stuttering steps.
`Extend` and `Release` have no caller at present; they are part of the
repository's interface and are modelled as such.  One deadline for a cart's
holds is right because each method that writes `expires_at` writes all rows of
the cart.

### SeatLedger

A place is a seat's place in one subject.  A ledger has the places held, taken
and gone: `HoldCart` (all places of a cart, if there is room), `TakeCart`,
`HoldAgain`, `GiveUp` (any held places) and `SetCapacity`.  The refinement in
`CheckoutCapacity` (`Ledger == INSTANCE SeatLedger WITH ...`) maps hold rows to
places; room in the ledger is counted over places while the code reads it off
counters, which is what makes the refinement more than a renaming.

### HoldLocking

`CheckoutCapacity` takes a transaction for one step.  That is right if every
transaction of a cart locked the same row first, and they do except for the
hold-expiry job, which locks hold rows, then counters, then checkouts; the
others lock the checkout, read the holds *without* a lock, lock the counters in
subject order and update the holds last.  `HoldLocking` runs these statements in
`Sessions`: `BeginCart`/`BeginJob`, `LockCheckout`, `LockCounter`,
`CheckCounters`, `LockRow`, `Commit`, and `BreakDeadlock` for PostgreSQL's
detector.  Uncommitted writes are invisible to others and every row written is
locked, so a transaction's writes are applied in `Commit`; reads see what is
committed.  A statement that blocks on a row is a step that is not enabled; the
condition is evaluated again on what was committed meanwhile, as READ COMMITTED
does.  The CHECK of migration 0102 (a hold is not both released and converted)
makes a confirmation roll back, in `LockRow`.  `OtherStep` is what else happens to
carts, as single steps under the locks these transactions take: freezing prices and
the quote lock the checkout and its hold rows, so they wait for both to be free.

### CheckoutPayments

A worker handles an event in the stages of the code: `Fetch` (claim the event,
retrieve the intent), `Settle` (payment row), `Read` (cart and holds; decides
what to do), `ConfirmSeats` or `KeepSeats`, and for a success without seats
`ClaimRefund`, `CreateRefund`, `RecordRefund`; then `Complete`.  Each stage that
touches seats calls the action of `CheckoutCapacity`, guarded by that action's
own guard, so `ImplementsCapacity == Spec` says the composition adds no other
change of seats; this is proved rather than checked.  `seen` and `honor` are what the
worker read earlier and may be stale.  `CreatePayment` folds the reservation of an
attempt, Stripe's call and the recording of the intent.  `undone` is a history variable
that the code does not have: payments that had succeeded when a failure took back the
confirmed places of their cart.  It names the one way of losing a paid place that
comes of the order of handling alone.  `GatewayError` and `Stop` are a failing Stripe call and a stopping
process; a throw gives the event back (`failed`) to be retried.
Several intents may exist for a cart once an earlier one failed or was canceled.

### StripeEvents

`inbox` is the table by `received_at`; `holder` and `live` are `lease_token` and
`lease_expires_at >= now`.  `Receive` stores a webhook, `Enqueue` or
`LoseEnqueue` follows, `TakeJob` claims for a queued job, `StartReplay` and
`Replay` are the replay cron over the oldest `ReplayLimit` pending events,
`Handle`, `Complete`, `Fail` are the dispatcher, `Stop` a stopping process and
`LeaseExpires` five minutes gone by, also under a worker still running.
`CheckoutPayments` takes from this module that an event has one worker at a time
(it assumes a running worker ends within its lease) and that it is retried.

### RegistrationLifecycle

One action is one committed transaction.  Every transaction that frees a place
ends with `advanceWaitlist`, so what it writes is a chain of database states:
`Database` is the rows as they are, operators such as `FreeConfirmed`, `Advanced`
or `AfterStale` return the rows after them, `Write` makes the last one the next
state; the reminders job folds `Advanced` over the offerings that are due.
`AfterStale` is the loop over stale offers in closed form: they expire together and
their places go back one by one.  `reg` is a status by line and offering, since a transfer makes a second
registration; `entry` and `position` are the waitlist; `hold`, `held`,
`confirmed` are those of `CheckoutCapacity`, whose clock is here a deadline that
passes.  `Cancel`, `ApproveRegistration`, `DeclineRegistration`, `Join`, `Accept`,
`Transfer`, staff's offers and the jobs are actions; a transaction that throws, or
that a CHECK rolls back, is not taken, which is how a job that fails for ever shows.

### InvoicePayments

The job's `Claim`/`Resume`, `Begin`, `Create`, `Record` are the steps of
`chargeOne`: a lease is taken in one transaction, fenced in the next, Stripe is
called, and the intent recorded.  `PayReserve` to `PayComplete` are the payer's
request under a key.  Webhooks are `Fetch` (what Stripe says now) and `Apply` (a
later transaction, perhaps stale).  `Refused` says when an apply throws, so that
its event stays.  `FallsDue` is the due date or a retry's day, and comes after
the events of the failed attempt have been tried: a day is long.

### RefundsDisputes

`Reserve`, `Load`, `BeginExternal`, `Create`, `RecordPending`, `Complete` are one refund
request; `FetchRefunds` and `HandleRefund` apply Stripe's answer later.
`ApplyDispute`, `LookForReversal`, `LookForRestoration`, `Claim`, `Start`, `Move`,
`CompleteMove` are the dispute handler with its claimed movements of money;
`moved` is what Stripe has moved, whatever the rows say.

### SpaceBookings

A booking is one row for each leaf of a space (`booked`), and an exclusion
constraint keeps rows of a leaf apart.  A transaction reads in its Begin action
(`CreateEvent`, `UpdateEvent`, `CreateClosure`, `CreateAllocation`,
`MakePractice`, `CreateSpace`, `UpdateSpace`) and writes in its Commit
action, others committing in between; `Rollback` stands for a constraint, a version
conflict, a deadlock or a stop.

### ClassBookings

`enrolled`, `line` and `offered` are enrollments and the waitlist of a class: the
positions in a line matter as an order only, so `<<q, p>>` is in it when `q` is `p` or
has a lower position.  Each action on them runs under the class's lock and is one step, with the
`offerNextWaitlistEntry` at its end.  `booking`, `credit`, `card`, `uses` are
session bookings and what pays for them; `missed` counts the bookings that ended
as no_show.  A booking counts in the statement that locks its session, so one
that waited uses what it counted before: `BookerWaits` and `counted`.  `TuitionJob`
is the daily job without its billing.

### Mishaps

The last five modules say in one place (`Mishap`) what in the code breaks a
property: each is a name for a step or a situation, is a behaviour of the model
that the runs reach, and is excluded by name in the property it breaks, so that
the property holds with all other mishaps.  Dropping the name from the exclusion
makes TLC find a counterexample.  `given`, chosen at the start from `Givens`,
says which mishaps, people and requests a behaviour has: a few things
go wrong at a time, which keeps the instances small.

## 3. What TLC checks

All runs set `CHECK_DEADLOCK FALSE`: clocks, retries and status changes are
bounded, so a behaviour really ends when they are used up.

| Run | Checks | Instance |
|---|---|---|
| `checkout_capacity` | `TypeOK`, `Reconciled`, `ConfirmedTogether`, `InFlightKeepsPlace`, `ImplementsLedger` | two carts, three seats, four subjects |
| `row_locks` | `LockTypeOK`, `CommitsAreSteps`, `TransactionsEnd` | two carts for one place, two sessions, all four kinds of transaction, fairness |
| `payment_races` | `PaymentsTypeOK`, `RefundedOnce`, `MoneyAndSeatsAgree`, `ProcessingKeepsPlace` | one bank intent, two workers, faults, `ConfirmOnAch` off |
| `payments_in_order` | `MoneyAndSeatsAgree`, `ProcessingKeepsPlace`, `SuccessResolves`, `HoldsResolve` | a card and a bank intent of one cart, one worker, no faults, `ConfirmOnAch` on, fairness |
| `registration_lifecycle` | `LifecycleTypeOK`, `LifecycleReconciled`, `OneRegistrationEach`, `ClosedStays`, `OffersInTurn`, `OfferEnds` | a league, a camp with approval, a cup of two offerings; four families; nothing or one thing goes wrong; fairness |
| `oversell` | `SeatsFit` is violated | the league, a payment that fails after a cancellation |
| `stripe_events` | `EventsTypeOK`, `ProcessedOnce`, `LeaseIsKept`, `Recovered` | two events (one always fails), a worker, the replay, fairness |
| `invoice_payments` | `InvoiceTypeOK`, `MoneyReconciled`, `FinalIsFinal`, `ChargesAreBooked`, `DunningEnds` | two installments, two tries, up to two executions and two keys, thirteen cases, fairness |
| `declined_autopay` | `DunningEnds` is violated | one installment, a card declined at creation |
| `refunds_disputes` | `RefundsTypeOK`, `BooksAgree`, `RefundsAreBooked`, `DisputeEnds` | a payment of 3, requests of 2, 2 and 1, a dispute, two workers, fairness |
| `space_bookings` | `SpacesTypeOK`, `BookingsAgree` | two fields with a part each and one more to come, two intervals, two sessions |
| `class_bookings` | `ClassesTypeOK`, `BookingsArePaid`, `PlacesAreOffered` | four people, four classes, five sessions, one credit a term, one card of two uses |

### Bounds, and why they are enough

* Clock units stand for the windows of the code: a hold lasts 1 (20 minutes), at
  most 2 with activity (45), an approval 2, the processing grace 1 (24 hours), a
  failed payment 2 (72 hours).  What matters is their order against each other
  and the clock; `MaxTime` lets a hold expire, its grace pass, and a failed
  payment's window begin and (4 and more) end.
* Two carts with three seats in a shared program and division and two offerings:
  siblings in two offerings make quantities differ (2 in the division, 1 in an
  offering), the other child competes for one of them.  Capacities 1 and 2 make
  each subject the bottleneck in some state, and let one cart fit while two do
  not.
* Two workers are enough for every race of two handlers; `MaxChanges` 4 in
  `payment_races` allows processing, failed, processing again and succeeded, so that a
  failure is acted upon after the success.
  `payments_in_order` stops at two changes of each of its two intents, to be small
  enough for liveness; an intent that processes a second time after it failed needs
  three, and the theorems about its safety properties cover any number.
* Two sessions are enough for each pair of transactions.  With three, new
  deadlock cycles exist but the same orders are the reason; for safety the
  theorems of `CheckoutProofs` cover any number of sessions.
* `ReplayLimit` 2 with one event that always fails stands for 100 with fewer
  than 100 such events.  A worker and the replay job are two dispatchers, and
  one stop and one overrun of a lease put each of them in each role.
* Lifecycle: capacity 1, and 2 of the offering whose division has 1, make each
  subject the bottleneck; two who wait show turns, a line in two offerings of a
  program shows offers that exclude each other, a cart of two lines the siblings, a
  line moved from the league to the cup whose place another buys the transfers.
* Invoices: two installments make a first candidate that blocks a second; two
  tries are a first and a final failure; two changes of an intent are failed and
  then succeeded.  Two executions of the job are a worker that outlives its lease
  and the next one.
* Refunds: requests of 2 and 2 do not fit in 3 together, 2 and 1 do; a dispute
  turns three times (an inquiry or withdrawal, a decision, a reversal of it).
* Spaces: a field with a part, to which another is added or which is moved below
  the other field, has every relation of two spaces; an event changes twice, so
  that a version read is stale once.
* Classes: four people for two places make two offers that run out together; one
  place and three people make a line of two.  Sessions have one or two places.
* `Prompt` (in all payment runs) lets the clock tick only when every event has
  been tried: a day is long against retries of a worker that runs at all.

### Fairness

* `CheckoutCapacity!Fairness`: the clock runs; the hold-expiry job (cron each
  minute, `modules/registration/module.ts`) releases some batch if holds stay due.
* `CheckoutPayments`: a worker goes on with what it began (weak); an event that
  is again and again available is fetched (strong), because the queue retries it
  and, when the queue has given up, the replay cron dispatches it each minute.
* `HoldLocking`: PostgreSQL grants row locks in turn (strong on the steps of a
  session) and detects deadlocks (weak).
* `StripeEvents`: the replay cron runs, a running dispatch goes on, a dead
  worker's lease runs out.  Nothing is assumed of webhooks, the queue or its
  retries, so `Recovered` shows that the replay alone suffices.

* `RegistrationLifecycle`: deadlines pass, and the reminders job runs (cron).
  Nothing is assumed of families and staff.
* `InvoicePayments`: the charge job starts (cron, every 15 minutes) and goes on with
  what it began, and is not overtaken by its own five-minute lease every time
  (strong on `BeginsInTime`); leases run out, days go by, a bank answers, an event
  is tried until it is processed.  Nothing is assumed of the payer and of staff.
* `RefundsDisputes`: a request goes on unless its process stops, an event is tried
  until it is processed, a handler goes on.
* `SpaceBookings` and `ClassBookings` state safety only.

### Where the code differs from what it or its documents say

Two runs end in a counterexample; each finding in `PROJECT.json` quotes the
line it contradicts.

* `oversell`: `keepForFailedPayment` takes a completed cart's places from confirmed
  back to held without looking at its registrations; if one was canceled while
  its bank payment was processing, its place is given back twice and the
  waitlist gets a place that is taken.
* `declined_autopay`: a card declined while the job creates the charge makes the
  call throw after `beginExternal`; the attempt stays `external_started`, the
  webhook finds no payment, and the installment stays processing without a retry.

The models have other behaviours that a reader should know of.  Where a mishap
is named, it is in the module and excluded from the property it breaks.

*Carts and payments*

* A refund claim outlives a failed or interrupted refund, and the retry takes the
  claim for the refund (`checkout/service.ts:179`; docs `20-ALGORITHMS.md:30`).
* Only a cart's first failed payment gives its seats back
  (`capacity-repo.ts:375`): after fail, pay again by bank, confirm while
  processing and fail again it stays completed, unpaid.
* `processing_started_at` is that of an intent's first try
  (`payment-event-repo.ts:144`).  When a bank payment failed, its 72 hours and the
  grace ended and it is then tried again, it counts as begun in time although the
  job may have given back places of its cart, and gives back the others while it is
  processing; hence `failedOnce[c] /\ Lost(c)` in `ProcessingKeepsPlace`.
* Without `confirmOnAchProcessing` a bank payment that takes longer than the grace
  loses its places; until then it keeps them (`payment_races`).
* `keepForFailedPayment` reads holds unlocked; the job may release them before its
  update, which does not look at `released_at` (`KeepAfterRelease` in
  `HoldLocking`; counters still equal hold rows).  When the job is done before it
  reads, it throws at every retry (`capacity-repo.ts:389`).
* A failure that was settled, and is acted upon after a later success of the same
  cart was, takes the confirmed seats back (`payment-events.ts:136`), and the family has
  72 hours to pay what it has paid.  Two workers are enough for it, and so is one that
  stops between the settlement and `failPayment`: the event is retried only after the
  other one.  This is `undone`.
* In the same way a worker may confirm on a 'processing' it read before another one
  acted upon the failure: the cart is confirmed and unpaid (`UnpaidIsKnown`).
* When a second intent of a paid cart succeeds too, its settlement is refused at
  every retry (`payment-event-repo.ts:209`), and the payer stays charged twice.
* A confirmation and the job can deadlock on the same cart, in spite of the
  comment at `hold-expiry.ts:70`; PostgreSQL's detector gets both done.
* With `ReplayLimit` failing events or more the replay dispatches only those.

*Registration lifecycle*

* `unaccepted`: when a family pays for an offer without accepting it,
  `advanceWaitlist` writes `released_at` on converted holds; the CHECK of migration
  0102 rolls back, and the job fails for the whole organization from then on.
* `job`: cancel, decline and transfer after the job released holds take somebody
  else's place off held.  `siblings`: declining one line of a cart releases all of its
  holds and expires it.  `abandoned`: canceling an accepted offer's registration leaves
  its entry offered, and closing the entry gives the place back again.  `moved`: a
  transfer leaves an unpaid registration without a hold, and its later cancellation,
  refusal or second transfer takes a place off held at the destination that is
  somebody else's (`lifecycle.ts:1002`; the proof attempt met it first).
* `offerWaitlist` looks at the offering's counter only: with a full division the
  CHECK rolls back the cancellation that led to it.
* Each freed place is offered once, to the first entry only; the hold-expiry job
  frees places and offers none.
* A transfer within a program always fails (unique index of 0102); one of an
  unpaid registration to an offering without approval confirms it unpaid; one
  awaiting payment takes no place at its destination.
* Carts charged at submission cannot be paid while approval is pending: the refund
  branch of a refusal is not reached.

*Installments*

* `beside`: autopay charges an installment whose manual payment is pending; the
  payer is charged twice and the second settlement is refused for ever.
* `off_plan`: credit or cash applied while a charge is claimed makes its
  settlement refused for ever.
* `reopened`, `behind`: the payer may go on with a failed intent after the
  installment was charged again, paid or waived; after a waiver it becomes paid
  although the total no longer contains it.  `overlap`: a stale 'processing' applied after
  'failed' leaves the payment processing.
* A first candidate that cannot be charged (a revoked mandate, a voided invoice, a
  stop after `beginExternal`) makes `claimDue` throw and blocks all later
  installments of the organization (`installment-charge-job.ts:24`).

*Refunds and disputes*

* `stopped`: a stop after `beginExternal`, or after a movement started, blocks it
  for good, as documented.
* `outside`: the refund of a lost place has no row in `refunds`: the
  `charge.refunded` webhook throws for ever, and later refunds in its list may not
  be applied.  `returned`: a bank that returns a succeeded refund does, too.
* `inquiry`: a refund during an inquiry followed by a dispute of the full amount
  throws for ever.  `late`: a refund read before a dispute and made after it was
  won shrinks the transfer; the claimed reversal is refused and stays started.
* With two workers a stale handler may claim and make the reversal after the
  win, and nobody restores it.

*Spaces*

* `race`: adding or moving spaces and booking them see only each other's
  committed rows.  `crossing`: two moves together make a cycle, on which
  `leafSpaceIds` and `getConflicts` never end.
* `divided`: a part may be added to a field that already has parts and is booked,
  though "adding child spaces to a space with future bookings is rejected" (docs
  `15-SPEC-CLARIFICATIONS.md:56`).  `detached`: a booked space may be moved.
* `revived`: a postponed event given a time again holds its space and stays postponed.
* A closure postpones only events of exactly the closed space, although
  conflicts count closures of parts and wholes; allocations and practice events do
  not look at closures (`operations.ts:53`, `559`).

*Classes*

* `race`: bookings count in the statement that waits for the session's lock, so
  two take the last place, though docs `DECISIONS.md:828` says the lock of the
  counters prevents it (no counter row is used).
* `removed`, `promoted`, `raised`, `batch`: the place of an offer taken back by
  staff, of a promoted person, of a larger class, and of the second of two offers
  that run out together is not offered to anybody.
* Trials skip the capacity check, count against the class until somebody withdraws
  them, and with a session count twice in it.  An offer reserves no place: a direct
  enrollment may take it.  Bookings of a canceled session stay booked.  A mark of
  'present' after 'absent' does not revive a booking, and the credit granted stays.
* Read only, not modelled: regenerating a schedule compares UTC dates with local
  ones (`schedules.ts:121`), so that evening classes of American time zones are
  duplicated or skipped; and it deletes sessions whose bookings are all canceled
  (`schedules.ts:560`), which their foreign keys refuse.  A failure in one
  subscription's billing rolls back the organization's whole daily job.

## 4. What is proved

`tlapm` checks every proof to its leaves, for any finite set of seats and any
carts, subjects, windows, intents, workers and faults.

* `FoldLemmas`: a sum over a finite set (`SumFunctionOnSet`) does not depend on the
  order it is taken in, is a number, grows by what is added; a chain of states, one
  for each element of a set, exists and is unique.  These are inductions over
  finite sets, done without an induction rule: the sets on which a claim fails, if
  any, have a smallest one (`SmallestSet`), and it is not one.
* `CheckoutProofs`, on `CheckoutCapacity`: `TypeCorrect`, `CountersReconcile`, `NeverOversold`,
  `AllOrNothing`, `PlaceKept`, `SeatHistoryHolds`.  The inductive invariant
  `IInv` adds to the checked invariants that holds exist only for subjects of
  the cart and only for carts that exist (`HoldsBelong`).  The
  heart of the argument is counting: `MoveHolds` and `MoveBatch` say how the sets
  of seats with active and converted holds, and their sizes, change when a cart
  or a batch changes state.  The type invariant depends on it: that `held` never
  goes negative follows from `Reconciled`, together with the guards of the code.
  `LedgerImplemented`: every step of `CheckoutCapacity` is a
  step of `SeatLedger` or leaves the ledger alone.  `Reconciled` turns the
  code's test of counters into the ledger's count of places.
* `CheckoutProofs`, on `CheckoutPayments`: `CapacityImplemented` (every payment step is a step
  of `CheckoutCapacity` on the seats; it needs the invariant that intents exist
  only for quoted carts, `PaysForQuotedCart`, since the code confirms and fails
  only carts of existing payments), `SeatsSafe` (so the
  invariants of seats hold of it), `PaymentsTypeCorrect` and
  `NeverRefundedTwice`, by `RefundInv`: only the worker that claimed an intent is
  ever at the stage of refunding it, and no refund was made before that.
  `MoneyAndSeats` and `ProcessingPlaceKept` are `[]MoneyAndSeatsAgree` and
  `[]ProcessingKeepsPlace` of `PaymentsSpec` as it is: any number of carts, intents, events,
  workers and retries, with faults and delays, and with either setting.  The properties
  name what the code cannot avoid (a fault behind a refund claim, a failure acted upon
  late, a second failure, events handled too late), and the exceptions that need two
  workers, a fault or a delay are written so that they are empty where events are
  handled in order (`InOrder`) and in time (`Prompt`).  The invariant `MoneyInv` has a part
  for each case.
  `AnyInv` holds whoever handles the events: a row says no more than its intent (`Rows`),
  a worker may hold an old status of an intent but never one that was not, and a fetched
  success is final (`Acted`), and each payment row has had its effect or has an event
  waiting that will have it, at a stage from which it still can (`Pending` in
  `SuccessFor`, `FailureFor`, `ProcessingFor`).  Since an event is in `todo` until
  its handler is through, a stop or a throw puts it back to the start and loses nothing,
  except behind the claim (`ClaimFor`).  A cart is only ever confirmed for a payment that
  processed or succeeded (`PaidFor`).
  `OrderInv` holds in addition where events are handled in order: a payment row which
  does not show its intent's status has the intent's last event waiting, and so has what
  a worker fetched (`Mirrored`, `Fetched`), and a success without a seat or a refund has
  the worker that is on the way to one (`Resolved`).  A later failure could take the seats
  away again; `Chances` rules it out: a cart gets a second intent only after the first
  one failed, so when two payments of it exist the one failure that gives places back is
  spent, or the one worker is about to spend it.  `SeatedInv`, in order and in time with
  confirmation on processing, adds that before the first failure a bank payment begun in
  time has lost nothing, and is confirmed in the clock unit in which it began (`OnTime`),
  and that a processing one has its seat, a lost place, or its worker (`Seated`).
* `StripeEventsProofs`: `EventsTypeCorrect`, `NeverProcessedTwice`,
  `LeaseNeverTaken`.  The invariant `EventsInv` adds that only stored events are
  queued, leased, dispatched or about to be replayed (`OnlyStored`).  A lease is
  safe because a claim takes only rows without a live lease, and only the holder
  of a row's token gives it back.
* `CheckoutProofs`, on `HoldLocking`, for all transactions and any number of sessions:
  `LocksTypeCorrect`, `TransactionsAreSteps`, `SeatsSafeUnderLocks`, `LedgerUnderLocks`
  and `SeatHistoryUnderLocks`.  `Ready(p)` says what a
  transaction relies on between its statements and the rows it owns meanwhile: a
  reservation its cart and counters, a confirmation those and each hold as it
  locks it, a failed payment the holds as it read them but for those the job released
  since, the job its holds, which stay due.  The heart is `Respects(q)`: a commit
  (`ReserveRespects`, `ConfirmRespects`, `KeepRespects`, `JobRespects`) changes nothing
  that another session owns, and `RespectedStaysReady`.  A failed payment that finds holds
  released at its commit is `LateKeep`: since a converted hold belongs to a completed
  cart, none of its holds is converted, so that it counts nothing and changes no place
  (`KeepIsLate`).  What it breaks is `InFlightKeepsPlace`, as it moves the deadline of a
  cart that has lost places.  So the invariant here is `SeatsInv`, which is `IInv` without that
  part and inductive by itself (`SeatsStep`), with `QuotedHolds`: a cart that can be
  paid for has all its hold rows.  `PlaceKeptUnderLocks` says what is left of
  `InFlightKeepsPlace` with every kind of transaction, failed payments among them: a cart
  in flight has all its places as long as no payment of it has failed, whatever other
  carts do (`PlaceKeptUnlessFailed`), and nothing is given back, before or after a failure,
  that is not due when the transaction that gives it back commits (`GivesBackDue`).  So a
  failed payment that comes late may wait for places that are gone, and nothing else does.

* `InvoicePaymentsProofs`: `InvoiceTypeCorrect`, `MoneyAlwaysReconciled`,
  `FinalStaysFinal`, for any plan, number of tries, keys and overlapping executions.
  That money is counted once is not inductive: `InvoiceInv` says how far a charge is
  by its row, its payment and Stripe's intent together (`ChargeRows`, `KeyRows`), that
  a status a handler fetched was once the intent's, and still is when final
  (`SeenStatuses`), and that only the latest charge of an installment can still
  settle it (`LatestPending`).  That nobody is charged twice is `OneInPlay`: one
  request, claim or intent of an installment may still take money.  `FinalIsFinal`
  needs `DunningOver`: an installment whose late fee was added has no claimed charge,
  however long an execution has slept.
* `RefundsDisputesProofs`: `RefundsTypeCorrect`, `BooksAlwaysAgree`.  `RefundsInv` says
  that one request at a time is past its reservation (`RequestRows`), that what it
  found left of the payment stays left until its row is written, while webhooks
  write rows too (`RoomKept`), and that one handler at most moves a dispute's money in
  each direction, after the movement was started and before it is completed
  (`MovementRows`).
* `RegistrationLifecycleProofs`: `LifecycleTypeCorrect`, `OneRegistrationHolds`,
  `ClosedStaysClosed`, `OffersStayInTurn`, `CountersFit`, with all mishaps at once.  `LifecycleInv`
  adds that a cart has the lines that are its own, one for a participant in a
  program (`OwnLines`), that a line has no registration before its cart is quoted
  (`Unquoted`: without it a quote could bring a closed one back), and that
  an entry has no cart before it is offered (`NoCartYet`).  Since a transaction is a
  chain of database states, each operator of the chain is shown to keep `Rows` of
  the state it is given (`ExpireKeeps`, `AfterStaleKeeps`, `AdvancedKeeps`), and
  `EntriesGoOn` says what becomes of entries along it; `AllAdvanced` carries both
  through the reminders job's fold over any number of offerings.
  `CountersReconciled` is `LifecycleReconciled`, for the behaviours without the five
  mishaps it names.  That counters equal rows says nothing of which rows may be
  given back, so `SeatInv` says it (`Holding`, `HoldStands`): an active hold belongs
  to an open cart or to one registration that is still unpaid; a converted hold to a
  completed cart whose registration is confirmed or closed; a released hold to a
  registration that is closed.  It says too that an offer that has run out has a cart
  past its deadline or one that is paid (`OfferStands`), so that the job gives each
  place back once.  Each step changes the rows of one cart
  (`OneCartChanges`) and the two sets of places by one line (`HeldMoves`,
  `SeatedMoves`), and the counters by as much.  With `CountersFit` (the CHECK of the
  migrations survives the steps that go without it) follows `NothingOversold`: the
  documents' "zero oversell", for any capacities, until one of those mishaps happens.
* `ClassBookingsProofs`: `ClassesTypeCorrect`, `BookingsPaid`, `PlacesOffered`, for any
  people, classes, sessions and cards.  `ClassesInv` is `PlacesTypeOK`, `ClassesFit`
  (trials apart, no more people than places), `OneRunsOut` (without `batch` the offers
  of a class run out one at a time), `AllOnOffer` and `DeskInv`.  That a card never has
  more uses than were bought is no fact about its row: it follows from uses and paid
  bookings adding up to `Uses`, so the type invariant of the desk rests on `DeskInv`.
  `DeskInv` also says that a card never bought paid for nothing and that without the race
  nobody waits with an old count.  For `PlacesOffered` the lemma `PlaceGoesOn` says that
  offering to the first in line makes up for one place that became free or one offer
  that ended; that there is a first (`SomebodyIsFirst`) is a smallest-set argument, as
  in `FoldLemmas`.
* `SpaceBookingsProofs`: `SpacesTypeCorrect` and `BookingsAlwaysAgree`, for any
  hierarchy and any number of sessions.  What is in a space is the least set with its
  parts (`DownIsLeast`), so the hierarchy needs no induction: a move to where the space
  does not contain itself makes no cycle (`MovedStaysAcyclic`), and one from outside of a
  space to outside of it changes none of its leaves (`MovedElsewhere`).  `SpacesInv` says
  what a transaction relies on between its Begin and its Commit: the row it is going to
  make is nobody else's (`NewRows`), the leaves it has read are still the leaves
  (`LeavesRead`), the spaces it moves are in no space that somebody has (`BuiltApart`).
  The last follows from their being unbooked: a part of a space with leaves has
  leaves, and whoever has the space has them (`PartsHaveEnds`, a counting argument that
  holds in a hierarchy with cycles too, so `crossing` does not break `BookingsAgree`).
  `BookingsAgree` itself is not inductive, since it does not say that an
  allocation's rows at an interval are all leaves or none (`WholeSpaces`).

The assumptions are the named `ASSUME`s of the modules: seats, lines, keys and
requests are finite and each cart has a seat, windows and the grace are positive, capacities are
numbers or unlimited, every intent pays for a cart, a waitlist entry's cart is its own. People,
sessions and spaces are finite, names of different kinds differ, and the hierarchy the
spaces start with has no cycle.

Only model-checked: the liveness properties (`HoldsResolve`, `SuccessResolves`,
`TransactionsEnd`, `Recovered`, `OfferEnds`, `ChargesAreBooked`, `DunningEnds`,
`RefundsAreBooked`, `DisputeEnds`), since the prover does not handle fairness and
ENABLED.  Every safety property of a passing run is stated by a theorem, without
hypotheses other than the assumptions above.

## 5. What is not modelled, and what that means

* Prices, discounts, forms, waivers, eligibility and who may act for whom: the
  modules say what happens to places and money once a request is allowed.
* Allocations of a payment to invoice lines, receipts, notices, audit rows.
* Each module has one cart population, invoice, payment, facility or academy of
  its own.  What crosses them is modelled as a mishap (`outside` is the refund of
  a lost place seen from refunds, `late_failure` the late payment seen from the
  lifecycle), not as a composition of all modules.
* `InFlightKeepsPlace` of `CheckoutCapacity` is about transactions one after
  another; `KeepAfterRelease` is the interleaving in which it fails.
* Splits and changed amounts of installments, credits of billing, Connect and payouts.
* Series of events, cancellations, bulk shifts, generated schedules, reschedule requests, buffers,
  blackouts and availability; schedules of classes and tuition billing.
* Organizations: one is modelled, isolation is PostgreSQL's row level security.
* Components of mostly single-row record keeping, views and pure I/O: see
  `PROJECT.json`.  `modules/checkout/state.ts` is only used by its tests.

## 6. Plan

1. Refresh-token rotation and sessions (`modules/auth`), store stock and delivery of
   messages; algorithms against reference definitions (`allocate` of money, fees,
   proration, bracket pairing) in modules that only TLC uses.
