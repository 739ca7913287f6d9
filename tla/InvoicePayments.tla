-------------------------- MODULE InvoicePayments --------------------------
(***************************************************************************)
(* One invoice with an installment plan, and everybody who collects it:    *)
(* the autopay job, the payer who pays an installment by hand, and staff   *)
(* who take cash, apply credit, waive, reschedule or void.                 *)
(*                                                                         *)
(* A charge is not one transaction.  The job claims a due installment      *)
(* under a five-minute lease, marks the attempt external_started, calls    *)
(* Stripe and then records the intent; the payer's request does the same   *)
(* under its own key.  Webhooks fetch the latest intent from Stripe and    *)
(* apply it in a later transaction: handlers of several events overlap,    *)
(* what they fetched may be stale, and whatever throws is tried again.     *)
(*                                                                         *)
(* Cents are small numbers.  Refunds and disputes are left to              *)
(* RefundsDisputes, seats to CheckoutPayments.                             *)
(***************************************************************************)
EXTENDS Integers, Sequences, FiniteSets, SequencesExt, FiniteSetsExt

CONSTANTS
    Plan,       \* the installments in order of due_on
    Amount,     \* amount_cents of an installment
    Tries,      \* attempts of autopay, 4
    LateFee,    \* the organization's lateFeeCents
    Keys,       \* keys under which the payer pays by hand
    KeyFor,     \* the installment a key is for
    Workers,    \* executions of the installments.charge job
    Nobody,     \* no worker
    Changes,    \* bound on the status changes of one intent
    Failures,   \* bound on failing Stripe calls and stopping workers
    Givens      \* what a behaviour is given, see given

Installments == ToSet(Plan)
Autos == Installments \X (1 .. Tries)
Intents == Autos \cup Keys
Events == Intents \X (1 .. Changes)

\* Named and defined at Mishap below.
AllMishaps == {"declined", "stopped", "revoked", "off_plan", "voided", "reopened", "behind", "beside",
               "overlap"}

ASSUME InvoiceAssumption ==
    /\ Plan \in Seq(Installments) /\ Plan # <<>> /\ IsInjective(Plan)
    /\ Amount \in [Installments -> Nat \ {0}]
    /\ Tries \in Nat \ {0}
    /\ LateFee \in Nat
    /\ KeyFor \in [Keys -> Installments]
    /\ IsFiniteSet(Keys) /\ Keys \cap Autos = {}
    /\ Nobody \notin Workers
    /\ Changes \in Nat \ {0} /\ Failures \in Nat
    /\ Givens \subseteq [mishaps : SUBSET AllMishaps, keys : SUBSET Keys,
                         autos : SUBSET Installments, workers : SUBSET Workers,
                         staff : SUBSET Installments, failures : 0 .. Failures]

VARIABLES
    given,      \* what else may go wrong in this behaviour, the keys the payer
                \* uses, the installments on autopay, the executions of the job,
                \* those staff act on, and how many failures there are
    \* invoices
    total, paid, credited, voided,
    \* installments
    state,      \* status
    got,        \* paid_cents
    autopay,    \* autopay, with the payment method
    tries,      \* attempt_count
    due,        \* installments on autopay whose due_on or next_attempt_at has come
    fees,       \* installments with a late fee line
    mandate,    \* the method is active and autopay_authorizations not revoked
    \* installment_charge_attempts
    charge,     \* status
    holder,     \* lease_token
    live,       \* lease_expires_at > now
    \* executions of the job
    step, on,
    \* manual_installment_payment_attempts
    key,        \* status
    \* payments
    payment,    \* status
    cash,       \* sum of the offline payments
    \* Stripe
    intent,     \* status of an intent
    changes,    \* its status changes, each of which sends an event
    \* events
    todo,       \* those not processed
    fetched,    \* handlers: the event and the status it fetched
    failures

invoice == <<total, paid, credited, voided>>
plan == <<state, got, autopay, tries, due, fees, mandate>>
charges == <<charge, holder, live>>
work == <<step, on, failures>>
books == <<payment, cash>>
stripe == <<intent, changes>>
queue == <<todo, fetched>>
invoiceVars == <<given, invoice, plan, charges, work, key, books, stripe, queue>>

Statuses == {"none", "requires_action", "processing", "succeeded", "failed", "canceled"}

InvoiceTypeOK ==
    /\ given \in Givens
    /\ total \in Nat /\ paid \in Nat /\ credited \in Nat /\ voided \in BOOLEAN
    /\ paid + credited <= total
    /\ state \in [Installments -> {"scheduled", "processing", "paid", "failed", "waived"}]
    /\ got \in [Installments -> Nat]
    /\ autopay \in [Installments -> BOOLEAN]
    /\ tries \in [Installments -> 0 .. Tries]
    /\ due \subseteq Installments /\ fees \subseteq Installments
    /\ mandate \in BOOLEAN
    /\ charge \in [Autos -> {"none", "reserved", "external_started", "recorded"}]
    /\ holder \in [Autos -> Workers \cup {Nobody}]
    /\ live \in [Autos -> BOOLEAN]
    /\ step \in [Workers -> {"idle", "begin", "create", "record"}]
    /\ on \in [Workers -> Autos \cup {Nobody}]
    /\ key \in [Keys -> {"none", "reserved", "external_started", "completed", "failed_pre_external"}]
    /\ payment \in [Intents -> Statuses]
    /\ cash \in Nat
    /\ intent \in [Intents -> Statuses]
    /\ changes \in [Intents -> 0 .. Changes]
    /\ todo \subseteq Events
    /\ fetched \subseteq Events \X Statuses
    /\ failures \in 0 .. Failures

InvoiceInit ==
    /\ given \in Givens
    /\ total = SumFunctionOnSet(Amount, Installments)
    /\ paid = 0 /\ credited = 0 /\ voided = FALSE
    /\ state = [i \in Installments |-> "scheduled"]
    /\ got = [i \in Installments |-> 0]
    /\ autopay = [i \in Installments |-> i \in given.autos]
    /\ tries = [i \in Installments |-> 0]
    /\ due = {} /\ fees = {}
    /\ mandate = TRUE
    /\ charge = [k \in Autos |-> "none"]
    /\ holder = [k \in Autos |-> Nobody]
    /\ live = [k \in Autos |-> FALSE]
    /\ step = [w \in Workers |-> "idle"]
    /\ on = [w \in Workers |-> Nobody]
    /\ key = [k \in Keys |-> "none"]
    /\ payment = [k \in Intents |-> "none"]
    /\ cash = 0
    /\ intent = [k \in Intents |-> "none"]
    /\ changes = [k \in Intents |-> 0]
    /\ todo = {} /\ fetched = {}
    /\ failures = 0

-----------------------------------------------------------------------------
(* What the transactions read.                                             *)

Paying(k) == IF k \in Keys THEN KeyFor[k] ELSE k[1]

\* payments.amount_cents: what is outstanding of an installment is all of it.
Price == [k \in Intents |-> Amount[Paying(k)]]

\* invoices.balance_cents, whose CHECK keeps it from falling below zero.
Balance == total - paid - credited

\* Any status but draft, void, paid.
Open == ~voided /\ Balance > 0

Unsettled(s) == s \in {"requires_action", "processing"}
Claimed(s) == s \in {"reserved", "external_started"}

PendingPayments ==
    SumFunctionOnSet(Price, {k \in Intents : Unsettled(payment[k])})
PendingCharges ==
    SumFunctionOnSet(Price, {k \in Autos : Claimed(charge[k])})

Outstanding(i) == state[i] \in {"scheduled", "failed"} /\ got[i] < Amount[i]

-----------------------------------------------------------------------------
(* The autopay job.                                                        *)

\* Mutant: failed installments are not looked for.
CandidatesNotFailed == {i \in due : state[i] = "scheduled" /\ tries[i] < Tries}

\* Due candidates of claimDue, and the one it looks at first.  Its LIMIT 20 is
\* larger than a plan and left out; it is applied before the retry time is
\* looked at, so twenty candidates of other invoices that wait for their retry
\* would hide this one, which is not modelled.
Candidates ==
    {i \in due : state[i] \in {"scheduled", "failed"} /\ tries[i] < Tries}
Foremost(i) == i \in Candidates /\ \A j \in Candidates : \E m, n \in DOMAIN Plan :
                                    Plan[m] = i /\ Plan[n] = j /\ m <= n

\* Whatever else holds of the first candidate makes claimDue throw.
Chargeable(i) ==
    /\ got[i] < Amount[i]
    /\ ~voided
    /\ Amount[i] + PendingCharges + PendingPayments <= Balance
    /\ mandate

Hold(w, k) ==
    /\ holder' = [holder EXCEPT ![k] = w]
    /\ live' = [live EXCEPT ![k] = TRUE]
    /\ step' = [step EXCEPT ![w] = "begin"]
    /\ on' = [on EXCEPT ![w] = k]

\* claimDue: a reserved attempt whose lease ran out is resumed.
Resume(w, k) ==
    /\ step[w] = "idle"
    /\ charge[k] = "reserved" /\ ~live[k]
    /\ Hold(w, k)
    /\ UNCHANGED <<given, invoice, plan, charge, failures, key, books, stripe, queue>>

\* claimDue: otherwise the first due installment is claimed.
Claim(w, i) ==
    LET k == <<i, tries[i] + 1>> IN
    /\ step[w] = "idle"
    /\ \A a \in Autos : charge[a] = "reserved" => live[a]
    /\ Foremost(i)
    /\ Chargeable(i)
    /\ charge' = [charge EXCEPT ![k] = "reserved"]
    /\ Hold(w, k)
    /\ state' = [state EXCEPT ![i] = "processing"]
    /\ tries' = [tries EXCEPT ![i] = @ + 1]
    /\ due' = due \ {i}
    /\ UNCHANGED <<given, invoice, got, autopay, fees, mandate, failures, key, books,
                   stripe, queue>>

Idle(w) ==
    /\ step' = [step EXCEPT ![w] = "idle"]
    /\ on' = [on EXCEPT ![w] = Nobody]

\* Mutant: the attempt is started without asking for the lease token.
BeginUnleased(w) ==
    LET k == on[w] IN
    /\ step[w] = "begin"
    /\ \/ /\ charge[k] = "reserved" /\ mandate
          /\ charge' = [charge EXCEPT ![k] = "external_started"]
          /\ step' = [step EXCEPT ![w] = "create"]
          /\ UNCHANGED on
       \/ /\ ~(charge[k] = "reserved" /\ mandate)
          /\ Idle(w)
          /\ UNCHANGED charge
    /\ UNCHANGED <<given, invoice, plan, holder, live, failures, key, books, stripe, queue>>

\* beginExternal; it throws, and changes nothing, under a lost lease or a
\* revoked mandate.
Begin(w) ==
    LET k == on[w] IN
    /\ step[w] = "begin"
    /\ \/ /\ charge[k] = "reserved" /\ holder[k] = w /\ mandate
          /\ charge' = [charge EXCEPT ![k] = "external_started"]
          /\ step' = [step EXCEPT ![w] = "create"]
          /\ UNCHANGED on
       \/ /\ ~(charge[k] = "reserved" /\ holder[k] = w /\ mandate)
          /\ Idle(w)
          /\ UNCHANGED charge
    /\ UNCHANGED <<given, invoice, plan, holder, live, failures, key, books, stripe, queue>>

\* The status of an intent at Stripe; a change sends an event.
Change(k, s) ==
    /\ intent' = [intent EXCEPT ![k] = s]
    /\ changes' = [changes EXCEPT ![k] = @ + 1]
    /\ todo' = todo \cup {<<k, changes'[k]>>}

\* createDestinationPayment off session: the charge goes through or is under
\* way.
Create(w) ==
    LET k == on[w] IN
    /\ step[w] = "create"
    /\ \E s \in {"succeeded", "processing"} : Change(k, s)
    /\ step' = [step EXCEPT ![w] = "record"]
    /\ UNCHANGED <<given, invoice, plan, charges, on, failures, key, books, fetched>>

\* The bank declines the card: the intent asks for another one, and the call
\* throws.
Declined(w) ==
    /\ step[w] = "create"
    /\ Change(on[w], "failed")
    /\ Idle(w)
    /\ UNCHANGED <<given, invoice, plan, charges, failures, key, books, fetched>>

\* recordIntent.
Record(w) ==
    LET k == on[w] IN
    /\ step[w] = "record"
    /\ \/ /\ charge[k] = "external_started" /\ holder[k] = w
          /\ charge' = [charge EXCEPT ![k] = "recorded"]
          /\ payment' = [payment EXCEPT ![k] = "requires_action"]
       \/ /\ ~(charge[k] = "external_started" /\ holder[k] = w)
          /\ UNCHANGED <<charge, payment>>
    /\ Idle(w)
    /\ UNCHANGED <<given, invoice, plan, holder, live, failures, key, cash, stripe, queue>>

\* A Stripe call fails, or the process stops.
Stop(w) ==
    /\ step[w] # "idle"
    /\ failures' = failures + 1
    /\ Idle(w)
    /\ UNCHANGED <<given, invoice, plan, charges, key, books, stripe, queue>>

\* Five minutes have gone by since the claim.
LeaseExpires(k) ==
    /\ live[k]
    /\ live' = [live EXCEPT ![k] = FALSE]
    /\ UNCHANGED <<given, invoice, plan, charge, holder, work, key, books, stripe, queue>>

-----------------------------------------------------------------------------
(* The payer pays an installment by hand.                                  *)

\* create's first transaction, under a new key.  Repeated under the same key
\* it goes on with a reserved attempt, and changes nothing otherwise.
PayReserve(k) ==
    LET i == KeyFor[k] IN
    /\ key[k] = "none"
    /\ Outstanding(i) /\ Open
    /\ \A n \in 1 .. Tries : ~Claimed(charge[<<i, n>>])
    /\ Amount[i] + PendingPayments <= Balance
    /\ \A q \in Intents : Paying(q) = i => ~Unsettled(payment[q])
    /\ key' = [key EXCEPT ![k] = "reserved"]
    /\ payment' = [payment EXCEPT ![k] = "requires_action"]
    /\ UNCHANGED <<given, invoice, plan, charges, work, cash, stripe, queue>>

\* failBeforeExternal: the connected account cannot be charged.
PayFail(k) ==
    /\ key[k] = "reserved"
    /\ failures' = failures + 1
    /\ key' = [key EXCEPT ![k] = "failed_pre_external"]
    /\ payment' = [payment EXCEPT ![k] = "canceled"]
    /\ UNCHANGED <<given, invoice, plan, charges, step, on, cash, stripe, queue>>

\* One of the requests with this key calls Stripe.
PayBegin(k) ==
    /\ key[k] = "reserved"
    /\ key' = [key EXCEPT ![k] = "external_started"]
    /\ UNCHANGED <<given, invoice, plan, charges, work, books, stripe, queue>>

PayCreate(k) ==
    /\ key[k] = "external_started" /\ intent[k] = "none"
    /\ intent' = [intent EXCEPT ![k] = "requires_action"]
    /\ UNCHANGED <<given, invoice, plan, charges, work, key, books, changes, queue>>

\* The payment learns its intent, the payer the client secret.
PayComplete(k) ==
    /\ key[k] = "external_started" /\ intent[k] # "none"
    /\ key' = [key EXCEPT ![k] = "completed"]
    /\ UNCHANGED <<given, invoice, plan, charges, work, books, stripe, queue>>

-----------------------------------------------------------------------------
(* Stripe and its events.                                                  *)

\* The payer confirms an intent and may try another card; a bank takes days.
StripeMoves ==
    [none |-> {}, succeeded |-> {}, canceled |-> {},
     processing |-> {"succeeded", "failed", "canceled"},
     requires_action |-> {"processing", "succeeded", "failed", "canceled"},
     failed |-> {"processing", "succeeded"}]

StripeChange(k, s) ==
    /\ changes[k] < Changes
    /\ s \in StripeMoves[intent[k]]
    /\ k \in Autos => intent[k] = "processing"
    /\ k \in Keys => key[k] = "completed"
    /\ Change(k, s)
    /\ UNCHANGED <<given, invoice, plan, charges, work, key, books, fetched>>

\* A handler retrieves the intent.
Fetch(e) ==
    /\ e \in todo
    /\ \A f \in fetched : f[1] # e
    /\ fetched' = fetched \cup {<<e, intent[e[1]]>>}
    /\ UNCHANGED <<given, invoice, plan, charges, work, key, books, stripe, todo>>

\* Mutant: without the CHECKs.
RefusedUnchecked(k, s) ==
    \/ payment[k] = "none"
    \/ /\ k \in Keys
       /\ key[k] # "completed"
    \/ /\ payment[k] \in {"succeeded", "canceled"}
       /\ s # payment[k]

\* applyLatest throws: no payment has this intent, its status may not change,
\* or a CHECK of invoices or installments is violated.
Refused(k, s) ==
    \/ payment[k] = "none"
    \/ /\ k \in Keys
       /\ key[k] # "completed"
    \/ /\ payment[k] \in {"succeeded", "canceled"}
       /\ s # payment[k]
    \/ /\ s = "succeeded" /\ payment[k] # "succeeded"
       /\ \/ got[Paying(k)] > 0
          \/ voided
          \/ Balance < Amount[Paying(k)]

\* The first success of a payment.
Paid(k) ==
    LET i == Paying(k) IN
    /\ paid' = paid + Amount[i]
    /\ got' = [got EXCEPT ![i] = @ + Amount[i]]
    /\ state' = [state EXCEPT ![i] = "paid"]
    /\ due' = due \ {i}
    /\ UNCHANGED <<total, credited, voided, autopay, tries, fees, mandate>>

\* Mutant: the final failure of an older attempt reaches a paid installment.
UnpaidAgain(k, s) ==
    LET i == Paying(k) IN
    \E again \in BOOLEAN :
        /\ again => s = "failed" /\ tries[i] < Tries
        /\ state' = [state EXCEPT ![i] = "failed"]
        /\ autopay' = [autopay EXCEPT ![i] = again]
        /\ due' = due \ {i}
        /\ IF s = "failed" /\ ~again /\ Open /\ i \notin fees
              THEN fees' = fees \cup {i} /\ total' = total + LateFee
              ELSE UNCHANGED <<fees, total>>
        /\ UNCHANGED <<paid, credited, voided, got, tries, mandate>>

\* A charge of autopay that failed is tried again, unless the card is at
\* fault or it was the last try; that costs the late fee, once.
Unpaid(k, s) ==
    LET i == Paying(k) IN
    \/ /\ state[i] = "paid"
       /\ UNCHANGED <<invoice, plan>>
    \/ /\ state[i] # "paid"
       /\ \E again \in BOOLEAN :
            /\ again => s = "failed" /\ tries[i] < Tries
            /\ state' = [state EXCEPT ![i] = "failed"]
            /\ autopay' = [autopay EXCEPT ![i] = again]
            /\ due' = due \ {i}
            /\ IF s = "failed" /\ ~again /\ Open /\ i \notin fees
                  THEN fees' = fees \cup {i} /\ total' = total + LateFee
                  ELSE UNCHANGED <<fees, total>>
       /\ UNCHANGED <<paid, credited, voided, got, tries, mandate>>

\* applyLatest, with the status the handler fetched.
Apply(e) ==
    LET k == e[1] IN
    \E f \in fetched :
        LET s == f[2] IN
        /\ f[1] = e
        /\ fetched' = fetched \ {f}
        /\ \/ /\ Refused(k, s)
              /\ UNCHANGED <<invoice, plan, payment, todo>>
           \/ /\ ~Refused(k, s)
              /\ todo' = todo \ {e}
              /\ payment' = [payment EXCEPT ![k] = s]
              /\ IF s = payment[k] THEN UNCHANGED <<invoice, plan>>
                 ELSE IF s = "succeeded" THEN Paid(k)
                 ELSE IF s \in {"failed", "canceled"} /\ k \in Autos THEN Unpaid(k, s)
                 ELSE UNCHANGED <<invoice, plan>>
        /\ UNCHANGED <<given, charges, work, key, cash, stripe>>

-----------------------------------------------------------------------------
(* Staff, the payer's mandate, and time.                                   *)

\* PostgresOfflinePayments.record.
TakeCash(amount) ==
    /\ ~voided
    /\ amount + PendingPayments <= Balance
    /\ paid' = paid + amount
    /\ cash' = cash + amount
    /\ UNCHANGED <<given, total, credited, voided, plan, charges, work, key, payment, stripe,
                   queue>>

\* PostgresCreditLedger.apply.
ApplyCredit(amount) ==
    /\ ~voided
    /\ amount <= Balance /\ PendingPayments = 0
    /\ credited' = credited + amount
    /\ UNCHANGED <<given, total, paid, voided, plan, charges, work, key, books, stripe, queue>>

\* What every staff action on an installment asks for.
StaffMay(i) == Open /\ Outstanding(i) /\ \A n \in 1 .. Tries : ~Claimed(charge[<<i, n>>])

Waive(i) ==
    /\ StaffMay(i)
    /\ Amount[i] - got[i] <= Balance
    /\ PendingCharges = 0 /\ PendingPayments = 0
    /\ total' = total - (Amount[i] - got[i])
    /\ state' = [state EXCEPT ![i] = "waived"]
    /\ autopay' = [autopay EXCEPT ![i] = FALSE]
    /\ due' = due \ {i}
    /\ UNCHANGED <<given, paid, credited, voided, got, tries, fees, mandate, charges, work,
                   key, books, stripe, queue>>

ChangeDueDate(i) ==
    /\ StaffMay(i)
    /\ i \in due
    /\ due' = due \ {i}
    /\ UNCHANGED <<given, invoice, state, got, autopay, tries, fees, mandate, charges, work,
                   key, books, stripe, queue>>

\* Mutant: also after the last failure.
SwitchMethodAlways(i) ==
    /\ StaffMay(i) /\ mandate
    /\ autopay' = [autopay EXCEPT ![i] = TRUE]
    /\ UNCHANGED <<given, invoice, state, got, tries, due, fees, mandate, charges, work, key,
                   books, stripe, queue>>

\* Autopay goes on with a method the payer authorized, but not after a
\* failure that ended it (next_attempt_at is null).
SwitchMethod(i) ==
    /\ StaffMay(i) /\ mandate
    /\ state[i] = "failed" => autopay[i]
    /\ autopay' = [autopay EXCEPT ![i] = TRUE]
    /\ UNCHANGED <<given, invoice, state, got, tries, due, fees, mandate, charges, work, key,
                   books, stripe, queue>>

\* authorizeStaffMethod.
Authorize ==
    /\ ~mandate /\ Open
    /\ \E i \in Installments : state[i] \in {"scheduled", "failed"}
    /\ mandate' = TRUE
    /\ UNCHANGED <<given, invoice, state, got, autopay, tries, due, fees, charges, work, key,
                   books, stripe, queue>>

\* revoke, and markDetached with the payer's method.
Revoke ==
    LET stopped == {i \in Installments : autopay[i] /\ state[i] \in {"scheduled", "failed"}} IN
    /\ mandate
    /\ mandate' = FALSE
    /\ autopay' = [i \in Installments |-> autopay[i] /\ i \notin stopped]
    /\ due' = due \ stopped
    /\ UNCHANGED <<given, invoice, state, got, tries, fees, charges, work, key, books, stripe,
                   queue>>

\* PostgresInvoiceRepository.voidInvoice.
Void ==
    /\ ~voided
    /\ paid = 0 /\ credited = 0
    /\ PendingPayments = 0
    /\ \A i \in Installments : state[i] \notin {"scheduled", "processing"}
    /\ voided' = TRUE
    /\ UNCHANGED <<given, total, paid, credited, plan, charges, work, key, books, stripe, queue>>

\* The due date, or the next attempt a day or more after a failure: every
\* event has been tried by then.
FallsDue(i) ==
    /\ i \notin due /\ autopay[i]
    /\ \/ state[i] = "scheduled"
       \/ /\ state[i] = "failed"
          /\ fetched = {} /\ \A e \in todo : Refused(e[1], intent[e[1]])
    /\ due' = due \cup {i}
    /\ UNCHANGED <<given, invoice, state, got, autopay, tries, fees, mandate, charges, work,
                   key, books, stripe, queue>>

-----------------------------------------------------------------------------
(* What a behaviour is given.  Each of the following lets money be asked   *)
(* for twice, or lets autopay stop for good; the properties below say      *)
(* which of them they exclude.                                             *)
(*                                                                         *)
(*   declined  a card is declined when the job creates the charge          *)
(*   stopped   the job stops, or Stripe fails, after beginExternal         *)
(*   revoked   the mandate is revoked while a charge of it is under way    *)
(*   off_plan  cash or credit lowers the balance below the plan            *)
(*   voided    an invoice with a failed installment is voided              *)
(*   reopened  the payer goes on with a failed intent after the            *)
(*             installment is charged again, paid or waived                *)
(*   behind    an installment is charged whose last intent failed, and     *)
(*             went on since                                               *)
(*   beside    autopay charges an installment the payer is paying by hand  *)
(*   overlap   two handlers of one intent's events run at once, and the    *)
(*             one with the older status comes last                        *)

Others(k) == {q \in Intents \ {k} : Paying(q) = Paying(k)}

Reopens(k) ==
    /\ intent[k] = "failed"
    /\ \/ ~Outstanding(Paying(k))
       \/ \E q \in Others(k) : Unsettled(payment[q]) \/ intent[q] \in {"processing", "succeeded"}

Behind(i) ==
    \E q \in Intents :
        Paying(q) = i /\ payment[q] = "failed" /\ intent[q] \in {"processing", "succeeded"}

Beside(i) == \E q \in Keys : KeyFor[q] = i /\ Unsettled(payment[q])

Overlaps(e) == \E f \in fetched : f[1][1] = e[1]

Mishap(m) == m \in given.mishaps

InvoiceNext ==
    \/ \E w \in given.workers, k \in Autos : Resume(w, k)
    \/ \E w \in given.workers, i \in Installments :
          /\ Behind(i) => Mishap("behind")
          /\ Beside(i) => Mishap("beside")
          /\ Claim(w, i)
    \/ \E w \in given.workers : Begin(w)
    \/ \E w \in given.workers : Create(w)
    \/ \E w \in given.workers : Record(w)
    \/ \E w \in given.workers : Mishap("declined") /\ Declined(w)
    \/ \E w \in given.workers :
          /\ failures < given.failures
          /\ step[w] # "begin" => Mishap("stopped")
          /\ Stop(w)
    \/ \E k \in Autos : LeaseExpires(k)
    \/ \E k \in given.keys : (Behind(KeyFor[k]) => Mishap("behind")) /\ PayReserve(k)
    \/ \E k \in given.keys : failures < given.failures /\ PayFail(k)
    \/ \E k \in given.keys : PayBegin(k)
    \/ \E k \in given.keys : PayCreate(k)
    \/ \E k \in given.keys : PayComplete(k)
    \/ \E k \in Intents, s \in Statuses :
          /\ Reopens(k) => Mishap("reopened")
          /\ StripeChange(k, s)
    \/ \E e \in todo :
          /\ Overlaps(e) => Mishap("overlap")
          /\ Fetch(e)
    \/ \E e \in todo : Apply(e)
    \/ \E amount \in 1 .. Balance : Mishap("off_plan") /\ TakeCash(amount)
    \/ \E amount \in 1 .. Balance : Mishap("off_plan") /\ ApplyCredit(amount)
    \/ \E i \in given.staff : ~Behind(i) /\ Waive(i)
    \/ \E i \in given.staff : ChangeDueDate(i)
    \/ \E i \in given.staff \cap given.autos : SwitchMethod(i)
    \/ given.staff # {} /\ Authorize
    \/ /\ given.staff # {}
       /\ (\E i \in Installments : state[i] = "processing") => Mishap("revoked")
       /\ Revoke
    \/ /\ given.staff # {}
       /\ (\E i \in Installments : state[i] = "failed") => Mishap("voided")
       /\ Void
    \/ \E i \in Installments : FallsDue(i)

InvoiceSpec == InvoiceInit /\ [][InvoiceNext]_invoiceVars

JobRuns(w) == Begin(w) \/ Create(w) \/ Record(w)
JobStarts(w) ==
    \/ \E k \in Autos : Resume(w, k)
    \/ \E i \in Installments :
          /\ Behind(i) => Mishap("behind")
          /\ Beside(i) => Mishap("beside")
          /\ Claim(w, i)
Handles(e) ==
    \/ /\ Overlaps(e) => Mishap("overlap")
       /\ Fetch(e)
    \/ Apply(e)
BeginsInTime(w) == step[w] = "begin" /\ holder[on[w]] = w /\ Begin(w)

\* The job runs every 15 minutes and does not outlive its five-minute lease
\* every time, days go by, a bank answers, an event is tried until it is processed.
\* Nothing is assumed of the payer and of staff.
InvoiceFairSpec ==
    /\ InvoiceSpec
    /\ WF_invoiceVars(\E w \in given.workers : JobRuns(w))
    /\ WF_invoiceVars(\E w \in given.workers : JobStarts(w))
    /\ SF_invoiceVars(\E w \in given.workers : BeginsInTime(w))
    /\ WF_invoiceVars(\E k \in Autos : LeaseExpires(k))
    /\ WF_invoiceVars(\E i \in Installments : FallsDue(i))
    /\ WF_invoiceVars(\E k \in Autos, s \in Statuses : StripeChange(k, s))
    /\ \A k \in Intents : WF_invoiceVars(\E e \in todo : e[1] = k /\ Handles(e))

-----------------------------------------------------------------------------
(* Properties.                                                             *)

AmountOf(S) == SumFunctionOnSet(Price, S)

\* Whatever handlers overlap, repeat or come late: each payment that succeeded
\* is counted once, in the invoice and in its installment, and an installment is
\* 'paid' exactly when it is.  The total is that of the plan less what was
\* waived, with each late fee once, unless a failed intent goes on after the
\* waiver.  And Stripe takes the money for an installment once, whoever charges
\* it, unless autopay runs beside the payer or a failed intent goes on behind
\* the books.
MoneyReconciled ==
    LET done == {k \in Intents : payment[k] = "succeeded"} IN
    /\ paid = cash + AmountOf(done)
    /\ \A i \in Installments :
          /\ got[i] = AmountOf({k \in done : Paying(k) = i})
          /\ state[i] = "paid" <=> got[i] = Amount[i]
    /\ ~Mishap("reopened") =>
          total = SumFunctionOnSet(Amount, {i \in Installments : state[i] # "waived"})
                     + LateFee * Cardinality(fees)
    /\ given.mishaps \cap {"reopened", "behind", "beside"} = {} =>
          \A k \in Intents : intent[k] = "succeeded" => \A q \in Others(k) : intent[q] # "succeeded"

\* After its final failure autopay never charges an installment again ("stop
\* automatic retries", docs/codex/20-ALGORITHMS.md, dunning).
FinalStep ==
    \A k \in Autos : k[1] \in fees => (intent[k] = "none" => intent'[k] = "none")
FinalIsFinal == [][FinalStep]_invoiceVars

\* A charge the job made is known to the books in the end, unless the job
\* stops between beginExternal and recordIntent or the card is declined there.
ChargesAreBooked ==
    \A k \in Autos :
        (intent[k] # "none" /\ given.mishaps \subseteq {"revoked", "voided"})
            ~> payment[k] \notin {"none", "requires_action", "processing"}

\* Dunning ends: an installment that falls due under autopay is paid, waived
\* or left to the payer in the end ("Retries after failure at +1 day, +3 days,
\* +7 days", docs/codex/20-ALGORITHMS.md).
Settled(i) == state[i] \in {"paid", "waived"} \/ ~autopay[i] \/ ~Open
DunningEnds ==
    \A i \in Installments :
        (/\ i \in due /\ given.workers # {}
         /\ given.mishaps \subseteq {"declined"} /\ given.keys = {} /\ given.staff = {})
            ~> Settled(i)
=============================================================================
