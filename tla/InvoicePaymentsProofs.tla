----------------------- MODULE InvoicePaymentsProofs -----------------------
(***************************************************************************)
(* Proofs about InvoicePayments, for any plan, any number of tries, keys,  *)
(* workers and status changes, and whatever mishaps a behaviour is given.  *)
(***************************************************************************)
EXTENDS InvoicePayments, FoldLemmas

-----------------------------------------------------------------------------
(* The invariant.                                                          *)

\* A worker at a call has started the attempt, alone, and knows whether the
\* intent is there.
AtWork ==
    \A w \in Workers :
        /\ step[w] # "idle" => on[w] \in Autos
        /\ step[w] \in {"create", "record"} => charge[on[w]] = "external_started"
        /\ step[w] = "create" => intent[on[w]] = "none"
        /\ step[w] = "record" => intent[on[w]] # "none"
        /\ \A v \in Workers :
              (step[v] \in {"create", "record"} /\ step[w] \in {"create", "record"}
                  /\ on[v] = on[w]) => v = w

\* How far an attempt of autopay is, as its rows and Stripe see it.
ChargeRows ==
    \A k \in Autos :
        /\ charge[k] = "none" <=> k[2] > tries[k[1]]
        /\ charge[k] \in {"none", "reserved"} => intent[k] = "none"
        /\ charge[k] = "recorded" <=> payment[k] # "none"
        /\ charge[k] = "recorded" => intent[k] # "none"

\* The same of a payment by hand.
KeyRows ==
    \A k \in Keys :
        /\ key[k] = "none" => payment[k] = "none"
        /\ key[k] \in {"reserved", "external_started"} => payment[k] = "requires_action"
        /\ key[k] = "failed_pre_external" => payment[k] = "canceled"
        /\ key[k] = "completed" => payment[k] # "none" /\ intent[k] # "none"
        /\ key[k] \in {"none", "reserved", "failed_pre_external"} => intent[k] = "none"
        /\ key[k] # "completed" => intent[k] \in {"none", "requires_action"}
        /\ intent[k] = "requires_action" => payment[k] = "requires_action"

\* An intent changes by events, one of autopay at most twice.
IntentHistory ==
    \A k \in Intents :
        /\ changes[k] = 0 <=> intent[k] \in {"none", "requires_action"}
        /\ k \in Autos => /\ changes[k] <= 2 /\ intent[k] # "requires_action"
                          /\ intent[k] = "processing" => changes[k] = 1

\* A status that a handler fetched, or that a payment has, was that of the
\* intent; success and cancellation still are, and so is the failure of a
\* charge of autopay.
WasSo(k, s) ==
    /\ s \notin {"none", "requires_action"} /\ changes[k] > 0
    /\ s \in {"succeeded", "canceled"} \/ (s = "failed" /\ k \in Autos) => intent[k] = s

SeenStatuses ==
    /\ \A e \in todo : e[2] <= changes[e[1]]
    /\ \A f \in fetched : WasSo(f[1][1], f[2])
    /\ \A k \in Intents :
          \/ payment[k] \in {"none", "requires_action"}
          \/ WasSo(k, payment[k])
          \/ k \in Keys /\ key[k] = "failed_pre_external"

\* The failure of a charge is one of its two events, so at most one is left.
FailedOnce ==
    \A k \in Autos : payment[k] = "failed" =>
        \A d, e \in todo : d[1] = k /\ e[1] = k => d = e

\* A charge that may still end the installment's turn is the latest one, and
\* the installment waits for it or is paid.
Pending(k) ==
    \/ Claimed(charge[k])
    \/ /\ Unsettled(payment[k])
       /\ intent[k] \in {"processing", "succeeded"} \/ \E e \in todo : e[1] = k
LatestPending ==
    \A k \in Autos : Pending(k) =>
        k[2] = tries[k[1]] /\ state[k[1]] \in {"processing", "paid"}

\* Nothing is due of an installment whose dunning has ended, nor charged.
DunningOver ==
    \A i \in fees :
        /\ ~autopay[i] /\ i \notin due
        /\ state[i] \in {"failed", "paid", "waived"}
        /\ \A n \in 1 .. Tries : ~Claimed(charge[<<i, n>>])

\* Each installment is paid all or nothing.
AllOrNothing ==
    /\ \A i \in Installments : got[i] \in {0, Amount[i]}
    /\ \A k \in Intents : payment[k] = "succeeded" => got[Paying(k)] = Amount[Paying(k)]

\* What was waived is not paid by hand behind the waiver.
WaivedRests ==
    ~Mishap("reopened") => \A k \in Keys : state[KeyFor[k]] = "waived" =>
        /\ intent[k] \in {"none", "failed", "canceled"}
        /\ key[k] \notin {"reserved", "external_started"}

\* What may still take the payer's money, or has.
InPlay(k) ==
    \/ /\ k \in Keys
       /\ key[k] \in {"reserved", "external_started"} \/ intent[k] = "requires_action"
    \/ k \in Autos /\ Claimed(charge[k])
    \/ intent[k] \in {"processing", "succeeded"}
OneInPlay ==
    given.mishaps \cap {"reopened", "behind", "beside"} = {} =>
        \A k, q \in Intents : InPlay(k) /\ InPlay(q) /\ Paying(k) = Paying(q) => k = q

\* MoneyReconciled but for its last part, which follows from OneInPlay.
InvoiceBooks ==
    /\ paid = cash + AmountOf({k \in Intents : payment[k] = "succeeded"})
    /\ \A i \in Installments :
          /\ got[i] = AmountOf({k \in Intents : payment[k] = "succeeded" /\ Paying(k) = i})
          /\ state[i] = "paid" <=> got[i] = Amount[i]
    /\ ~Mishap("reopened") =>
          total = SumFunctionOnSet(Amount, {i \in Installments : state[i] # "waived"})
                     + LateFee * Cardinality(fees)

InvoiceInv ==
    /\ InvoiceTypeOK /\ InvoiceBooks
    /\ AtWork /\ ChargeRows /\ KeyRows
    /\ IntentHistory /\ SeenStatuses /\ FailedOnce
    /\ LatestPending /\ DunningOver /\ AllOrNothing /\ WaivedRests /\ OneInPlay

-----------------------------------------------------------------------------
(* Constants and sums.                                                     *)

\* What is known of the parameters, apart from the plan being a sequence.
LEMMA Parameters ==
    /\ Amount \in [Installments -> Nat \ {0}]
    /\ Tries \in Nat \ {0} /\ LateFee \in Nat /\ Changes \in Nat \ {0} /\ Failures \in Nat
    /\ KeyFor \in [Keys -> Installments]
    /\ Nobody \notin Workers
    /\ \A g \in Givens :
          /\ g.mishaps \subseteq AllMishaps /\ g.keys \subseteq Keys
          /\ g.workers \subseteq Workers /\ g.staff \subseteq Installments
          /\ g.autos \subseteq Installments
          /\ g.failures \in 0 .. Failures
BY InvoiceAssumption

\* An attempt is an installment and a try; an intent is one or a key.
LEMMA Ids ==
    /\ \A k \in Autos : /\ k[1] \in Installments /\ k[2] \in 1 .. Tries /\ k = <<k[1], k[2]>>
                        /\ k \in Intents /\ k \notin Keys /\ Paying(k) = k[1]
    /\ \A i \in Installments, n \in 1 .. Tries : <<i, n>> \in Autos
    /\ \A k \in Keys : k \in Intents /\ k \notin Autos /\ Paying(k) = KeyFor[k]
    /\ \A k \in Intents : /\ k \in Autos \/ k \in Keys
                          /\ Paying(k) \in Installments
                          /\ Price[k] = Amount[Paying(k)] /\ Price[k] \in Nat \ {0}
<1>1. /\ Keys \cap Autos = {} /\ KeyFor \in [Keys -> Installments]
      /\ Amount \in [Installments -> Nat \ {0}]
  BY InvoiceAssumption
<1> QED BY <1>1 DEF Autos, Intents, Paying, Price

\* There are finitely many installments and intents.
LEMMA FiniteIds == IsFiniteSet(Installments) /\ IsFiniteSet(Intents)
<1>1. IsFiniteSet(Installments)
  <2>1. Plan \in [1 .. Len(Plan) -> Installments] /\ Len(Plan) \in Nat
    BY InvoiceAssumption
  <2>2. Plan \in Surjection(1 .. Len(Plan), Installments)
    BY <2>1 DEF Surjection, Installments, ToSet
  <2>3. IsFiniteSet(1 .. Len(Plan))
    BY <2>1, FS_Interval
  <2> QED BY <2>2, <2>3, FS_Surjection
<1>2. IsFiniteSet(Autos)
  <2>1. IsFiniteSet(1 .. Tries)
    BY FS_Interval, InvoiceAssumption
  <2> QED BY <1>1, <2>1, FS_Product DEF Autos
<1>3. IsFiniteSet(Keys)
  BY InvoiceAssumption
<1> QED BY <1>1, <1>2, <1>3, FS_Union DEF Intents

\* Prices add up to a natural number, to more than nothing if there is any,
\* and one more intent adds its price.
LEMMA PricesAddUp ==
    ASSUME NEW S \in SUBSET Intents
    PROVE  /\ AmountOf(S) \in Nat
           /\ \A k \in S : Price[k] <= AmountOf(S)
           /\ AmountOf({}) = 0
           /\ \A k \in Intents : k \notin S => AmountOf(S \cup {k}) = Price[k] + AmountOf(S)
<1>1. IsFiniteSet(S) /\ \A k \in Intents : Price[k] \in Nat /\ Price[k] \in Int
  BY FiniteIds, FS_Subset, Ids
<1>2. AmountOf(S) \in Nat
  BY <1>1, SumType DEF AmountOf
<1>3. ASSUME NEW k \in S PROVE Price[k] <= AmountOf(S)
  <2>1. AmountOf(S) = Price[k] + AmountOf(S \ {k})
    BY <1>1, SumRemove DEF AmountOf
  <2>2. AmountOf(S \ {k}) \in Nat
    <3>1. IsFiniteSet(S \ {k}) /\ \A q \in S \ {k} : Price[q] \in Nat
      BY <1>1, FS_RemoveElement
    <3> QED BY <3>1, SumType DEF AmountOf
  <2> QED BY <1>1, <2>1, <2>2
<1>4. AmountOf({}) = 0
  BY FS_EmptySet, SumEquation DEF AmountOf
<1>5. ASSUME NEW k \in Intents, k \notin S
      PROVE  AmountOf(S \cup {k}) = Price[k] + AmountOf(S)
  BY <1>1, <1>5, SumAdd DEF AmountOf
<1> QED BY <1>2, <1>3, <1>4, <1>5

-----------------------------------------------------------------------------
(* What the invariant says.                                                *)

LEMMA MoneyFollows == InvoiceInv => MoneyReconciled
<1> SUFFICES ASSUME InvoiceInv PROVE MoneyReconciled
  OBVIOUS
<1>1. ASSUME NEW i \in Installments
      PROVE  {k \in {q \in Intents : payment[q] = "succeeded"} : Paying(k) = i}
                = {k \in Intents : payment[k] = "succeeded" /\ Paying(k) = i}
  OBVIOUS
<1>2. ASSUME given.mishaps \cap {"reopened", "behind", "beside"} = {},
             NEW k \in Intents, intent[k] = "succeeded", NEW q \in Others(k)
      PROVE  intent[q] # "succeeded"
  BY <1>2 DEF InvoiceInv, OneInPlay, InPlay, Others
<1> QED BY <1>1, <1>2 DEF InvoiceInv, InvoiceBooks, MoneyReconciled

\* The books depend on the payments that succeeded, the installments paid and
\* waived, and the sums.
LEMMA BooksUntouched ==
    ASSUME InvoiceBooks, UNCHANGED <<given, total, paid, got, fees, cash>>,
           \A i \in Installments : /\ state'[i] = "paid" <=> state[i] = "paid"
                                   /\ state'[i] = "waived" <=> state[i] = "waived",
           \A k \in Intents : payment'[k] = "succeeded" <=> payment[k] = "succeeded"
    PROVE  InvoiceBooks'
<1>1. {k \in Intents : payment'[k] = "succeeded"} = {k \in Intents : payment[k] = "succeeded"}
  OBVIOUS
<1>2. \A i \in Installments :
         {k \in Intents : payment'[k] = "succeeded" /\ Paying(k) = i}
            = {k \in Intents : payment[k] = "succeeded" /\ Paying(k) = i}
  OBVIOUS
<1>3. {i \in Installments : state'[i] # "waived"} = {i \in Installments : state[i] # "waived"}
  OBVIOUS
<1>4. /\ paid' = paid /\ cash' = cash /\ got' = got /\ total' = total /\ fees' = fees
      /\ Mishap("reopened")' <=> Mishap("reopened")
  BY DEF Mishap
<1> QED BY <1>1, <1>2, <1>3, <1>4 DEF InvoiceBooks

\* Once nobody waits for the money of an installment that is not paid, and no
\* failed intent went on, nothing of it is in play.
LEMMA NothingInPlay ==
    ASSUME InvoiceInv, NEW i \in Installments, got[i] < Amount[i], ~Behind(i),
           \A q \in Keys : KeyFor[q] = i => ~Unsettled(payment[q]),
           \A q \in Autos : q[1] = i => ~Pending(q)
    PROVE  \A q \in Intents : Paying(q) = i => ~InPlay(q)
<1> SUFFICES ASSUME NEW q \in Intents, Paying(q) = i, InPlay(q) PROVE FALSE
  OBVIOUS
<1>1. payment[q] # "succeeded"
  BY Parameters, Ids DEF InvoiceInv, InvoiceTypeOK, AllOrNothing
<1>2. CASE q \in Keys
  <2>1. KeyFor[q] = i /\ ~Unsettled(payment[q])
    BY <1>2, Ids
  <2>2. key[q] = "completed" /\ intent[q] \in {"processing", "succeeded"}
    BY <1>2, <2>1, Ids DEF InvoiceInv, InvoiceTypeOK, KeyRows, InPlay, Unsettled
  <2>3. payment[q] \in {"failed", "canceled"}
    BY <1>1, <1>2, <2>1, <2>2 DEF InvoiceInv, InvoiceTypeOK, KeyRows, Unsettled, Statuses
  <2>4. payment[q] # "canceled"
    BY <2>2 DEF InvoiceInv, SeenStatuses, WasSo
  <2> QED BY <2>2, <2>3, <2>4 DEF Behind
<1>3. CASE q \in Autos
  <2>1. q[1] = i /\ ~Pending(q) /\ q \notin Keys
    BY <1>3, Ids
  <2>2. ~Claimed(charge[q]) /\ intent[q] \in {"processing", "succeeded"}
    BY <2>1 DEF InPlay, Pending, InvoiceInv, KeyRows
  <2>3. payment[q] # "none"
    BY <1>3, <2>2 DEF InvoiceInv, InvoiceTypeOK, ChargeRows, Claimed
  <2>4. payment[q] \in {"failed", "canceled"}
    BY <1>1, <2>1, <2>2, <2>3 DEF InvoiceInv, InvoiceTypeOK, Pending, Unsettled, Statuses
  <2>5. payment[q] # "canceled"
    BY <2>1, <2>2 DEF InvoiceInv, SeenStatuses, WasSo
  <2> QED BY <2>2, <2>4, <2>5 DEF Behind
<1> QED BY <1>2, <1>3, Ids

-----------------------------------------------------------------------------
(* Changes of an intent.                                                   *)

\* A new status and its event keep everything but AtWork, which is about the
\* worker that brought the change about.
LEMMA ChangeKeeps ==
    ASSUME InvoiceInv, NEW k \in Intents,
           NEW s \in {"processing", "succeeded", "failed", "canceled"},
           Change(k, s), changes[k] < Changes,
           k \in Autos => \/ intent[k] = "none" /\ charge[k] = "external_started"
                          \/ intent[k] = "processing" /\ s # "processing",
           k \in Keys => /\ key[k] = "completed" /\ s \in StripeMoves[intent[k]]
                         /\ Reopens(k) => Mishap("reopened"),
           UNCHANGED <<given, invoice, plan, charges, key, books, fetched>>
    PROVE  /\ intent' \in [Intents -> Statuses] /\ changes' \in [Intents -> 0 .. Changes]
           /\ todo' \subseteq Events
           /\ InvoiceBooks' /\ ChargeRows' /\ KeyRows' /\ IntentHistory' /\ SeenStatuses'
           /\ FailedOnce' /\ LatestPending' /\ DunningOver' /\ AllOrNothing' /\ WaivedRests'
           /\ OneInPlay'
<1> USE Parameters, Ids DEF invoice, plan, charges, books
<1> DEFINE new == <<k, changes[k] + 1>>
<1>1. /\ intent \in [Intents -> Statuses] /\ changes \in [Intents -> 0 .. Changes]
      /\ todo \subseteq Events /\ intent[k] \in Statuses
      /\ changes[k] \in 0 .. Changes /\ k \in Autos => changes[k] <= 1
  BY DEF InvoiceInv, InvoiceTypeOK, IntentHistory
<1>2. /\ \A q \in Intents : /\ intent'[q] = IF q = k THEN s ELSE intent[q]
                            /\ changes'[q] = IF q = k THEN changes[k] + 1 ELSE changes[q]
      /\ todo' = todo \cup {new}
      /\ new[1] = k /\ new[2] = changes[k] + 1
  BY <1>1 DEF Change
<1>3. /\ intent' \in [Intents -> Statuses] /\ changes' \in [Intents -> 0 .. Changes]
      /\ todo' \subseteq Events
  <2>1. s \in Statuses /\ changes[k] + 1 \in 1 .. Changes
    BY <1>1 DEF Statuses
  <2>2. new \in Events
    BY <2>1 DEF Events
  <2> QED BY <1>1, <1>2, <2>1, <2>2 DEF Change
<1>4. ~WasSo(k, "succeeded") /\ ~WasSo(k, "canceled")
      /\ (k \in Autos => ~WasSo(k, "failed"))
  BY <1>1 DEF WasSo, StripeMoves
<1>5. \A q \in Intents, t \in Statuses : WasSo(q, t) => WasSo(q, t)'
  <2> SUFFICES ASSUME NEW q \in Intents, NEW t \in Statuses, WasSo(q, t) PROVE WasSo(q, t)'
    OBVIOUS
  <2>1. CASE q # k
    BY <1>2, <2>1 DEF WasSo
  <2>2. CASE q = k
    BY <1>1, <1>2, <1>4, <2>2 DEF WasSo
  <2> QED BY <2>1, <2>2
<1>6. intent[k] \notin {"succeeded", "canceled"} /\ (k \in Autos => intent[k] # "failed")
  BY <1>1 DEF StripeMoves
<1>7. ChargeRows'
  BY <1>2, <1>6 DEF InvoiceInv, ChargeRows
<1>8. KeyRows'
  BY <1>2 DEF InvoiceInv, KeyRows
<1>9. IntentHistory'
  BY <1>1, <1>2 DEF InvoiceInv, IntentHistory
<1>10. SeenStatuses'
  <2>1. \A e \in todo' : e[2] <= changes'[e[1]]
    <3> SUFFICES ASSUME NEW e \in todo' PROVE e[2] <= changes'[e[1]]
      OBVIOUS
    <3>1. CASE e = new
      BY <1>1, <1>2, <3>1
    <3>2. CASE e \in todo
      <4>1. e[1] \in Intents /\ e[2] \in 1 .. Changes /\ e[2] <= changes[e[1]]
            /\ changes[e[1]] \in 0 .. Changes
        BY <1>1, <3>2 DEF Events, InvoiceInv, SeenStatuses
      <4> QED BY <1>2, <4>1
    <3> QED BY <1>2, <3>1, <3>2
  <2>2. \A f \in fetched : WasSo(f[1][1], f[2])'
    <3> SUFFICES ASSUME NEW f \in fetched PROVE WasSo(f[1][1], f[2])'
      OBVIOUS
    <3>1. f[1][1] \in Intents /\ f[2] \in Statuses /\ WasSo(f[1][1], f[2])
      BY DEF InvoiceInv, InvoiceTypeOK, Events, SeenStatuses
    <3> QED BY <1>5, <3>1
  <2>3. \A q \in Intents : payment[q] \in Statuses
    BY DEF InvoiceInv, InvoiceTypeOK
  <2> QED BY <1>5, <2>1, <2>2, <2>3 DEF InvoiceInv, SeenStatuses
<1>11. FailedOnce'
  <2>1. k \in Autos => payment[k] # "failed"
    BY <1>4 DEF InvoiceInv, SeenStatuses
  <2> QED BY <1>2, <2>1 DEF InvoiceInv, FailedOnce
<1>12. LatestPending'
  <2>1. \A q \in Autos : Pending(q)' => Pending(q)
    <3>1. ASSUME NEW q \in Autos, q # k PROVE Pending(q)' => Pending(q)
      BY <1>2, <3>1 DEF Pending
    <3>2. k \in Autos => Pending(k) \/ ~Pending(k)'
      BY <1>2 DEF Pending, Claimed
    <3> QED BY <3>1, <3>2
  <2> QED BY <2>1 DEF InvoiceInv, LatestPending
<1>13. DunningOver' /\ AllOrNothing'
  BY DEF InvoiceInv, DunningOver, AllOrNothing
<1>14. WaivedRests'
  <2>1. k \in Keys /\ state[KeyFor[k]] = "waived" => Mishap("reopened")
    <3> SUFFICES ASSUME k \in Keys, state[KeyFor[k]] = "waived", ~Mishap("reopened") PROVE FALSE
      OBVIOUS
    <3>1. intent[k] = "failed"
      BY DEF InvoiceInv, WaivedRests, StripeMoves
    <3> QED BY <3>1 DEF Reopens, Outstanding
  <2> QED BY <1>2, <2>1 DEF InvoiceInv, WaivedRests, Mishap
<1>15. OneInPlay'
  <2> SUFFICES ASSUME given.mishaps \cap {"reopened", "behind", "beside"} = {}
               PROVE  \A p, q \in Intents :
                         InPlay(p)' /\ InPlay(q)' /\ Paying(p) = Paying(q) => p = q
    BY DEF OneInPlay
  <2>1. \A q \in Intents : q # k /\ InPlay(q)' => InPlay(q)
    BY <1>2 DEF InPlay
  <2>2. ASSUME ~InPlay(k), NEW q \in Intents, q # k, Paying(q) = Paying(k),
        InPlay(q) PROVE FALSE
    <3>1. k \in Keys /\ intent[k] = "failed" /\ ~Reopens(k)
      BY <1>1, <2>2 DEF InPlay, StripeMoves, Mishap, Claimed, Statuses
    <3>2. Outstanding(Paying(k)) /\ ~Unsettled(payment[q])
          /\ intent[q] \notin {"processing", "succeeded"}
      BY <2>2, <3>1 DEF Reopens, Others
    <3>3. q \notin Keys
      BY <2>2, <3>2 DEF InPlay, InvoiceInv, KeyRows, Unsettled
    <3>4. q \in Autos /\ Claimed(charge[q])
      BY <2>2, <3>2, <3>3 DEF InPlay
    <3>5. state[q[1]] \in {"processing", "paid"}
      BY <3>4 DEF InvoiceInv, LatestPending, Pending
    <3> QED BY <2>2, <3>2, <3>4, <3>5 DEF Outstanding
  <2>3. \A p, q \in Intents : InPlay(p) /\ InPlay(q) /\ Paying(p) = Paying(q) => p = q
    BY DEF InvoiceInv, OneInPlay
  <2> QED BY <2>1, <2>2, <2>3
<1>16. InvoiceBooks'
  BY BooksUntouched DEF InvoiceInv
<1> QED BY <1>3, <1>7, <1>8, <1>9, <1>10, <1>11, <1>12, <1>13, <1>14, <1>15, <1>16

-----------------------------------------------------------------------------
(* Each step of the job, the payer, staff and time.  The first leaf of a   *)
(* lemma frames what the action does not write; one leaf is left for every *)
(* part of the invariant it does.                                          *)

LEMMA ResumeKeeps ==
    ASSUME InvoiceInv, NEW w \in Workers, NEW k \in Autos, Resume(w, k)
    PROVE  InvoiceInv'
<1> USE Parameters, Ids DEF InvoiceInv, invoice, plan, charges, work, books, stripe, queue,
        Resume, Hold
<1>1. InvoiceBooks' /\ ChargeRows' /\ KeyRows' /\ IntentHistory' /\ SeenStatuses'
      /\ FailedOnce' /\ LatestPending' /\ DunningOver' /\ AllOrNothing' /\ WaivedRests'
      /\ OneInPlay'
  BY BooksUntouched DEF ChargeRows, KeyRows, IntentHistory, SeenStatuses, WasSo, FailedOnce,
     LatestPending, Pending, DunningOver, AllOrNothing, WaivedRests, Mishap, OneInPlay, InPlay
<1>2. InvoiceTypeOK'
  BY DEF InvoiceTypeOK
<1>3. AtWork'
  BY DEF AtWork, InvoiceTypeOK
<1> QED BY <1>1, <1>2, <1>3

LEMMA ClaimKeeps ==
    ASSUME InvoiceInv, NEW w \in Workers, NEW i \in Installments,
           Behind(i) => Mishap("behind"), Beside(i) => Mishap("beside"), Claim(w, i)
    PROVE  InvoiceInv'
<1> USE Parameters, Ids DEF InvoiceInv, invoice, plan, charges, work, books, stripe, queue,
        Claim, Hold, Foremost, Candidates, Chargeable
<1> DEFINE k == <<i, tries[i] + 1>>
<1>1. /\ k \in Autos /\ k[1] = i /\ k[2] = tries[i] + 1 /\ charge[k] = "none"
      /\ state[i] \in {"scheduled", "failed"} /\ i \in due /\ got[i] < Amount[i]
  <2>1. tries[i] + 1 \in 1 .. Tries
    BY DEF InvoiceTypeOK
  <2> QED BY <2>1 DEF InvoiceTypeOK, ChargeRows, Autos
<1>2. KeyRows' /\ IntentHistory' /\ SeenStatuses' /\ FailedOnce' /\ AllOrNothing'
  BY DEF KeyRows, IntentHistory, SeenStatuses, WasSo, FailedOnce, AllOrNothing
<1>3. InvoiceTypeOK'
  BY <1>1 DEF InvoiceTypeOK
<1>4. InvoiceBooks'
  BY BooksUntouched, <1>1 DEF InvoiceTypeOK
<1>5. AtWork'
  <2>1. /\ \A v \in Workers : /\ step'[v] = IF v = w THEN "begin" ELSE step[v]
                              /\ on'[v] = IF v = w THEN k ELSE on[v]
        /\ \A q \in Autos : charge'[q] = IF q = k THEN "reserved" ELSE charge[q]
        /\ intent' = intent
    BY <1>1 DEF InvoiceTypeOK
  <2> QED BY SMTT(30), <1>1, <2>1 DEF AtWork
<1>6. ChargeRows'
  <2>1. /\ \A q \in Autos : charge'[q] = IF q = k THEN "reserved" ELSE charge[q]
        /\ \A j \in Installments : tries'[j] = IF j = i THEN tries[i] + 1 ELSE tries[j]
        /\ intent' = intent /\ payment' = payment
        /\ \A j \in Installments : tries[j] \in Nat
    BY <1>1 DEF InvoiceTypeOK
  <2>2. ASSUME NEW q \in Autos, q # k
        PROVE  q[2] > tries[q[1]] <=> q[2] > tries'[q[1]]
    <3>1. q[1] \in Installments /\ q[2] \in Nat /\ (q[1] = i => q[2] # tries[i] + 1)
      BY <1>1, <2>2
    <3> QED BY <2>1, <3>1
  <2>3. ~(k[2] > tries'[k[1]]) /\ charge'[k] = "reserved" /\ intent[k] = "none"
        /\ payment[k] = "none"
    BY <1>1, <2>1 DEF ChargeRows
  <2> QED BY <2>1, <2>2, <2>3 DEF ChargeRows
<1>7. LatestPending'
  BY <1>1 DEF LatestPending, Pending, Claimed, Unsettled, InvoiceTypeOK
<1>8. DunningOver'
  BY <1>1 DEF DunningOver, Claimed, InvoiceTypeOK
<1>9. WaivedRests'
  BY <1>1 DEF WaivedRests, Mishap, InvoiceTypeOK
<1>10. OneInPlay'
  <2> SUFFICES ASSUME given.mishaps \cap {"reopened", "behind", "beside"} = {}
               PROVE  \A p, q \in Intents :
                         InPlay(p)' /\ InPlay(q)' /\ Paying(p) = Paying(q) => p = q
    BY DEF OneInPlay
  <2>1. \A q \in Autos : q[1] = i => ~Pending(q)
    BY <1>1 DEF LatestPending
  <2>2. ~Behind(i) /\ \A q \in Keys : KeyFor[q] = i => ~Unsettled(payment[q])
    BY DEF Mishap, Beside
  <2>3. \A q \in Intents : Paying(q) = i => ~InPlay(q)
    BY <1>1, <2>1, <2>2, NothingInPlay
  <2>4. \A q \in Intents : q # k /\ InPlay(q)' => InPlay(q)
    BY <1>1 DEF InPlay, Claimed, InvoiceTypeOK
  <2> QED BY <1>1, <2>3, <2>4 DEF OneInPlay
<1> QED BY <1>2, <1>3, <1>4, <1>5, <1>6, <1>7, <1>8, <1>9, <1>10

LEMMA BeginKeeps ==
    ASSUME InvoiceInv, NEW w \in Workers, Begin(w)
    PROVE  InvoiceInv'
<1> USE Parameters, Ids DEF InvoiceInv, invoice, plan, charges, work, books, stripe, queue,
        Begin, Idle
<1> DEFINE k == on[w]
<1>1. /\ k \in Autos
      /\ charge[k] = "reserved" => intent[k] = "none"
      /\ \A v \in Workers :
            step[v] \in {"create", "record"} => charge[on[v]] = "external_started"
  BY DEF AtWork, ChargeRows
<1>2. /\ \A v \in Workers : /\ step'[v] = "create" => step[v] = "create" \/ v = w
                            /\ step'[v] = "record" => step[v] = "record"
                            /\ step'[v] = "begin" => step[v] = "begin"
                            /\ step'[v] # "idle" => on'[v] = on[v]
      /\ \A q \in Autos : charge[q] = "external_started" => charge'[q] = "external_started"
      /\ step'[w] = "create" => charge[k] = "reserved" /\ charge'[k] = "external_started"
      /\ step'[w] # "record" /\ intent' = intent
  BY <1>1 DEF InvoiceTypeOK
<1>3. /\ charge' \in [Autos -> {"none", "reserved", "external_started", "recorded"}]
      /\ step' \in [Workers -> {"idle", "begin", "create", "record"}]
      /\ on' \in [Workers -> Autos \cup {Nobody}]
  <2>1. /\ charge \in [Autos -> {"none", "reserved", "external_started", "recorded"}]
        /\ step \in [Workers -> {"idle", "begin", "create", "record"}]
        /\ on \in [Workers -> Autos \cup {Nobody}]
    BY DEF InvoiceTypeOK
  <2>2. CASE charge[k] = "reserved" /\ holder[k] = w /\ mandate
    <3>1. /\ charge' = [charge EXCEPT ![k] = "external_started"]
          /\ step' = [step EXCEPT ![w] = "create"] /\ on' = on
      BY <2>2
    <3> QED BY ONLY <2>1, <3>1
  <2>3. CASE ~(charge[k] = "reserved" /\ holder[k] = w /\ mandate)
    <3>1. /\ charge' = charge /\ step' = [step EXCEPT ![w] = "idle"]
          /\ on' = [on EXCEPT ![w] = Nobody]
      BY <2>3
    <3> QED BY ONLY <2>1, <3>1
  <2> QED BY <2>2, <2>3
<1>4. InvoiceBooks' /\ KeyRows' /\ IntentHistory' /\ SeenStatuses' /\ FailedOnce'
      /\ AllOrNothing' /\ WaivedRests'
  BY BooksUntouched DEF KeyRows, IntentHistory, SeenStatuses, WasSo, FailedOnce, AllOrNothing,
     WaivedRests, Mishap
<1>5. InvoiceTypeOK'
  BY <1>3 DEF InvoiceTypeOK
<1>6. AtWork'
  <2>1. \A v \in Workers : step[v] # "idle" => on[v] \in Autos
    BY DEF AtWork
  <2>2. \A v \in Workers : step'[v] \in {"create", "record"} /\ v # w =>
           /\ step[v] \in {"create", "record"} /\ on'[v] = on[v]
           /\ charge[on[v]] = "external_started"
    BY <1>1, <1>2
  <2>3. \A v \in Workers : step'[v] \in {"idle", "begin", "create", "record"}
    BY <1>3
  <2> QED BY <1>1, <1>2, <2>1, <2>2, <2>3 DEF AtWork
<1>7. ChargeRows'
  BY <1>1, <1>2, <1>3 DEF ChargeRows, InvoiceTypeOK
<1>8. LatestPending'
  BY <1>1, <1>2, <1>3 DEF LatestPending, Pending, Claimed, Unsettled, InvoiceTypeOK
<1>9. DunningOver'
  BY <1>1, <1>2, <1>3 DEF DunningOver, Claimed, InvoiceTypeOK
<1>10. OneInPlay'
  BY <1>1, <1>2, <1>3 DEF OneInPlay, InPlay, Claimed, InvoiceTypeOK
<1> QED BY <1>4, <1>5, <1>6, <1>7, <1>8, <1>9, <1>10

LEMMA RecordKeeps ==
    ASSUME InvoiceInv, NEW w \in Workers, Record(w)
    PROVE  InvoiceInv'
<1> USE Parameters, Ids DEF InvoiceInv, invoice, plan, charges, work, books, stripe, queue,
        Record, Idle
<1> DEFINE k == on[w]
<1>1. /\ k \in Autos /\ k \in Intents /\ k \notin Keys
      /\ charge[k] = "external_started" /\ payment[k] = "none" /\ intent[k] # "none"
      /\ k[2] <= tries[k[1]]
  BY DEF AtWork, ChargeRows, InvoiceTypeOK
<1>2. IntentHistory' /\ WaivedRests'
  BY DEF IntentHistory, WaivedRests, Mishap
<1>3. InvoiceTypeOK'
  <2>1. /\ charge' \in [Autos -> {"none", "reserved", "external_started", "recorded"}]
        /\ payment' \in [Intents -> Statuses]
    <3>1. /\ charge \in [Autos -> {"none", "reserved", "external_started", "recorded"}]
          /\ payment \in [Intents -> Statuses] /\ "requires_action" \in Statuses
      BY DEF InvoiceTypeOK, Statuses
    <3>2. \/ charge' = [charge EXCEPT ![k] = "recorded"]
             /\ payment' = [payment EXCEPT ![k] = "requires_action"]
          \/ charge' = charge /\ payment' = payment
      OBVIOUS
    <3> QED BY ONLY <3>1, <3>2
  <2>2. /\ step' \in [Workers -> {"idle", "begin", "create", "record"}]
        /\ on' \in [Workers -> Autos \cup {Nobody}]
    <3>1. /\ step \in [Workers -> {"idle", "begin", "create", "record"}]
          /\ on \in [Workers -> Autos \cup {Nobody}]
          /\ step' = [step EXCEPT ![w] = "idle"] /\ on' = [on EXCEPT ![w] = Nobody]
      BY DEF InvoiceTypeOK
    <3> QED BY ONLY <3>1
  <2> QED BY <2>1, <2>2 DEF InvoiceTypeOK
<1>4. InvoiceBooks'
  BY BooksUntouched, <1>1 DEF InvoiceTypeOK
<1>5. AtWork'
  BY <1>1 DEF AtWork, InvoiceTypeOK
<1>6. ChargeRows'
  BY <1>1 DEF ChargeRows, InvoiceTypeOK
<1>7. KeyRows'
  BY <1>1 DEF KeyRows, InvoiceTypeOK
<1>8. SeenStatuses'
  BY <1>1 DEF SeenStatuses, WasSo, InvoiceTypeOK
<1>9. FailedOnce'
  BY <1>1 DEF FailedOnce, InvoiceTypeOK
<1>10. LatestPending'
  BY <1>1 DEF LatestPending, Pending, Claimed, Unsettled, InvoiceTypeOK
<1>11. DunningOver'
  BY <1>1 DEF DunningOver, Claimed, InvoiceTypeOK
<1>12. AllOrNothing'
  BY <1>1 DEF AllOrNothing, InvoiceTypeOK
<1>13. OneInPlay'
  BY <1>1 DEF OneInPlay, InPlay, Claimed, InvoiceTypeOK
<1> QED BY <1>2, <1>3, <1>4, <1>5, <1>6, <1>7, <1>8, <1>9, <1>10, <1>11, <1>12, <1>13

LEMMA StopKeeps ==
    ASSUME InvoiceInv, NEW w \in Workers, failures < given.failures, Stop(w)
    PROVE  InvoiceInv'
<1> USE Parameters, Ids DEF InvoiceInv, invoice, plan, charges, work, books, stripe, queue,
        Stop, Idle
<1>1. InvoiceBooks' /\ ChargeRows' /\ KeyRows' /\ IntentHistory' /\ SeenStatuses'
      /\ FailedOnce' /\ LatestPending' /\ DunningOver' /\ AllOrNothing' /\ WaivedRests'
      /\ OneInPlay'
  BY BooksUntouched DEF ChargeRows, KeyRows, IntentHistory, SeenStatuses, WasSo, FailedOnce,
     LatestPending, Pending, DunningOver, AllOrNothing, WaivedRests, Mishap, OneInPlay, InPlay
<1>2. InvoiceTypeOK'
  BY DEF InvoiceTypeOK
<1>3. AtWork'
  BY DEF AtWork, InvoiceTypeOK
<1> QED BY <1>1, <1>2, <1>3

LEMMA LeaseExpiresKeeps ==
    ASSUME InvoiceInv, NEW k \in Autos, LeaseExpires(k)
    PROVE  InvoiceInv'
<1> USE Parameters, Ids DEF InvoiceInv, invoice, plan, charges, work, books, stripe, queue,
        LeaseExpires
<1>1. InvoiceBooks' /\ AtWork' /\ ChargeRows' /\ KeyRows' /\ IntentHistory' /\ SeenStatuses'
      /\ FailedOnce' /\ LatestPending' /\ DunningOver' /\ AllOrNothing' /\ WaivedRests'
      /\ OneInPlay'
  BY BooksUntouched DEF AtWork, ChargeRows, KeyRows, IntentHistory, SeenStatuses, WasSo,
     FailedOnce, LatestPending, Pending, DunningOver, AllOrNothing, WaivedRests, Mishap,
     OneInPlay, InPlay
<1>2. InvoiceTypeOK'
  BY DEF InvoiceTypeOK
<1> QED BY <1>1, <1>2

LEMMA PayReserveKeeps ==
    ASSUME InvoiceInv, NEW k \in Keys, Behind(KeyFor[k]) => Mishap("behind"), PayReserve(k)
    PROVE  InvoiceInv'
<1> USE Parameters, Ids DEF InvoiceInv, invoice, plan, charges, work, books, stripe, queue,
        PayReserve, Outstanding
<1>1. AtWork' /\ IntentHistory' /\ DunningOver'
  BY DEF AtWork, IntentHistory, DunningOver
<1>2. InvoiceTypeOK'
  BY DEF InvoiceTypeOK, Statuses
<1>3. InvoiceBooks'
  BY BooksUntouched DEF KeyRows, InvoiceTypeOK
<1>4. ChargeRows'
  BY DEF ChargeRows, InvoiceTypeOK
<1>5. KeyRows'
  BY DEF KeyRows, InvoiceTypeOK
<1>6. SeenStatuses'
  BY DEF SeenStatuses, WasSo, InvoiceTypeOK
<1>7. FailedOnce'
  BY DEF FailedOnce, InvoiceTypeOK
<1>8. LatestPending'
  BY DEF LatestPending, Pending, Claimed, Unsettled, InvoiceTypeOK
<1>9. AllOrNothing'
  BY DEF AllOrNothing, InvoiceTypeOK
<1>10. WaivedRests'
  BY DEF WaivedRests, Mishap, InvoiceTypeOK
<1>11. OneInPlay'
  <2> DEFINE i == KeyFor[k]
  <2> SUFFICES ASSUME given.mishaps \cap {"reopened", "behind", "beside"} = {}
               PROVE  \A p, q \in Intents :
                         InPlay(p)' /\ InPlay(q)' /\ Paying(p) = Paying(q) => p = q
    BY DEF OneInPlay
  <2>1. \A q \in Autos : q[1] = i => ~Pending(q)
    BY DEF Pending
  <2>2. ~Behind(i) /\ \A q \in Keys : KeyFor[q] = i => ~Unsettled(payment[q])
    BY DEF Mishap
  <2>3. \A q \in Intents : Paying(q) = i => ~InPlay(q)
    BY <2>1, <2>2, NothingInPlay
  <2>4. \A q \in Intents : q # k /\ InPlay(q)' => InPlay(q)
    BY DEF InPlay, InvoiceTypeOK
  <2> QED BY <2>3, <2>4 DEF OneInPlay
<1> QED BY <1>1, <1>2, <1>3, <1>4, <1>5, <1>6, <1>7, <1>8, <1>9, <1>10, <1>11

LEMMA PayFailKeeps ==
    ASSUME InvoiceInv, NEW k \in Keys, failures < given.failures, PayFail(k)
    PROVE  InvoiceInv'
<1> USE Parameters, Ids DEF InvoiceInv, invoice, plan, charges, work, books, stripe, queue,
        PayFail
<1>1. AtWork' /\ IntentHistory' /\ DunningOver'
  BY DEF AtWork, IntentHistory, DunningOver
<1>2. InvoiceTypeOK'
  BY DEF InvoiceTypeOK, Statuses
<1>3. InvoiceBooks'
  BY BooksUntouched DEF KeyRows, InvoiceTypeOK
<1>4. ChargeRows'
  BY DEF ChargeRows, InvoiceTypeOK
<1>5. KeyRows'
  BY DEF KeyRows, InvoiceTypeOK
<1>6. SeenStatuses'
  BY DEF SeenStatuses, WasSo, InvoiceTypeOK
<1>7. FailedOnce'
  BY DEF FailedOnce, InvoiceTypeOK
<1>8. LatestPending'
  BY DEF LatestPending, Pending, Claimed, Unsettled, InvoiceTypeOK
<1>9. AllOrNothing'
  BY DEF AllOrNothing, InvoiceTypeOK
<1>10. WaivedRests'
  BY DEF WaivedRests, Mishap, InvoiceTypeOK
<1>11. OneInPlay'
  BY DEF OneInPlay, InPlay, Claimed, InvoiceTypeOK
<1> QED BY <1>1, <1>2, <1>3, <1>4, <1>5, <1>6, <1>7, <1>8, <1>9, <1>10, <1>11

LEMMA PayBeginKeeps ==
    ASSUME InvoiceInv, NEW k \in Keys, PayBegin(k)
    PROVE  InvoiceInv'
<1> USE Parameters, Ids DEF InvoiceInv, invoice, plan, charges, work, books, stripe, queue,
        PayBegin
<1>1. InvoiceBooks' /\ AtWork' /\ ChargeRows' /\ IntentHistory' /\ FailedOnce'
      /\ LatestPending' /\ DunningOver' /\ AllOrNothing'
  BY BooksUntouched DEF AtWork, ChargeRows, IntentHistory, FailedOnce, LatestPending, Pending,
     DunningOver, AllOrNothing
<1>2. InvoiceTypeOK'
  BY DEF InvoiceTypeOK
<1>3. KeyRows'
  BY DEF KeyRows, InvoiceTypeOK
<1>4. SeenStatuses'
  BY DEF SeenStatuses, WasSo, InvoiceTypeOK
<1>5. WaivedRests'
  BY DEF WaivedRests, Mishap, InvoiceTypeOK
<1>6. OneInPlay'
  BY DEF OneInPlay, InPlay, Claimed, InvoiceTypeOK
<1> QED BY <1>1, <1>2, <1>3, <1>4, <1>5, <1>6

LEMMA PayCreateKeeps ==
    ASSUME InvoiceInv, NEW k \in Keys, PayCreate(k)
    PROVE  InvoiceInv'
<1> USE Parameters, Ids DEF InvoiceInv, invoice, plan, charges, work, books, stripe, queue,
        PayCreate
<1>1. InvoiceBooks' /\ FailedOnce' /\ DunningOver' /\ AllOrNothing'
  BY BooksUntouched DEF FailedOnce, DunningOver, AllOrNothing
<1>2. InvoiceTypeOK'
  BY DEF InvoiceTypeOK, Statuses
<1>3. AtWork'
  BY DEF AtWork, InvoiceTypeOK
<1>4. ChargeRows'
  BY DEF ChargeRows, InvoiceTypeOK
<1>5. KeyRows'
  BY DEF KeyRows, InvoiceTypeOK
<1>6. IntentHistory'
  BY DEF IntentHistory, InvoiceTypeOK
<1>7. SeenStatuses'
  BY DEF SeenStatuses, WasSo, InvoiceTypeOK
<1>8. LatestPending'
  BY DEF LatestPending, Pending, Claimed, Unsettled, InvoiceTypeOK
<1>9. WaivedRests'
  BY DEF WaivedRests, Mishap, InvoiceTypeOK
<1>10. OneInPlay'
  BY DEF OneInPlay, InPlay, Claimed, InvoiceTypeOK
<1> QED BY <1>1, <1>2, <1>3, <1>4, <1>5, <1>6, <1>7, <1>8, <1>9, <1>10

LEMMA PayCompleteKeeps ==
    ASSUME InvoiceInv, NEW k \in Keys, PayComplete(k)
    PROVE  InvoiceInv'
<1> USE Parameters, Ids DEF InvoiceInv, invoice, plan, charges, work, books, stripe, queue,
        PayComplete
<1>1. InvoiceBooks' /\ AtWork' /\ ChargeRows' /\ IntentHistory' /\ FailedOnce'
      /\ LatestPending' /\ DunningOver' /\ AllOrNothing'
  BY BooksUntouched DEF AtWork, ChargeRows, IntentHistory, FailedOnce, LatestPending, Pending,
     DunningOver, AllOrNothing
<1>2. InvoiceTypeOK'
  BY DEF InvoiceTypeOK
<1>3. KeyRows'
  BY DEF KeyRows, InvoiceTypeOK
<1>4. SeenStatuses'
  BY DEF SeenStatuses, WasSo, InvoiceTypeOK
<1>5. WaivedRests'
  BY DEF WaivedRests, Mishap, InvoiceTypeOK
<1>6. OneInPlay'
  BY DEF OneInPlay, InPlay, Claimed, InvoiceTypeOK
<1> QED BY <1>1, <1>2, <1>3, <1>4, <1>5, <1>6

LEMMA FetchKeeps ==
    ASSUME InvoiceInv, NEW e \in todo, Fetch(e)
    PROVE  InvoiceInv'
<1> USE Parameters, Ids DEF InvoiceInv, invoice, plan, charges, work, books, stripe, queue,
        Fetch
<1>1. /\ e[1] \in Intents /\ intent[e[1]] \in Statuses
      /\ intent[e[1]] \notin {"none", "requires_action"} /\ changes[e[1]] > 0
  <2>1. e[1] \in Intents /\ e[2] \in 1 .. Changes /\ e[2] <= changes[e[1]]
    BY DEF InvoiceTypeOK, Events, SeenStatuses
  <2> QED BY <2>1 DEF InvoiceTypeOK, IntentHistory, Statuses
<1>2. InvoiceBooks' /\ AtWork' /\ ChargeRows' /\ KeyRows' /\ IntentHistory' /\ FailedOnce'
      /\ LatestPending' /\ DunningOver' /\ AllOrNothing' /\ WaivedRests' /\ OneInPlay'
  BY BooksUntouched DEF AtWork, ChargeRows, KeyRows, IntentHistory, FailedOnce, LatestPending,
     Pending, DunningOver, AllOrNothing, WaivedRests, Mishap, OneInPlay, InPlay
<1>3. InvoiceTypeOK'
  <2>1. fetched' \subseteq Events \X Statuses
    BY <1>1 DEF InvoiceTypeOK
  <2> QED BY <2>1 DEF InvoiceTypeOK
<1>4. SeenStatuses'
  BY <1>1 DEF SeenStatuses, WasSo, InvoiceTypeOK
<1> QED BY <1>2, <1>3, <1>4

LEMMA TakeCashKeeps ==
    ASSUME InvoiceInv, NEW amount \in 1 .. Balance, TakeCash(amount)
    PROVE  InvoiceInv'
<1> USE Parameters, Ids DEF InvoiceInv, invoice, plan, charges, work, books, stripe, queue,
        TakeCash, Balance
<1>1. AtWork' /\ ChargeRows' /\ KeyRows' /\ IntentHistory' /\ SeenStatuses' /\ FailedOnce'
      /\ LatestPending' /\ DunningOver' /\ AllOrNothing' /\ WaivedRests' /\ OneInPlay'
  BY DEF AtWork, ChargeRows, KeyRows, IntentHistory, SeenStatuses, WasSo, FailedOnce,
     LatestPending, Pending, DunningOver, AllOrNothing, WaivedRests, Mishap, OneInPlay, InPlay
<1>2. InvoiceTypeOK'
  <2>1. PendingPayments \in Nat
    BY PricesAddUp DEF PendingPayments, AmountOf
  <2> QED BY <2>1 DEF InvoiceTypeOK
<1>3. InvoiceBooks'
  <2>1. AmountOf({q \in Intents : payment[q] = "succeeded"}) \in Nat
    BY PricesAddUp
  <2>2. paid' = cash' + AmountOf({q \in Intents : payment[q] = "succeeded"})
    BY <2>1 DEF InvoiceBooks, InvoiceTypeOK
  <2>3. /\ state' = state /\ total' = total /\ got' = got /\ fees' = fees /\ payment' = payment
        /\ Mishap("reopened")' <=> Mishap("reopened")
    BY DEF Mishap
  <2> QED BY ONLY <2>2, <2>3, InvoiceBooks DEF InvoiceBooks
<1> QED BY <1>1, <1>2, <1>3

LEMMA ApplyCreditKeeps ==
    ASSUME InvoiceInv, NEW amount \in 1 .. Balance, ApplyCredit(amount)
    PROVE  InvoiceInv'
<1> USE Parameters, Ids DEF InvoiceInv, invoice, plan, charges, work, books, stripe, queue,
        ApplyCredit, Balance
<1>1. InvoiceBooks' /\ AtWork' /\ ChargeRows' /\ KeyRows' /\ IntentHistory' /\ SeenStatuses'
      /\ FailedOnce' /\ LatestPending' /\ DunningOver' /\ AllOrNothing' /\ WaivedRests'
      /\ OneInPlay'
  BY BooksUntouched DEF AtWork, ChargeRows, KeyRows, IntentHistory, SeenStatuses, WasSo,
     FailedOnce, LatestPending, Pending, DunningOver, AllOrNothing, WaivedRests, Mishap,
     OneInPlay, InPlay
<1>2. InvoiceTypeOK'
  BY DEF InvoiceTypeOK
<1> QED BY <1>1, <1>2

LEMMA WaiveKeeps ==
    ASSUME InvoiceInv, NEW i \in Installments, ~Behind(i), Waive(i)
    PROVE  InvoiceInv'
<1> USE Parameters, Ids DEF InvoiceInv, invoice, plan, charges, work, books, stripe, queue,
        Waive, StaffMay, Outstanding, Open, Balance
<1>1. got[i] = 0 /\ total' = total - Amount[i] /\ Amount[i] \in Nat \ {0}
  <2>1. Amount[i] \in Nat \ {0} /\ total \in Nat
    BY DEF InvoiceTypeOK
  <2>2. got[i] = 0
    BY <2>1 DEF AllOrNothing
  <2> QED BY <2>1, <2>2
<1>2. \A q \in Intents : ~Unsettled(payment[q])
  BY PricesAddUp DEF PendingPayments, AmountOf
<1>3. AtWork' /\ ChargeRows' /\ KeyRows' /\ IntentHistory' /\ SeenStatuses' /\ FailedOnce'
      /\ AllOrNothing' /\ OneInPlay'
  BY DEF AtWork, ChargeRows, KeyRows, IntentHistory, SeenStatuses, WasSo, FailedOnce,
     AllOrNothing, OneInPlay, InPlay
<1>4. InvoiceTypeOK'
  BY <1>1 DEF InvoiceTypeOK
<1>5. InvoiceBooks'
  <2> DEFINE rest == {j \in Installments : state[j] # "waived"}
  <2>1. {j \in Installments : state'[j] # "waived"} = rest \ {i}
    BY DEF InvoiceTypeOK
  <2>2. SumFunctionOnSet(Amount, rest) = Amount[i] + SumFunctionOnSet(Amount, rest \ {i})
    <3>1. IsFiniteSet(rest) /\ i \in rest /\ \A j \in rest : Amount[j] \in Int
      BY FiniteIds, FS_Subset
    <3> QED BY <3>1, SumRemove
  <2>3. SumFunctionOnSet(Amount, rest \ {i}) \in Nat
    <3>1. IsFiniteSet(rest \ {i}) /\ \A j \in rest \ {i} : Amount[j] \in Nat
      BY FiniteIds, FS_Subset
    <3> QED BY <3>1, SumType
  <2>4. Cardinality(fees) \in Nat
    BY FiniteIds, FS_Subset, FS_CardinalityType DEF InvoiceTypeOK
  <2>5. LateFee * Cardinality(fees) \in Nat
    BY <2>4
  <2>6. ~Mishap("reopened") =>
           total' = SumFunctionOnSet(Amount, rest \ {i}) + LateFee * Cardinality(fees)
    BY <1>1, <2>2, <2>3, <2>5 DEF InvoiceBooks
  <2>7. \A j \in Installments : state'[j] = "paid" <=> state[j] = "paid"
    BY DEF InvoiceTypeOK
  <2>8. /\ paid' = paid /\ cash' = cash /\ got' = got /\ fees' = fees /\ payment' = payment
        /\ Mishap("reopened")' <=> Mishap("reopened")
    BY DEF Mishap
  <2> QED BY ONLY <2>1, <2>6, <2>7, <2>8, InvoiceBooks DEF InvoiceBooks
<1>6. LatestPending'
  BY <1>1, <1>2 DEF LatestPending, Pending, Claimed, Unsettled, InvoiceTypeOK
<1>7. DunningOver'
  BY <1>1, <1>2 DEF DunningOver, Claimed, InvoiceTypeOK
<1>8. WaivedRests'
  <2>1. \A q \in Autos : q[1] = i => ~Pending(q)
    BY DEF LatestPending
  <2>2. \A q \in Intents : Paying(q) = i => ~InPlay(q)
    BY <1>1, <1>2, <2>1, NothingInPlay
  <2>3. \A q \in Keys : KeyFor[q] = i => /\ intent[q] \in {"none", "failed", "canceled"}
                                         /\ key[q] \notin {"reserved", "external_started"}
    BY <2>2 DEF InPlay, InvoiceTypeOK, Statuses
  <2> QED BY <2>3 DEF WaivedRests, Mishap, InvoiceTypeOK
<1> QED BY <1>3, <1>4, <1>5, <1>6, <1>7, <1>8

LEMMA ChangeDueDateKeeps ==
    ASSUME InvoiceInv, NEW i \in Installments, ChangeDueDate(i)
    PROVE  InvoiceInv'
<1> USE Parameters, Ids DEF InvoiceInv, invoice, plan, charges, work, books, stripe, queue,
        ChangeDueDate
<1>1. InvoiceBooks' /\ AtWork' /\ ChargeRows' /\ KeyRows' /\ IntentHistory' /\ SeenStatuses'
      /\ FailedOnce' /\ LatestPending' /\ AllOrNothing' /\ WaivedRests' /\ OneInPlay'
  BY BooksUntouched DEF AtWork, ChargeRows, KeyRows, IntentHistory, SeenStatuses, WasSo,
     FailedOnce, LatestPending, Pending, AllOrNothing, WaivedRests, Mishap, OneInPlay, InPlay
<1>2. InvoiceTypeOK'
  BY DEF InvoiceTypeOK
<1>3. DunningOver'
  BY DEF DunningOver, Claimed, InvoiceTypeOK
<1> QED BY <1>1, <1>2, <1>3

LEMMA SwitchMethodKeeps ==
    ASSUME InvoiceInv, NEW i \in Installments, SwitchMethod(i)
    PROVE  InvoiceInv'
<1> USE Parameters, Ids DEF InvoiceInv, invoice, plan, charges, work, books, stripe, queue,
        SwitchMethod, StaffMay, Outstanding
<1>1. InvoiceBooks' /\ AtWork' /\ ChargeRows' /\ KeyRows' /\ IntentHistory' /\ SeenStatuses'
      /\ FailedOnce' /\ LatestPending' /\ AllOrNothing' /\ WaivedRests' /\ OneInPlay'
  BY BooksUntouched DEF AtWork, ChargeRows, KeyRows, IntentHistory, SeenStatuses, WasSo,
     FailedOnce, LatestPending, Pending, AllOrNothing, WaivedRests, Mishap, OneInPlay, InPlay
<1>2. InvoiceTypeOK'
  BY DEF InvoiceTypeOK
<1>3. DunningOver'
  BY DEF DunningOver, Claimed, InvoiceTypeOK
<1> QED BY <1>1, <1>2, <1>3

LEMMA AuthorizeKeeps ==
    ASSUME InvoiceInv, Authorize
    PROVE  InvoiceInv'
<1> USE Parameters, Ids DEF InvoiceInv, invoice, plan, charges, work, books, stripe, queue,
        Authorize
<1>1. InvoiceBooks' /\ AtWork' /\ ChargeRows' /\ KeyRows' /\ IntentHistory' /\ SeenStatuses'
      /\ FailedOnce' /\ LatestPending' /\ DunningOver' /\ AllOrNothing' /\ WaivedRests'
      /\ OneInPlay'
  BY BooksUntouched DEF AtWork, ChargeRows, KeyRows, IntentHistory, SeenStatuses, WasSo,
     FailedOnce, LatestPending, Pending, DunningOver, AllOrNothing, WaivedRests, Mishap,
     OneInPlay, InPlay
<1>2. InvoiceTypeOK'
  BY DEF InvoiceTypeOK
<1> QED BY <1>1, <1>2

LEMMA RevokeKeeps ==
    ASSUME InvoiceInv, Revoke
    PROVE  InvoiceInv'
<1> USE Parameters, Ids DEF InvoiceInv, invoice, plan, charges, work, books, stripe, queue,
        Revoke
<1>1. InvoiceBooks' /\ AtWork' /\ ChargeRows' /\ KeyRows' /\ IntentHistory' /\ SeenStatuses'
      /\ FailedOnce' /\ LatestPending' /\ AllOrNothing' /\ WaivedRests' /\ OneInPlay'
  BY BooksUntouched DEF AtWork, ChargeRows, KeyRows, IntentHistory, SeenStatuses, WasSo,
     FailedOnce, LatestPending, Pending, AllOrNothing, WaivedRests, Mishap, OneInPlay, InPlay
<1>2. InvoiceTypeOK'
  BY DEF InvoiceTypeOK
<1>3. DunningOver'
  BY DEF DunningOver, Claimed, InvoiceTypeOK
<1> QED BY <1>1, <1>2, <1>3

LEMMA VoidKeeps ==
    ASSUME InvoiceInv, Void
    PROVE  InvoiceInv'
<1> USE Parameters, Ids DEF InvoiceInv, invoice, plan, charges, work, books, stripe, queue, Void
<1>1. InvoiceBooks' /\ AtWork' /\ ChargeRows' /\ KeyRows' /\ IntentHistory' /\ SeenStatuses'
      /\ FailedOnce' /\ LatestPending' /\ DunningOver' /\ AllOrNothing' /\ WaivedRests'
      /\ OneInPlay'
  BY BooksUntouched DEF AtWork, ChargeRows, KeyRows, IntentHistory, SeenStatuses, WasSo,
     FailedOnce, LatestPending, Pending, DunningOver, AllOrNothing, WaivedRests, Mishap,
     OneInPlay, InPlay
<1>2. InvoiceTypeOK'
  BY DEF InvoiceTypeOK
<1> QED BY <1>1, <1>2

LEMMA FallsDueKeeps ==
    ASSUME InvoiceInv, NEW i \in Installments, FallsDue(i)
    PROVE  InvoiceInv'
<1> USE Parameters, Ids DEF InvoiceInv, invoice, plan, charges, work, books, stripe, queue,
        FallsDue
<1>1. InvoiceBooks' /\ AtWork' /\ ChargeRows' /\ KeyRows' /\ IntentHistory' /\ SeenStatuses'
      /\ FailedOnce' /\ LatestPending' /\ AllOrNothing' /\ WaivedRests' /\ OneInPlay'
  BY BooksUntouched DEF AtWork, ChargeRows, KeyRows, IntentHistory, SeenStatuses, WasSo,
     FailedOnce, LatestPending, Pending, AllOrNothing, WaivedRests, Mishap, OneInPlay, InPlay
<1>2. InvoiceTypeOK'
  BY DEF InvoiceTypeOK
<1>3. DunningOver'
  BY DEF DunningOver, Claimed, InvoiceTypeOK
<1> QED BY <1>1, <1>2, <1>3
\* A worker at the call has an attempt without an intent.
LEMMA BeforeTheCall ==
    ASSUME InvoiceInv, NEW w \in Workers, step[w] = "create"
    PROVE  LET k == on[w] IN
           /\ k \in Autos /\ k \in Intents /\ k \notin Keys
           /\ intent[k] = "none" /\ charge[k] = "external_started" /\ changes[k] < Changes
<1>1. on[w] \in Autos /\ intent[on[w]] = "none" /\ charge[on[w]] = "external_started"
  BY DEF InvoiceInv, AtWork
<1>2. changes[on[w]] = 0
  BY <1>1, Ids DEF InvoiceInv, IntentHistory
<1> QED BY <1>1, <1>2, Ids, Parameters

LEMMA CreateKeeps ==
    ASSUME InvoiceInv, NEW w \in Workers, Create(w)
    PROVE  InvoiceInv'
<1> DEFINE k == on[w]
<1>1. /\ k \in Autos /\ k \in Intents /\ k \notin Keys
      /\ intent[k] = "none" /\ charge[k] = "external_started" /\ changes[k] < Changes
  BY BeforeTheCall DEF Create
<1>2. PICK s \in {"processing", "succeeded"} : Change(k, s)
  BY DEF Create
<1>3. /\ UNCHANGED <<given, invoice, plan, charges, key, books, fetched>>
      /\ on' = on /\ failures' = failures /\ step' = [step EXCEPT ![w] = "record"]
  BY DEF Create, charges
<1>4. /\ intent' \in [Intents -> Statuses] /\ changes' \in [Intents -> 0 .. Changes]
      /\ todo' \subseteq Events
      /\ InvoiceBooks' /\ ChargeRows' /\ KeyRows' /\ IntentHistory' /\ SeenStatuses'
      /\ FailedOnce' /\ LatestPending' /\ DunningOver' /\ AllOrNothing' /\ WaivedRests'
      /\ OneInPlay'
  BY <1>1, <1>2, <1>3, ChangeKeeps
<1>5. InvoiceTypeOK'
  BY <1>3, <1>4 DEF InvoiceInv, InvoiceTypeOK, invoice, plan, charges, books
<1>6. AtWork'
  <2>1. intent'[k] = s /\ \A q \in Autos : q # k => intent'[q] = intent[q]
    BY <1>1, <1>2, Ids DEF Change, InvoiceInv, InvoiceTypeOK
  <2>2. \A v \in Workers : step'[v] = IF v = w THEN "record" ELSE step[v]
    BY <1>3 DEF InvoiceInv, InvoiceTypeOK
  <2>3. step[w] = "create" /\ charge' = charge
    BY <1>3 DEF Create, charges
  <2> QED BY <1>1, <1>3, <2>1, <2>2, <2>3 DEF InvoiceInv, AtWork
<1> QED BY <1>4, <1>5, <1>6 DEF InvoiceInv

LEMMA DeclinedKeeps ==
    ASSUME InvoiceInv, NEW w \in Workers, Declined(w)
    PROVE  InvoiceInv'
<1> DEFINE k == on[w]
<1>1. /\ k \in Autos /\ k \in Intents /\ k \notin Keys
      /\ intent[k] = "none" /\ charge[k] = "external_started" /\ changes[k] < Changes
  BY BeforeTheCall DEF Declined
<1>2. /\ UNCHANGED <<given, invoice, plan, charges, key, books, fetched>>
      /\ Change(k, "failed") /\ failures' = failures
      /\ on' = [on EXCEPT ![w] = Nobody] /\ step' = [step EXCEPT ![w] = "idle"]
  BY DEF Declined, Idle, charges
<1>3. /\ intent' \in [Intents -> Statuses] /\ changes' \in [Intents -> 0 .. Changes]
      /\ todo' \subseteq Events
      /\ InvoiceBooks' /\ ChargeRows' /\ KeyRows' /\ IntentHistory' /\ SeenStatuses'
      /\ FailedOnce' /\ LatestPending' /\ DunningOver' /\ AllOrNothing' /\ WaivedRests'
      /\ OneInPlay'
  BY <1>1, <1>2, ChangeKeeps
<1>4. InvoiceTypeOK'
  BY <1>2, <1>3 DEF InvoiceInv, InvoiceTypeOK, invoice, plan, charges, books
<1>5. AtWork'
  <2>1. \A q \in Autos : q # k => intent'[q] = intent[q]
    BY <1>1, <1>2, Ids DEF Change, InvoiceInv, InvoiceTypeOK
  <2>2. \A v \in Workers : /\ step'[v] = IF v = w THEN "idle" ELSE step[v]
                           /\ v # w => on'[v] = on[v]
    BY <1>2 DEF InvoiceInv, InvoiceTypeOK
  <2>3. step[w] = "create" /\ charge' = charge
    BY <1>2 DEF Declined, charges
  <2> QED BY <1>1, <2>1, <2>2, <2>3 DEF InvoiceInv, AtWork
<1> QED BY <1>3, <1>4, <1>5 DEF InvoiceInv

LEMMA StripeChangeKeeps ==
    ASSUME InvoiceInv, NEW k \in Intents, NEW s \in Statuses, Reopens(k) => Mishap("reopened"),
           StripeChange(k, s)
    PROVE  InvoiceInv'
<1>1. /\ UNCHANGED <<given, invoice, plan, charges, work, key, books, fetched>>
      /\ Change(k, s) /\ changes[k] < Changes
  BY DEF StripeChange
<1>2. /\ s \in {"processing", "succeeded", "failed", "canceled"}
      /\ intent[k] = "processing" => s # "processing"
  BY DEF StripeChange, StripeMoves, InvoiceInv, InvoiceTypeOK, Statuses
<1>3. /\ intent' \in [Intents -> Statuses] /\ changes' \in [Intents -> 0 .. Changes]
      /\ todo' \subseteq Events
      /\ InvoiceBooks' /\ ChargeRows' /\ KeyRows' /\ IntentHistory' /\ SeenStatuses'
      /\ FailedOnce' /\ LatestPending' /\ DunningOver' /\ AllOrNothing' /\ WaivedRests'
      /\ OneInPlay'
  <2>1. k \in Autos => intent[k] = "processing" /\ s # "processing"
    BY <1>2 DEF StripeChange
  <2>2. k \in Keys => key[k] = "completed" /\ s \in StripeMoves[intent[k]]
    BY DEF StripeChange
  <2> QED BY <1>1, <1>2, <2>1, <2>2, ChangeKeeps
<1>4. InvoiceTypeOK'
  BY <1>1, <1>3 DEF InvoiceInv, InvoiceTypeOK, invoice, plan, charges, work, books
<1>5. AtWork'
  <2>1. \A q \in Autos : intent'[q] = "none" <=> intent[q] = "none"
    <3>1. k \in Autos => intent[k] = "processing"
      BY DEF StripeChange
    <3> QED BY <1>1, <1>2, <3>1, Ids DEF Change, InvoiceInv, InvoiceTypeOK
  <2> QED BY <1>1, <2>1 DEF InvoiceInv, AtWork, charges, work
<1> QED BY <1>3, <1>4, <1>5 DEF InvoiceInv

-----------------------------------------------------------------------------
(* Events.                                                                 *)

\* What a handler does to the rows of a payment, whatever comes of it: a
\* status that was the intent's is written over one that may still change.
LEMMA RowsKeep ==
    ASSUME InvoiceInv, NEW e \in todo, NEW f \in fetched, f[1] = e, ~Refused(e[1], f[2]),
           fetched' = fetched \ {f}, todo' = todo \ {e},
           payment' = [payment EXCEPT ![e[1]] = f[2]],
           UNCHANGED <<given, charges, work, key, cash, stripe, tries>>
    PROVE  LET k == e[1]
               s == f[2]
           IN
           /\ k \in Intents /\ s \in {"processing", "succeeded", "failed", "canceled"}
           /\ WasSo(k, s) /\ payment' \in [Intents -> Statuses]
           /\ AtWork' /\ ChargeRows' /\ KeyRows' /\ IntentHistory' /\ SeenStatuses'
           /\ FailedOnce' /\ OneInPlay'
           /\ \A q \in Autos : Pending(q)' => Pending(q)
           /\ k \in Autos /\ payment[k] # s /\ s # "processing" => Pending(k) /\ ~Pending(k)'
<1> USE Parameters, Ids DEF charges, work, stripe
<1> DEFINE k == e[1]
           s == f[2]
<1>1. /\ k \in Intents /\ s \in Statuses /\ WasSo(k, s) /\ e \in Events
  BY DEF InvoiceInv, InvoiceTypeOK, SeenStatuses, Events
<1>2. s \in {"processing", "succeeded", "failed", "canceled"}
  BY <1>1 DEF WasSo, Statuses
<1>3. /\ payment' \in [Intents -> Statuses]
      /\ \A q \in Intents : payment'[q] = IF q = k THEN s ELSE payment[q]
  BY <1>1 DEF InvoiceInv, InvoiceTypeOK
<1>4. /\ payment[k] # "none" /\ (k \in Keys => key[k] = "completed")
      /\ payment[k] \in {"succeeded", "canceled"} => s = payment[k]
  BY DEF Refused
<1>5. AtWork'
  BY DEF InvoiceInv, AtWork
<1>6. ChargeRows'
  BY <1>1, <1>2, <1>3, <1>4 DEF InvoiceInv, ChargeRows
<1>7. KeyRows'
  <2>1. k \in Keys => intent[k] # "requires_action"
    BY <1>1 DEF InvoiceInv, IntentHistory, WasSo
  <2> QED BY <1>1, <1>2, <1>3, <1>4, <2>1 DEF InvoiceInv, KeyRows
<1>8. IntentHistory'
  BY DEF InvoiceInv, IntentHistory
<1>9. SeenStatuses'
  BY <1>1, <1>3, <1>4 DEF InvoiceInv, SeenStatuses, WasSo
<1>10. ASSUME k \in Autos, NEW d \in todo, NEW c \in todo, d[1] = k, c[1] = k, d # e, c # e
       PROVE  c = d
  <2>1. changes[k] \in 0 .. Changes /\ changes[k] <= 2
    BY <1>1, <1>10 DEF InvoiceInv, InvoiceTypeOK, IntentHistory
  <2>2. \A a \in todo : a[1] = k => a[2] <= changes[k] /\ a \in Intents \X (1 .. Changes)
    BY DEF InvoiceInv, InvoiceTypeOK, SeenStatuses, Events
  <2>3. \A a \in todo : a[1] = k => a[2] \in {1, 2} /\ a = <<k, a[2]>>
    BY <2>1, <2>2
  <2>4. d[2] = c[2]
    BY <1>10, <2>3
  <2> QED BY <1>10, <2>3, <2>4
<1>11. FailedOnce'
  BY <1>3, <1>10 DEF InvoiceInv, FailedOnce
<1>12. OneInPlay'
  BY DEF InvoiceInv, OneInPlay, InPlay
<1>13. ASSUME k \in Autos,
       payment[k] # s PROVE Unsettled(payment[k]) \/ (payment[k] = "failed" /\ s = "processing")
  <2>1. payment[k] \in {"requires_action", "processing", "failed"}
    BY <1>1, <1>4, <1>13 DEF InvoiceInv, InvoiceTypeOK, Statuses
  <2>2. payment[k] = "failed" => WasSo(k, "failed")
    BY <1>1, <1>13 DEF InvoiceInv, SeenStatuses
  <2> QED BY <1>1, <1>2, <1>13, <2>1, <2>2 DEF WasSo, Unsettled
<1>14. ASSUME k \in Autos, Unsettled(payment[k]) PROVE Pending(k)
  <2>1. \E d \in todo : d[1] = k
    OBVIOUS
  <2> QED BY <1>14, <2>1 DEF Pending
<1>15. ASSUME NEW q \in Autos, Pending(q)' PROVE Pending(q)
  <2>1. CASE q # k
    BY <1>3, <1>15, <2>1 DEF Pending
  <2>2. CASE q = k /\ ~Unsettled(payment[k])
    <3>1. CASE payment[k] = s
      BY <1>1, <1>3, <1>15, <2>2, <3>1 DEF Pending
    <3>2. CASE payment[k] # s
      <4>1. payment[k] = "failed" /\ s = "processing"
        BY <1>13, <2>2, <3>2
      <4>2. intent[k] = "failed"
        BY <1>1, <2>2, <4>1 DEF InvoiceInv, SeenStatuses, WasSo
      <4>3. ~ \E d \in todo' : d[1] = k
        BY <2>2, <4>1 DEF InvoiceInv, FailedOnce
      <4>4. ~Claimed(charge[k])
        BY <1>4, <2>2 DEF InvoiceInv, ChargeRows, Claimed
      <4> QED BY <1>15, <2>2, <4>2, <4>3, <4>4 DEF Pending
    <3> QED BY <3>1, <3>2
  <2> QED BY <1>14, <2>1, <2>2
<1>16. ASSUME k \in Autos, payment[k] # s, s # "processing" PROVE Pending(k) /\ ~Pending(k)'
  <2>1. ~Claimed(charge[k])
    BY <1>4, <1>16 DEF InvoiceInv, ChargeRows, Claimed
  <2>2. ~Unsettled(payment'[k])
    BY <1>1, <1>2, <1>3, <1>16 DEF Unsettled
  <2> QED BY <1>13, <1>14, <1>16, <2>1, <2>2 DEF Pending
<1> QED BY <1>1, <1>2, <1>3, <1>5, <1>6, <1>7, <1>8, <1>9, <1>11, <1>12, <1>15, <1>16

\* An event refused leaves only what the handler fetched.
LEMMA RefusedKeeps ==
    ASSUME InvoiceInv, NEW f \in fetched, fetched' = fetched \ {f},
           UNCHANGED <<given, invoice, plan, charges, work, key, books, stripe, todo>>
    PROVE  InvoiceInv'
<1> USE DEF InvoiceInv, invoice, plan, charges, work, books, stripe
<1>1. InvoiceTypeOK'
  BY DEF InvoiceTypeOK
<1>2. InvoiceBooks'
  BY BooksUntouched
<1>3. AtWork' /\ ChargeRows' /\ KeyRows' /\ IntentHistory' /\ FailedOnce' /\ LatestPending'
      /\ DunningOver' /\ AllOrNothing' /\ WaivedRests' /\ OneInPlay'
  BY DEF AtWork, ChargeRows, KeyRows, IntentHistory, FailedOnce, LatestPending, Pending,
         DunningOver, AllOrNothing, WaivedRests, Mishap, OneInPlay, InPlay
<1>4. SeenStatuses'
  BY DEF SeenStatuses, WasSo
<1> QED BY <1>1, <1>2, <1>3, <1>4

\* The first success of a payment: its installment is neither paid nor waived,
\* unless a failed intent goes on behind a waiver, and becomes paid.
LEMMA PaidKeeps ==
    ASSUME InvoiceInv, NEW e \in todo, NEW f \in fetched, f[1] = e, ~Refused(e[1], f[2]),
           fetched' = fetched \ {f}, todo' = todo \ {e},
           payment' = [payment EXCEPT ![e[1]] = f[2]],
           payment[e[1]] # f[2], f[2] = "succeeded", Paid(e[1]),
           UNCHANGED <<given, charges, work, key, cash, stripe>>
    PROVE  InvoiceInv'
<1> DEFINE k == e[1]
           i == Paying(k)
           done == {q \in Intents : payment[q] = "succeeded"}
<1>1. /\ paid' = paid + Amount[i] /\ got' = [got EXCEPT ![i] = @ + Amount[i]]
      /\ state' = [state EXCEPT ![i] = "paid"] /\ due' = due \ {i}
      /\ UNCHANGED <<total, credited, voided, autopay, tries, fees, mandate>>
  BY DEF Paid
<1>2. /\ k \in Intents /\ WasSo(k, "succeeded") /\ payment' \in [Intents -> Statuses]
      /\ AtWork' /\ ChargeRows' /\ KeyRows' /\ IntentHistory' /\ SeenStatuses'
      /\ FailedOnce' /\ OneInPlay'
      /\ \A q \in Autos : Pending(q)' => Pending(q)
      /\ k \in Autos => Pending(k)
  BY <1>1, RowsKeep
<1>3. /\ i \in Installments /\ Amount[i] \in Nat \ {0} /\ Price[k] = Amount[i]
      /\ got[i] = 0 /\ Amount[i] <= Balance
  <2>1. got[i] \in Nat /\ ~(got[i] > 0) /\ ~(Balance < Amount[i])
    BY <1>2, Ids DEF Refused, InvoiceInv, InvoiceTypeOK
  <2>2. Balance \in Int
    BY DEF Balance, InvoiceInv, InvoiceTypeOK
  <2> QED BY <1>2, <2>1, <2>2, Ids, Parameters
<1>4. /\ \A j \in Installments : /\ got'[j] = IF j = i THEN Amount[i] ELSE got[j]
                                 /\ state'[j] = IF j = i THEN "paid" ELSE state[j]
      /\ \A q \in Intents : payment'[q] = IF q = k THEN "succeeded" ELSE payment[q]
  BY <1>1, <1>2, <1>3 DEF InvoiceInv, InvoiceTypeOK
<1>5. InvoiceTypeOK'
  <2>1. /\ got' \in [Installments -> Nat]
        /\ state' \in [Installments -> {"scheduled", "processing", "paid", "failed", "waived"}]
        /\ due' \subseteq Installments
        /\ paid' \in Nat /\ paid' + credited' <= total'
    BY <1>1, <1>3 DEF InvoiceInv, InvoiceTypeOK, Balance
  <2>2. fetched' \subseteq Events \X Statuses /\ todo' \subseteq Events
    BY DEF InvoiceInv, InvoiceTypeOK
  <2> QED BY <1>1, <1>2, <2>1, <2>2 DEF InvoiceInv, InvoiceTypeOK, charges, work, stripe
<1>6. ~Mishap("reopened") => state[i] # "waived"
  <2>1. k \in Autos => state[i] \in {"processing", "paid"}
    BY <1>2, Ids DEF InvoiceInv, LatestPending
  <2>2. k \in Keys /\ ~Mishap("reopened") => state[i] # "waived"
    BY <1>2, Ids DEF InvoiceInv, WaivedRests, WasSo
  <2> QED BY <1>2, <2>1, <2>2, Ids
<1>7. /\ AmountOf({q \in Intents : payment'[q] = "succeeded"}) = Amount[i] + AmountOf(done)
      /\ AmountOf(done) \in Nat
  <2>1. {q \in Intents : payment'[q] = "succeeded"} = done \cup {k} /\ k \notin done
    BY <1>2, <1>4
  <2> QED BY <1>2, <1>3, <2>1, PricesAddUp
<1>8. ASSUME NEW j \in Installments
      PROVE  got'[j] = AmountOf({q \in Intents : payment'[q] = "succeeded" /\ Paying(q) = j})
  <2> DEFINE old == {q \in Intents : payment[q] = "succeeded" /\ Paying(q) = j}
  <2>1. got[j] = AmountOf(old)
    BY DEF InvoiceInv, InvoiceBooks
  <2>2. CASE j = i
    <3>1. {q \in Intents : payment'[q] = "succeeded" /\ Paying(q) = j} = old \cup {k}
          /\ k \notin old
      BY <1>2, <1>4, <2>2
    <3>2. AmountOf(old \cup {k}) = Price[k] + AmountOf(old)
      BY <1>2, <3>1, PricesAddUp
    <3>3. AmountOf(old) = 0 /\ got'[j] = Amount[i]
      BY <1>3, <1>4, <2>1, <2>2
    <3>4. Price[k] = Amount[i] /\ Amount[i] + 0 = Amount[i]
      BY <1>3
    <3> QED BY <3>1, <3>2, <3>3, <3>4
  <2>3. CASE j # i
    <3>1. {q \in Intents : payment'[q] = "succeeded" /\ Paying(q) = j} = old
      BY <1>4, <2>3
    <3> QED BY <1>4, <2>1, <2>3, <3>1
  <2> QED BY <2>2, <2>3
<1>9. InvoiceBooks'
  <2>1. paid' = cash' + AmountOf({q \in Intents : payment'[q] = "succeeded"})
    BY <1>1, <1>3, <1>7 DEF InvoiceInv, InvoiceTypeOK, InvoiceBooks
  <2>2. ASSUME NEW j \in Installments PROVE state'[j] = "paid" <=> got'[j] = Amount[j]
    <3>1. state[j] = "paid" <=> got[j] = Amount[j]
      BY DEF InvoiceInv, InvoiceBooks
    <3> QED BY <1>4, <3>1
  <2>3. ~Mishap("reopened") => {j \in Installments : state'[j] # "waived"}
                                  = {j \in Installments : state[j] # "waived"}
    BY <1>4, <1>6
  <2>4. total' = total /\ fees' = fees /\ (Mishap("reopened")' <=> Mishap("reopened"))
    BY <1>1 DEF Mishap
  <2> QED BY <1>8, <2>1, <2>2, <2>3, <2>4 DEF InvoiceInv, InvoiceBooks
<1>10. LatestPending'
  BY <1>1, <1>2, <1>4, Ids DEF InvoiceInv, LatestPending
<1>11. DunningOver'
  BY <1>1, <1>3, <1>4 DEF InvoiceInv, InvoiceTypeOK, DunningOver, charges
<1>12. AllOrNothing'
  BY <1>3, <1>4, Ids DEF InvoiceInv, AllOrNothing
<1>13. WaivedRests'
  BY <1>4, Ids DEF InvoiceInv, WaivedRests, Mishap, stripe
<1> QED BY <1>2, <1>5, <1>9, <1>10, <1>11, <1>12, <1>13 DEF InvoiceInv

\* The failure or cancellation of a charge ends the turn of its installment:
\* it was the only charge pending, so none is, and autopay may stop.
LEMMA UnpaidKeeps ==
    ASSUME InvoiceInv, NEW e \in todo, NEW f \in fetched, f[1] = e, ~Refused(e[1], f[2]),
           fetched' = fetched \ {f}, todo' = todo \ {e},
           payment' = [payment EXCEPT ![e[1]] = f[2]],
           payment[e[1]] # f[2], f[2] \in {"failed", "canceled"}, e[1] \in Autos,
           Unpaid(e[1], f[2]),
           UNCHANGED <<given, charges, work, key, cash, stripe>>
    PROVE  InvoiceInv'
<1> DEFINE k == e[1]
           s == f[2]
           i == Paying(k)
<1>1. UNCHANGED <<paid, credited, voided, got, tries, mandate>>
  BY DEF Unpaid, invoice, plan
<1>2. /\ k \in Intents /\ WasSo(k, s) /\ payment' \in [Intents -> Statuses]
      /\ AtWork' /\ ChargeRows' /\ KeyRows' /\ IntentHistory' /\ SeenStatuses'
      /\ FailedOnce' /\ OneInPlay'
      /\ \A q \in Autos : Pending(q)' => Pending(q)
      /\ Pending(k) /\ ~Pending(k)'
  BY <1>1, RowsKeep
<1>3. /\ i \in Installments /\ i = k[1] /\ k[2] = tries[i] /\ k = <<i, k[2]>>
      /\ state[i] \in {"processing", "paid"}
  BY <1>2, Ids DEF InvoiceInv, LatestPending
<1>4. \A q \in Autos : q[1] = i => ~Pending(q)'
  <2>1. ASSUME NEW q \in Autos, q[1] = i, Pending(q) PROVE q = k
    <3>1. q[2] = tries[i] /\ q = <<q[1], q[2]>>
      BY <2>1, Ids DEF InvoiceInv, LatestPending
    <3> QED BY <1>3, <2>1, <3>1
  <2> QED BY <1>2, <2>1
<1>5. \A q \in Intents : payment'[q] = "succeeded" <=> payment[q] = "succeeded"
  BY <1>2 DEF InvoiceInv, InvoiceTypeOK, Refused
<1>6. fetched' \subseteq Events \X Statuses /\ todo' \subseteq Events
  BY DEF InvoiceInv, InvoiceTypeOK
<1>7. CASE state[i] = "paid"
  <2>1. UNCHANGED <<invoice, plan>>
    BY <1>7 DEF Unpaid
  <2>2. InvoiceTypeOK'
    BY <1>2, <1>6, <2>1 DEF InvoiceInv, InvoiceTypeOK, invoice, plan, charges, work, stripe
  <2>3. InvoiceBooks'
    BY <1>5, <2>1, BooksUntouched DEF InvoiceInv, invoice, plan
  <2>4. LatestPending'
    BY <1>2, <2>1 DEF InvoiceInv, LatestPending, plan
  <2>5. DunningOver'
    BY <2>1 DEF InvoiceInv, DunningOver, plan, charges
  <2>6. AllOrNothing'
    BY <1>5, <2>1 DEF InvoiceInv, AllOrNothing, plan
  <2>7. WaivedRests'
    BY <2>1 DEF InvoiceInv, WaivedRests, Mishap, plan, stripe
  <2> QED BY <1>2, <2>2, <2>3, <2>4, <2>5, <2>6, <2>7 DEF InvoiceInv
<1>8. CASE state[i] # "paid"
  <2>1. state[i] = "processing" /\ i \notin fees
    BY <1>3, <1>8 DEF InvoiceInv, DunningOver
  <2>2. PICK again \in BOOLEAN :
          /\ state' = [state EXCEPT ![i] = "failed"]
          /\ autopay' = [autopay EXCEPT ![i] = again]
          /\ due' = due \ {i}
          /\ \/ ~again /\ fees' = fees \cup {i} /\ total' = total + LateFee
             \/ fees' = fees /\ total' = total
    BY <1>8 DEF Unpaid
  <2>3. /\ \A j \in Installments : state'[j] = IF j = i THEN "failed" ELSE state[j]
        /\ \A j \in Installments : autopay'[j] = IF j = i THEN again ELSE autopay[j]
    BY <1>3, <2>2 DEF InvoiceInv, InvoiceTypeOK
  <2>4. total' \in Nat /\ total' >= total /\ fees' \subseteq Installments
    BY <1>3, <2>2, Parameters DEF InvoiceInv, InvoiceTypeOK
  <2>5. InvoiceTypeOK'
    <3>1. /\ state' \in [Installments ->
                           {"scheduled", "processing", "paid", "failed", "waived"}]
          /\ autopay' \in [Installments -> BOOLEAN] /\ due' \subseteq Installments
          /\ paid' + credited' <= total'
      BY <1>1, <1>3, <2>2, <2>4 DEF InvoiceInv, InvoiceTypeOK
    <3> QED BY <1>1, <1>2, <1>6, <2>4, <3>1 DEF InvoiceInv, InvoiceTypeOK, charges, work, stripe
  <2>6. InvoiceBooks'
    <3>1. {q \in Intents : payment'[q] = "succeeded"} = {q \in Intents : payment[q] = "succeeded"}
      BY <1>5
    <3>2. \A j \in Installments :
             {q \in Intents : payment'[q] = "succeeded" /\ Paying(q) = j}
                = {q \in Intents : payment[q] = "succeeded" /\ Paying(q) = j}
      BY <1>5
    <3>3. {j \in Installments : state'[j] # "waived"} = {j \in Installments : state[j] # "waived"}
      BY <2>1, <2>3
    <3> DEFINE fine == LateFee * Cardinality(fees)
    <3>4. fine \in Nat /\ LateFee \in Nat
          /\ \/ LateFee * Cardinality(fees') = fine + LateFee /\ total' = total + LateFee
             \/ LateFee * Cardinality(fees') = fine /\ total' = total
      <4>1. IsFiniteSet(fees) /\ LateFee \in Nat
        BY FiniteIds, FS_Subset, Parameters DEF InvoiceInv, InvoiceTypeOK
      <4>2. /\ Cardinality(fees) \in Nat
            /\ Cardinality(fees \cup {i}) = Cardinality(fees) + 1
        BY <2>1, <4>1, FS_CardinalityType, FS_AddElement
      <4>3. LateFee * (Cardinality(fees) + 1) = fine + LateFee /\ fine \in Nat
        BY <4>1, <4>2
      <4>4. \/ fees' = fees \cup {i} /\ total' = total + LateFee
            \/ fees' = fees /\ total' = total
        BY <2>2
      <4> HIDE DEF fine
      <4> QED BY <4>1, <4>2, <4>3, <4>4 DEF fine
    <3>5. SumFunctionOnSet(Amount, {j \in Installments : state[j] # "waived"}) \in Nat
      <4>1. IsFiniteSet({j \in Installments : state[j] # "waived"})
        BY FiniteIds, FS_Subset
      <4> QED BY <4>1, SumType, Parameters
    <3>6. /\ \A j \in Installments : state'[j] = "paid" <=> state[j] = "paid"
          /\ paid' = paid /\ got' = got /\ cash' = cash
          /\ Mishap("reopened")' <=> Mishap("reopened")
      BY <1>1, <1>8, <2>3 DEF Mishap
    <3>7. ~Mishap("reopened") =>
             total' = SumFunctionOnSet(Amount, {j \in Installments : state'[j] # "waived"})
                         + LateFee * Cardinality(fees')
      <4>1. ~Mishap("reopened") =>
               total = SumFunctionOnSet(Amount,
               {j \in Installments : state[j] # "waived"}) + fine
        BY DEF InvoiceInv, InvoiceBooks
      <4> HIDE DEF fine
      <4> QED BY <3>3, <3>4, <3>5, <4>1
    <3> QED BY ZenonT(60), <3>1, <3>2, <3>6, <3>7 DEF InvoiceInv, InvoiceBooks
  <2>7. LatestPending'
    BY <1>1, <1>2, <1>4, <2>3, Ids DEF InvoiceInv, LatestPending
  <2>8. DunningOver'
    <3>1. \A n \in 1 .. Tries : ~Claimed(charge[<<i, n>>])
      BY <1>3, <1>4, Ids DEF Pending, charges
    <3>2. i \in fees' => ~again
      BY <2>1, <2>2
    <3>3. i \in fees' => ~autopay'[i] /\ i \notin due' /\ state'[i] = "failed"
      BY <1>3, <2>2, <2>3, <3>2, Zenon
    <3>4. \A j \in fees' : j # i => /\ j \in fees /\ j \in Installments
                                   /\ ~autopay'[j] /\ j \notin due' /\ state'[j] = state[j]
      <4>1. \A j \in fees' : j # i => j \in fees /\ j \in Installments
        BY <2>2 DEF InvoiceInv, InvoiceTypeOK
      <4>2. \A j \in fees : ~autopay[j] /\ j \notin due
        BY DEF InvoiceInv, DunningOver
      <4> QED BY <2>2, <2>3, <4>1, <4>2, Zenon
    <3> QED BY <3>1, <3>3, <3>4 DEF InvoiceInv, DunningOver, charges
  <2>9. AllOrNothing'
    BY <1>1, <1>5 DEF InvoiceInv, AllOrNothing
  <2>10. WaivedRests'
    BY <2>3, Ids DEF InvoiceInv, WaivedRests, Mishap, stripe
  <2> QED BY <1>2, <2>5, <2>6, <2>7, <2>8, <2>9, <2>10 DEF InvoiceInv
<1> QED BY <1>7, <1>8

LEMMA ApplyKeeps ==
    ASSUME InvoiceInv, NEW e \in todo, Apply(e)
    PROVE  InvoiceInv'
<1> DEFINE k == e[1]
<1>1. PICK f \in fetched :
        /\ f[1] = e
        /\ fetched' = fetched \ {f}
        /\ \/ /\ Refused(k, f[2])
              /\ UNCHANGED <<invoice, plan, payment, todo>>
           \/ /\ ~Refused(k, f[2])
              /\ todo' = todo \ {e}
              /\ payment' = [payment EXCEPT ![k] = f[2]]
              /\ IF f[2] = payment[k] THEN UNCHANGED <<invoice, plan>>
                 ELSE IF f[2] = "succeeded" THEN Paid(k)
                 ELSE IF f[2] \in {"failed", "canceled"} /\ k \in Autos THEN Unpaid(k, f[2])
                 ELSE UNCHANGED <<invoice, plan>>
        /\ UNCHANGED <<given, charges, work, key, cash, stripe>>
  BY DEF Apply
<1> DEFINE s == f[2]
<1>2. CASE Refused(k, s)
  BY <1>1, <1>2, RefusedKeeps DEF books
<1>3. CASE ~Refused(k, s) /\ payment[k] # s /\ s = "succeeded"
  BY <1>1, <1>3, PaidKeeps
<1>4. CASE ~Refused(k, s) /\ payment[k] # s /\ s \in {"failed", "canceled"} /\ k \in Autos
  BY <1>1, <1>4, UnpaidKeeps
<1>5. CASE /\ ~Refused(k, s)
           /\ \/ payment[k] = s
              \/ s # "succeeded" /\ ~(s \in {"failed", "canceled"} /\ k \in Autos)
  <2>1. /\ UNCHANGED <<invoice, plan>>
        /\ payment' = [payment EXCEPT ![k] = s] /\ todo' = todo \ {e}
    BY <1>1, <1>5
  <2>2. /\ k \in Intents /\ payment' \in [Intents -> Statuses]
        /\ AtWork' /\ ChargeRows' /\ KeyRows' /\ IntentHistory' /\ SeenStatuses'
        /\ FailedOnce' /\ OneInPlay'
        /\ \A q \in Autos : Pending(q)' => Pending(q)
    BY <1>1, <1>5, <2>1, RowsKeep DEF plan
  <2>3. \A q \in Intents : payment'[q] = "succeeded" <=> payment[q] = "succeeded"
    <3>1. payment \in [Intents -> Statuses]
      BY DEF InvoiceInv, InvoiceTypeOK
    <3> QED BY <1>5, <2>1, <2>2, <3>1 DEF Refused
  <2>4. InvoiceTypeOK'
    <3>1. fetched' \subseteq Events \X Statuses /\ todo' \subseteq Events
      BY <1>1, <2>1 DEF InvoiceInv, InvoiceTypeOK
    <3> QED BY <1>1, <2>1, <2>2, <3>1
            DEF InvoiceInv, InvoiceTypeOK, invoice, plan, charges, work, stripe
  <2>5. InvoiceBooks'
    BY <1>1, <2>1, <2>3, BooksUntouched DEF InvoiceInv, invoice, plan
  <2>6. LatestPending'
    BY <2>1, <2>2 DEF InvoiceInv, LatestPending, plan
  <2>7. DunningOver'
    BY <1>1, <2>1 DEF InvoiceInv, DunningOver, plan, charges
  <2>8. AllOrNothing'
    BY <2>1, <2>3 DEF InvoiceInv, AllOrNothing, plan
  <2>9. WaivedRests'
    BY <1>1, <2>1 DEF InvoiceInv, WaivedRests, Mishap, plan, stripe
  <2> QED BY <2>2, <2>4, <2>5, <2>6, <2>7, <2>8, <2>9 DEF InvoiceInv
<1> QED BY <1>2, <1>3, <1>4, <1>5

-----------------------------------------------------------------------------
(* Theorems.                                                               *)

LEMMA InvoiceStarts == InvoiceInit => InvoiceInv
<1> SUFFICES ASSUME InvoiceInit PROVE InvoiceInv
  OBVIOUS
<1> USE Parameters, Ids DEF InvoiceInit
<1>1. total \in Nat
  BY FiniteIds, SumType
<1>2. InvoiceTypeOK
  <2>1. /\ tries \in [Installments -> 0 .. Tries] /\ changes \in [Intents -> 0 .. Changes]
        /\ 0 \in 0 .. Failures /\ paid + credited <= total
    BY <1>1
  <2>2. payment \in [Intents -> Statuses] /\ intent \in [Intents -> Statuses]
    BY DEF Statuses
  <2>3. autopay \in [Installments -> BOOLEAN]
    OBVIOUS
  <2> QED BY <1>1, <2>1, <2>2, <2>3 DEF InvoiceTypeOK
<1>3. InvoiceBooks
  <2>1. /\ {k \in Intents : payment[k] = "succeeded"} = {}
        /\ \A i \in Installments :
              {k \in Intents : payment[k] = "succeeded" /\ Paying(k) = i} = {}
        /\ {i \in Installments : state[i] # "waived"} = Installments
    OBVIOUS
  <2>2. AmountOf({}) = 0
    BY PricesAddUp
  <2>3. LateFee * Cardinality(fees) = 0
    BY FS_EmptySet
  <2>4. \A i \in Installments : state[i] # "paid" /\ got[i] = 0 /\ Amount[i] # 0
    OBVIOUS
  <2>5. SumFunctionOnSet(Amount, Installments) \in Nat /\ total = SumFunctionOnSet(Amount,
        Installments)
    BY <1>1
  <2>6. LateFee * Cardinality(fees) = 0 /\ total = SumFunctionOnSet(Amount, Installments) + 0
    BY <2>3, <2>5
  <2>7. paid = cash + 0
    OBVIOUS
  <2> QED BY ONLY <2>1, <2>2, <2>4, <2>6, <2>7 DEF InvoiceBooks
<1>4. AtWork /\ ChargeRows /\ KeyRows /\ IntentHistory /\ SeenStatuses /\ FailedOnce
      /\ LatestPending /\ DunningOver /\ AllOrNothing /\ WaivedRests /\ OneInPlay
  BY DEF AtWork, ChargeRows, KeyRows, IntentHistory, SeenStatuses, FailedOnce,
         LatestPending, Pending, Claimed, Unsettled, DunningOver, AllOrNothing, WaivedRests,
         OneInPlay, InPlay
<1> QED BY <1>2, <1>3, <1>4 DEF InvoiceInv

\* No step of anybody breaks the invariant.
LEMMA InvoiceSteps == InvoiceInv /\ [InvoiceNext]_invoiceVars => InvoiceInv'
<1> SUFFICES ASSUME InvoiceInv, [InvoiceNext]_invoiceVars PROVE InvoiceInv'
  OBVIOUS
<1>1. /\ given.workers \subseteq Workers /\ given.keys \subseteq Keys
      /\ given.staff \subseteq Installments
  BY Parameters DEF InvoiceInv, InvoiceTypeOK
<1>2. ASSUME NEW w \in given.workers, NEW k \in Autos, Resume(w, k) PROVE InvoiceInv'
  BY <1>1, <1>2, ResumeKeeps
<1>3. ASSUME NEW w \in given.workers, NEW i \in Installments, Behind(i) => Mishap("behind"),
             Beside(i) => Mishap("beside"), Claim(w, i)
      PROVE  InvoiceInv'
  BY <1>1, <1>3, ClaimKeeps
<1>4. ASSUME NEW w \in given.workers, Begin(w) \/ Create(w) \/ Record(w) \/ Declined(w)
      PROVE  InvoiceInv'
  BY <1>1, <1>4, BeginKeeps, CreateKeeps, RecordKeeps, DeclinedKeeps
<1>5. ASSUME NEW w \in given.workers, failures < given.failures, Stop(w) PROVE InvoiceInv'
  BY <1>1, <1>5, StopKeeps
<1>6. ASSUME NEW k \in Autos, LeaseExpires(k) PROVE InvoiceInv'
  BY <1>6, LeaseExpiresKeeps
<1>7. ASSUME NEW k \in given.keys, Behind(KeyFor[k]) => Mishap("behind"), PayReserve(k)
      PROVE  InvoiceInv'
  BY <1>1, <1>7, PayReserveKeeps
<1>8. ASSUME NEW k \in given.keys,
             (failures < given.failures
             /\ PayFail(k)) \/ PayBegin(k) \/ PayCreate(k) \/ PayComplete(k)
      PROVE  InvoiceInv'
  BY <1>1, <1>8, PayFailKeeps, PayBeginKeeps, PayCreateKeeps, PayCompleteKeeps
<1>9. ASSUME NEW k \in Intents, NEW s \in Statuses, Reopens(k) => Mishap("reopened"),
             StripeChange(k, s)
      PROVE  InvoiceInv'
  BY <1>9, StripeChangeKeeps
<1>10. ASSUME NEW e \in todo, Fetch(e) \/ Apply(e) PROVE InvoiceInv'
  BY <1>10, FetchKeeps, ApplyKeeps
<1>11. ASSUME NEW amount \in 1 .. Balance, TakeCash(amount) \/ ApplyCredit(amount)
       PROVE  InvoiceInv'
  BY <1>11, TakeCashKeeps, ApplyCreditKeeps
<1>12. ASSUME NEW i \in given.staff,
              (~Behind(i) /\ Waive(i)) \/ ChangeDueDate(i) \/ SwitchMethod(i)
       PROVE  InvoiceInv'
  BY <1>1, <1>12, WaiveKeeps, ChangeDueDateKeeps, SwitchMethodKeeps
<1>13. ASSUME Authorize \/ Revoke \/ Void PROVE InvoiceInv'
  BY <1>13, AuthorizeKeeps, RevokeKeeps, VoidKeeps
<1>14. ASSUME NEW i \in Installments, FallsDue(i) PROVE InvoiceInv'
  BY <1>14, FallsDueKeeps
<1>15. CASE UNCHANGED invoiceVars
  <2>1. UNCHANGED <<given, invoice, plan, charges, work, key, books, stripe, queue>>
    BY <1>15 DEF invoiceVars
  <2>2. InvoiceBooks'
    BY <2>1, BooksUntouched DEF InvoiceInv, invoice, plan, books
  <2> QED BY <2>1, <2>2
          DEF InvoiceInv, invoice, plan, charges, work, books, stripe, queue, InvoiceTypeOK,
              AtWork, ChargeRows, KeyRows, IntentHistory, SeenStatuses, WasSo, FailedOnce,
              LatestPending, Pending, DunningOver, AllOrNothing, WaivedRests, Mishap,
              OneInPlay, InPlay
<1> QED BY <1>2, <1>3, <1>4, <1>5, <1>6, <1>7, <1>8, <1>9, <1>10, <1>11, <1>12, <1>13, <1>14,
           <1>15 DEF InvoiceNext

\* The inductive invariant holds of everything that can happen to an invoice,
\* with any mishap: what the rows of an attempt, a key, a payment, an
\* installment and Stripe say of each other.
THEOREM InvoiceInductive == InvoiceSpec => []InvoiceInv
<1> QED BY InvoiceStarts, InvoiceSteps, PTL DEF InvoiceSpec

\* Every variable keeps its type, and what was paid and credited never exceeds
\* the total: the CHECKs of invoices never have to refuse what a guard let by.
THEOREM InvoiceTypeCorrect == InvoiceSpec => []InvoiceTypeOK
<1>1. InvoiceInv => InvoiceTypeOK
  BY DEF InvoiceInv
<1> QED BY <1>1, InvoiceInductive, PTL

\* Every cent is accounted for: applyLatest counts each success once, in the
\* invoice and its installment; the total is that of the plan less the waived
\* installments plus the late fees; and Stripe takes the money once.
THEOREM MoneyAlwaysReconciled == InvoiceSpec => []MoneyReconciled
<1> QED BY MoneyFollows, InvoiceInductive, PTL

\* A charge is only made of an attempt that is started, and none is once the
\* late fee of the final failure is on the invoice.
LEMMA FinalSteps == InvoiceInv /\ [InvoiceNext]_invoiceVars => [FinalStep]_invoiceVars
<1> SUFFICES ASSUME InvoiceInv, InvoiceNext, NEW k \in Autos, k[1] \in fees,
                    intent[k] = "none", intent'[k] # "none"
             PROVE  FALSE
  BY DEF FinalStep
<1>1. ~Claimed(charge[k])
  <2>1. k[2] \in 1 .. Tries /\ k = <<k[1], k[2]>>
    BY Ids
  <2> QED BY <2>1 DEF InvoiceInv, DunningOver
<1>2. /\ given.workers \subseteq Workers /\ given.keys \subseteq Keys
      /\ k \in Intents /\ k \notin Keys
      /\ intent \in [Intents -> Statuses]
  BY Parameters, Ids DEF InvoiceInv, InvoiceTypeOK
<1>3. ASSUME NEW q \in Intents, NEW s, Change(q, s) PROVE q = k
  BY <1>2, <1>3 DEF Change
<1>4. ASSUME NEW w \in Workers, Create(w) \/ Declined(w) PROVE FALSE
  <2>1. step[w] = "create" /\ \E s : Change(on[w], s)
    BY <1>4 DEF Create, Declined
  <2>2. on[w] \in Intents /\ charge[on[w]] = "external_started"
    BY <2>1, BeforeTheCall
  <2> QED BY <1>1, <1>3, <2>1, <2>2 DEF Claimed
<1>5. ASSUME NEW q \in Keys, PayCreate(q) PROVE FALSE
  BY <1>2, <1>5, Ids DEF PayCreate
<1>6. ASSUME NEW q \in Intents, NEW s \in Statuses, StripeChange(q, s) PROVE FALSE
  <2>1. q = k
    BY <1>3, <1>6 DEF StripeChange
  <2> QED BY <1>6, <2>1 DEF StripeChange
<1>7. UNCHANGED stripe => FALSE
  BY DEF stripe
<1> HIDE DEF stripe
<1> QED BY <1>2, <1>4, <1>5, <1>6, <1>7
        DEF InvoiceNext, Resume, Claim, Begin, Record, Stop, LeaseExpires, PayReserve, PayFail,
            PayBegin, PayComplete, Fetch, Apply, TakeCash, ApplyCredit, Waive, ChangeDueDate,
            SwitchMethod, Authorize, Revoke, Void, FallsDue

\* After its final failure autopay never charges an installment again, whatever
\* handlers of older attempts still do.
THEOREM FinalStaysFinal == InvoiceSpec => FinalIsFinal
<1> QED BY FinalSteps, InvoiceInductive, PTL DEF InvoiceSpec, FinalIsFinal
=============================================================================
