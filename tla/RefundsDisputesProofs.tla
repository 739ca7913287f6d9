----------------------- MODULE RefundsDisputesProofs -----------------------
(***************************************************************************)
(* Proofs about RefundsDisputes, for any payment, refunds, dispute and     *)
(* workers, and whatever mishaps a behaviour is given.                     *)
(***************************************************************************)
EXTENDS RefundsDisputes, FoldLemmas

-----------------------------------------------------------------------------
(* The invariant.                                                          *)

\* What a handler of dispute events has in hand.
Facts == DisputeFacts \ {"none"}
ApplyJobs == [at : {"apply", "look", "look again"}, event : 1 .. Changes, saw : Facts]
ClaimJobs == [at : {"claim"}, event : 1 .. Changes, saw : Facts, dir : Directions,
              cents : 0 .. Amount]
MoveJobs == [at : {"start", "move", "complete", "look again"}, event : 1 .. Changes,
             saw : Facts, dir : Directions]
Jobs == {Idle} \cup ApplyJobs \cup ClaimJobs \cup MoveJobs
JobsOK ==
    /\ work \in [Workers -> Jobs]
    /\ raised # {} => dispute # "none"

\* One request at a time is past reserve, and writes a row that is not there.
RequestRows ==
    \A k \in Keys :
        /\ step[k] \in {"load", "fail", "begin"} => attempt[k] = "reserved"
        /\ step[k] \in {"create", "record", "complete"} => attempt[k] = "external_started"
        /\ attempt[k] \in {"none", "reserved", "failed_pre_external"}
              \/ step[k] \in {"create", "record"} => record[k] = "none"
        /\ \A q \in Keys : Claimed(attempt[k]) /\ Claimed(attempt[q]) => k = q

\* What the request found left of the payment is left until it has its row,
\* and Stripe gives no more back than it took.
RoomKept ==
    /\ \A k \in Keys : step[k] \in {"begin", "create", "record"} => Recordable(k)
    /\ Total(Alive(refund)) <= Amount

RefundsCounted == refunded = Total({k \in Refunds : record[k] = "succeeded"})

\* Each direction is moved by the one handler that started it, and the
\* restoration follows the completed reversal.
Mover(h, d) == work[h].at \in {"move", "complete"} /\ work[h].dir = d
MovedOnce(d) ==
    /\ moved[d] \in {0, cents[d]}
    /\ movement[d] = "completed" => moved[d] = cents[d]
    /\ movement[d] \in {"none", "reserved"} => moved[d] = 0
    /\ \A g, h \in Workers : Mover(g, d) /\ Mover(h, d) => g = h
InHand(h) ==
    LET j == work[h] IN
    /\ j.at = "start" => movement[j.dir] # "none"
    /\ j.at = "move" => movement[j.dir] = "external_started" /\ moved[j.dir] = 0
    /\ j.at = "complete" => /\ movement[j.dir] = "external_started"
                            /\ moved[j.dir] = cents[j.dir]
    /\ j.at = "look again" => movement["from_connected"] = "completed"
    /\ j.at = "claim" /\ j.dir = "to_connected" =>
          /\ movement["from_connected"] = "completed"
          /\ j.cents <= cents["from_connected"]
MovementRows ==
    /\ \A d \in Directions : MovedOnce(d)
    /\ \A h \in Workers : InHand(h)
    /\ movement["to_connected"] # "none" =>
          /\ movement["from_connected"] = "completed"
          /\ cents["to_connected"] <= cents["from_connected"]

RefundsInv ==
    /\ RefundsTypeOK /\ JobsOK /\ RequestRows /\ RoomKept /\ RefundsCounted /\ MovementRows

-----------------------------------------------------------------------------
(* Constants and sums.                                                     *)

LEMMA Parameters ==
    /\ Amount \in Nat \ {0} /\ Disputed \in 1 .. Amount /\ Fee \in Nat /\ Back \in Nat \ {0}
    /\ Ask \in [Refunds -> 1 .. Amount]
    /\ Changes \in Nat /\ Failures \in Nat
    /\ Outside \notin Keys /\ Keys \subseteq Refunds
    /\ \A g \in Givens : g.keys \subseteq Keys /\ g.workers \subseteq Workers
BY RefundsAssumption DEF Refunds

\* What is asked for adds up to a natural number: a new refund adds its cents,
\* and fewer refunds are no more.
LEMMA AsksAddUp ==
    ASSUME NEW S \in SUBSET Refunds
    PROVE  /\ Total(S) \in Nat
           /\ Total({}) = 0
           /\ \A k \in Refunds : k \notin S => Total(S \cup {k}) = Ask[k] + Total(S)
           /\ \A T \in SUBSET S : Total(T) <= Total(S)
<1>1. IsFiniteSet(Refunds)
  BY RefundsAssumption, FS_AddElement DEF Refunds
<1>2. IsFiniteSet(S) /\ \A k \in Refunds : Ask[k] \in Nat /\ Ask[k] \in Int
  BY <1>1, FS_Subset, Parameters
<1>3. Total(S) \in Nat
  BY <1>2, SumType DEF Total
<1>4. Total({}) = 0
  BY FS_EmptySet, SumEquation DEF Total
<1>5. ASSUME NEW k \in Refunds, k \notin S PROVE Total(S \cup {k}) = Ask[k] + Total(S)
  BY <1>2, <1>5, SumAdd DEF Total
<1>6. ASSUME NEW T \in SUBSET S PROVE Total(T) <= Total(S)
  BY <1>2, SumMonotone DEF Total
<1> QED BY <1>3, <1>4, <1>5, <1>6

\* A refund more takes its cents at most.
LEMMA OneMoreRefund ==
    ASSUME NEW S \in SUBSET Refunds, NEW k \in Refunds, NEW T \in SUBSET (S \cup {k})
    PROVE  Total(T) \in Nat /\ Total(S) \in Nat /\ Total(T) <= Ask[k] + Total(S)
<1>1. Ask[k] \in Nat
  BY Parameters
<1>2. Total(S \cup {k}) <= Ask[k] + Total(S)
  <2>1. CASE k \in S
    <3>1. S \cup {k} = S
      BY <2>1
    <3> QED BY <1>1, <3>1, AsksAddUp
  <2>2. CASE k \notin S
    BY <1>1, <2>2, AsksAddUp
  <2> QED BY <2>1, <2>2
<1>3. Total(T) <= Total(S \cup {k}) /\ Total(T) \in Nat /\ Total(S) \in Nat
      /\ Total(S \cup {k}) \in Nat
  BY AsksAddUp
<1> QED BY <1>1, <1>2, <1>3

\* Fewer rows alive leave no less room.
LEMMA RoomStays ==
    ASSUME RoomKept, UNCHANGED refund,
           Alive(record)' \subseteq Alive(record),
           \A k \in Keys : step'[k] \in {"begin", "create", "record"} =>
                                step[k] \in {"begin", "create", "record"} \/ Recordable(k)
    PROVE  RoomKept'
<1>1. Alive(record) \subseteq Refunds /\ Alive(refund)' = Alive(refund)
  BY DEF Alive
<1>2. Total(Alive(record)') <= Total(Alive(record)) /\ Total(Alive(record)') \in Nat
      /\ Total(Alive(record)) \in Nat
  BY <1>1, AsksAddUp
<1>3. \A k \in Keys : Recordable(k) => Recordable(k)'
  BY <1>2, Parameters DEF Recordable
<1> QED BY <1>1, <1>3 DEF RoomKept

\* A refund that Stripe makes fits in what is left of the charge.
LEMMA IssuedFits ==
    ASSUME RefundsTypeOK, NEW k \in Refunds, Ask[k] + Total(Alive(refund)) <= Amount, Issued(k)
    PROVE  /\ refund' \in [Refunds -> RefundStatuses] /\ todo' \subseteq Events
           /\ Total(Alive(refund)') <= Amount
<1>1. PICK s \in {"pending", "succeeded"} : refund' = [refund EXCEPT ![k] = s]
  BY DEF Issued
<1>2. <<"charge", k>> \in Events
  BY DEF Events
<1>3. refund' \in [Refunds -> RefundStatuses] /\ todo' \subseteq Events
  BY <1>1, <1>2 DEF Issued, RefundsTypeOK, RefundStatuses
<1>4. Alive(refund) \subseteq Refunds /\ Alive(refund)' \subseteq Alive(refund) \cup {k}
  BY <1>1 DEF Alive, RefundsTypeOK
<1>5. /\ Total(Alive(refund)') \in Nat /\ Total(Alive(refund)) \in Nat /\ Ask[k] \in Nat
      /\ Total(Alive(refund)') <= Ask[k] + Total(Alive(refund))
  BY <1>4, OneMoreRefund, Parameters
<1> QED BY <1>3, <1>5, Parameters

\* What counts as refunded are the rows that say so.
LEMMA CountStays ==
    ASSUME RefundsCounted, UNCHANGED refunded,
           \A k \in Refunds : record'[k] = "succeeded" <=> record[k] = "succeeded"
    PROVE  RefundsCounted'
<1>1. {k \in Refunds : record'[k] = "succeeded"} = {k \in Refunds : record[k] = "succeeded"}
  OBVIOUS
<1> QED BY <1>1 DEF RefundsCounted

\* One refund of those a handler fetched, as HandleRefund deals with it.
Handled(e, f, r) ==
    /\ \/ /\ RefundRefused(r[1], r[2])
          /\ fetched' = fetched \ {f}
          /\ UNCHANGED <<record, refunded, todo>>
       \/ /\ ~RefundRefused(r[1], r[2])
          /\ ApplyRefund(r[1], r[2])
          /\ IF f.left = {r}
                THEN fetched' = fetched \ {f} /\ todo' = todo \ {e}
                ELSE /\ fetched' = (fetched \ {f}) \cup {[f EXCEPT !.left = @ \ {r}]}
                     /\ UNCHANGED todo
    /\ UNCHANGED <<given, requests, disputed, lost, stripe, accounting, liability,
                   disputeQueue, failures>>

-----------------------------------------------------------------------------
(* Handlers of dispute events.                                             *)

LEMMA JobKinds ==
    ASSUME JobsOK, NEW h \in Workers
    PROVE  LET j == work[h] IN
           /\ j.at \in {"apply", "look"} => j \in ApplyJobs
           /\ j.at = "claim" => j \in ClaimJobs
           /\ j.at \in {"start", "move", "complete"} => j \in MoveJobs
           /\ j.at = "look again" => j \in ApplyJobs \cup MoveJobs
           /\ j.at # "idle" => j.event \in 1 .. Changes /\ j.saw \in Facts
           /\ j.at \in {"claim", "start", "move", "complete"} => j.dir \in Directions
<1> DEFINE j == work[h]
<1>1. j = Idle \/ j \in ApplyJobs \/ j \in ClaimJobs \/ j \in MoveJobs
  BY DEF JobsOK, Jobs
<1>2. CASE j = Idle
  BY <1>2 DEF Idle
<1>3. CASE j \in ApplyJobs
  BY <1>3 DEF ApplyJobs
<1>4. CASE j \in ClaimJobs
  BY <1>4 DEF ClaimJobs
<1>5. CASE j \in MoveJobs
  BY <1>5 DEF MoveJobs
<1> QED BY <1>1, <1>2, <1>3, <1>4, <1>5

\* The rest of the office leaves the movements alone.
LEMMA DisputesStay ==
    ASSUME JobsOK, MovementRows, UNCHANGED <<dispute, liability, disputeQueue>>
    PROVE  JobsOK' /\ MovementRows'
<1>1. work' = work /\ raised' = raised /\ movement' = movement /\ cents' = cents
      /\ moved' = moved
  BY DEF liability, disputeQueue
<1>2. JobsOK'
  BY <1>1 DEF JobsOK
<1>3. MovementRows'
  BY <1>1 DEF MovementRows, MovedOnce, InHand, Mover
<1> QED BY <1>2, <1>3

\* A handler goes on to another job.
LEMMA GoKeeps ==
    ASSUME JobsOK, NEW h \in Workers, NEW j \in Jobs, Go(h, j), raised' \subseteq raised,
           UNCHANGED dispute
    PROVE  JobsOK' /\ \A g \in Workers : work'[g] = IF g = h THEN j ELSE work[g]
BY DEF JobsOK, Go

\* A job that moves nothing itself, and what it rests on.
Harmless(j) ==
    /\ j \in Jobs /\ j.at \notin {"move", "complete"}
    /\ j.at = "start" => movement[j.dir] # "none"
    /\ j.at = "look again" => movement["from_connected"] = "completed"
    /\ j.at = "claim" /\ j.dir = "to_connected" =>
          /\ movement["from_connected"] = "completed"
          /\ j.cents <= cents["from_connected"]

LEMMA IdleHarmless == Harmless(Idle)
BY DEF Harmless, Idle, Jobs

LEMMA HarmlessKeeps ==
    ASSUME JobsOK, MovementRows, NEW h \in Workers, NEW j, Harmless(j), Go(h, j),
           raised' \subseteq raised, UNCHANGED <<dispute, liability>>
    PROVE  JobsOK' /\ MovementRows'
<1>1. JobsOK' /\ \A g \in Workers : work'[g] = IF g = h THEN j ELSE work[g]
  BY GoKeeps DEF Harmless
<1>2. movement' = movement /\ cents' = cents /\ moved' = moved
  BY DEF liability
<1>3. ASSUME NEW d \in Directions, NEW g \in Workers PROVE Mover(g, d)' => Mover(g, d)
  BY <1>1 DEF Mover, Harmless
<1>4. \A d \in Directions : MovedOnce(d)'
  BY <1>2, <1>3 DEF MovementRows, MovedOnce
<1>5. ASSUME NEW g \in Workers PROVE InHand(g)'
  <2>1. CASE g = h
    BY <1>1, <1>2, <2>1 DEF Harmless, InHand
  <2>2. CASE g # h
    <3>1. work'[g] = work[g]
      BY <1>1, <2>2
    <3> QED BY <1>2, <3>1 DEF MovementRows, InHand
  <2> QED BY <2>1, <2>2
<1> QED BY <1>1, <1>2, <1>4, <1>5 DEF MovementRows

-----------------------------------------------------------------------------
(* Each step of a request, of Stripe and of the handlers.  A lemma frames  *)
(* first the parts of the invariant its action does not touch; the others  *)
(* have a leaf, or a proof, each.                                          *)

LEMMA ReserveKeeps ==
    ASSUME RefundsInv, NEW k \in Keys, Reserve(k)
    PROVE  RefundsInv'
<1> USE Parameters DEF RefundsInv, requests, invoice, stripe, refundQueue, liability,
        disputeQueue, Reserve, To
<1>1. JobsOK' /\ RefundsCounted' /\ MovementRows'
  BY DisputesStay, CountStays
<1>2. RefundsTypeOK'
  BY DEF RefundsTypeOK, RefundStatuses
<1>3. RequestRows'
  BY DEF RequestRows, Claimed, RefundsTypeOK
<1>4. RoomKept'
  BY RoomStays DEF Alive, Recordable, RefundsTypeOK
<1> QED BY <1>1, <1>2, <1>3, <1>4

LEMMA LoadKeeps ==
    ASSUME RefundsInv, NEW k \in Keys, Load(k)
    PROVE  RefundsInv'
<1> USE Parameters DEF RefundsInv, requests, invoice, stripe, refundQueue, liability,
        disputeQueue, Load, To
<1>1. JobsOK' /\ RefundsCounted' /\ MovementRows'
  BY DisputesStay, CountStays
<1>2. RefundsTypeOK'
  BY DEF RefundsTypeOK, RefundStatuses
<1>3. RequestRows'
  BY DEF RequestRows, Claimed, RefundsTypeOK
<1>4. RoomKept'
  BY RoomStays DEF Alive, Recordable, RefundsTypeOK
<1> QED BY <1>1, <1>2, <1>3, <1>4

LEMMA FailKeeps ==
    ASSUME RefundsInv, NEW k \in Keys, Fail(k)
    PROVE  RefundsInv'
<1> USE Parameters DEF RefundsInv, requests, invoice, stripe, refundQueue, liability,
        disputeQueue, Fail, To
<1>1. JobsOK' /\ RefundsCounted' /\ MovementRows'
  BY DisputesStay, CountStays
<1>2. RefundsTypeOK'
  BY DEF RefundsTypeOK, RefundStatuses
<1>3. RequestRows'
  BY DEF RequestRows, Claimed, RefundsTypeOK
<1>4. RoomKept'
  BY RoomStays DEF Alive, Recordable, RefundsTypeOK
<1> QED BY <1>1, <1>2, <1>3, <1>4

LEMMA BeginExternalKeeps ==
    ASSUME RefundsInv, NEW k \in Keys, BeginExternal(k)
    PROVE  RefundsInv'
<1> USE Parameters DEF RefundsInv, requests, invoice, stripe, refundQueue, liability,
        disputeQueue, BeginExternal, To
<1>1. JobsOK' /\ RefundsCounted' /\ MovementRows'
  BY DisputesStay, CountStays
<1>2. RefundsTypeOK'
  BY DEF RefundsTypeOK, RefundStatuses
<1>3. RequestRows'
  BY DEF RequestRows, Claimed, RefundsTypeOK
<1>4. RoomKept'
  BY RoomStays DEF Alive, Recordable, RefundsTypeOK
<1> QED BY <1>1, <1>2, <1>3, <1>4

LEMMA CreateKeeps ==
    ASSUME RefundsInv, NEW k \in Keys, Create(k)
    PROVE  RefundsInv'
<1> USE Parameters DEF RefundsInv, requests, invoice, stripe, refundQueue, liability,
        disputeQueue, Create, To
<1>1. /\ refund' \in [Refunds -> RefundStatuses] /\ todo' \subseteq Events
      /\ Total(Alive(refund)') <= Amount
  <2>1. CASE Refundable(k) /\ Issued(k)
    BY <2>1, IssuedFits DEF Refundable
  <2>2. CASE UNCHANGED <<refund, todo>>
    <3>1. Alive(refund)' = Alive(refund)
      BY <2>2 DEF Alive
    <3> QED BY <2>2, <3>1 DEF RefundsTypeOK, RoomKept
  <2> QED BY <2>1, <2>2
<1>2. JobsOK' /\ RefundsCounted' /\ MovementRows'
  BY DisputesStay, CountStays
<1>3. RefundsTypeOK'
  BY <1>1 DEF RefundsTypeOK, RefundStatuses
<1>4. RequestRows'
  BY <1>1 DEF RequestRows, Claimed, RefundsTypeOK
<1>5. RoomKept'
  <2>1. Alive(record)' = Alive(record)
    BY DEF Alive
  <2>2. \A q \in Keys : step'[q] \in {"begin", "create", "record"} =>
           step[q] \in {"begin", "create", "record"}
    BY DEF RefundsTypeOK
  <2> QED BY <1>1, <2>1, <2>2 DEF RoomKept, Recordable
<1> QED BY <1>2, <1>3, <1>4, <1>5

LEMMA RecordPendingKeeps ==
    ASSUME RefundsInv, NEW k \in Keys, RecordPending(k)
    PROVE  RefundsInv'
<1> USE Parameters DEF RefundsInv, requests, invoice, stripe, refundQueue, liability,
        disputeQueue, RecordPending, To
<1>1. /\ k \in Refunds /\ attempt[k] = "external_started" /\ record[k] = "none"
      /\ \A q \in Keys : step[q] \in {"begin", "create", "record"} => q = k
  BY DEF RequestRows, Claimed, RefundsTypeOK
<1>2. /\ record' \in [Refunds -> RefundStatuses]
      /\ \A q \in Refunds : record'[q] = record[q] \/ (q = k /\ record'[q] = "pending")
      /\ \A q \in Keys : step'[q] = IF q = k THEN step'[k] ELSE step[q]
      /\ step'[k] \in {"complete", "idle"}
  BY <1>1 DEF RefundsTypeOK, RefundStatuses
<1>3. JobsOK' /\ MovementRows'
  BY DisputesStay
<1>4. RefundsTypeOK'
  BY <1>1, <1>2 DEF RefundsTypeOK, RefundStatuses
<1>5. RequestRows'
  BY <1>1, <1>2 DEF RequestRows, Claimed, RefundsTypeOK
<1>6. RoomKept'
  <2>1. Alive(refund)' = Alive(refund)
    BY DEF Alive
  <2> QED BY <1>1, <1>2, <2>1 DEF RoomKept
<1>7. RefundsCounted'
  BY <1>1, <1>2, CountStays
<1> QED BY <1>3, <1>4, <1>5, <1>6, <1>7

LEMMA CompleteKeeps ==
    ASSUME RefundsInv, NEW k \in Keys, Complete(k)
    PROVE  RefundsInv'
<1> USE Parameters DEF RefundsInv, requests, invoice, stripe, refundQueue, liability,
        disputeQueue, Complete, To
<1>1. JobsOK' /\ RefundsCounted' /\ MovementRows'
  BY DisputesStay, CountStays
<1>2. RefundsTypeOK'
  BY DEF RefundsTypeOK, RefundStatuses
<1>3. RequestRows'
  BY DEF RequestRows, Claimed, RefundsTypeOK
<1>4. RoomKept'
  BY RoomStays DEF Alive, Recordable, RefundsTypeOK
<1> QED BY <1>1, <1>2, <1>3, <1>4

LEMMA StopRequestKeeps ==
    ASSUME RefundsInv, NEW k \in Keys, failures < Failures, StopRequest(k)
    PROVE  RefundsInv'
<1> USE Parameters DEF RefundsInv, requests, invoice, stripe, refundQueue, liability,
        disputeQueue, StopRequest, To
<1>1. JobsOK' /\ RefundsCounted' /\ MovementRows'
  BY DisputesStay, CountStays
<1>2. RefundsTypeOK'
  BY DEF RefundsTypeOK, RefundStatuses
<1>3. RequestRows'
  BY DEF RequestRows, Claimed, RefundsTypeOK
<1>4. RoomKept'
  BY RoomStays DEF Alive, RefundsTypeOK
<1> QED BY <1>1, <1>2, <1>3, <1>4

LEMMA RefundOutsideKeeps ==
    ASSUME RefundsInv, RefundOutside
    PROVE  RefundsInv'
<1> USE Parameters DEF RefundsInv, requests, invoice, stripe, refundQueue, liability,
        disputeQueue, RefundOutside
<1>1. /\ refund' \in [Refunds -> RefundStatuses] /\ todo' \subseteq Events
      /\ Total(Alive(refund)') <= Amount
  <2>1. Outside \in Refunds
    BY DEF Refunds
  <2> QED BY <2>1, IssuedFits
<1>2. JobsOK' /\ RequestRows' /\ RefundsCounted' /\ MovementRows'
  BY DisputesStay, CountStays DEF RequestRows
<1>3. RefundsTypeOK'
  BY <1>1 DEF RefundsTypeOK, RefundStatuses
<1>4. RoomKept'
  <2>1. Alive(record)' = Alive(record)
    BY DEF Alive
  <2> QED BY <1>1, <2>1 DEF RoomKept, Recordable
<1> QED BY <1>2, <1>3, <1>4

LEMMA RefundChangeKeeps ==
    ASSUME RefundsInv, NEW k \in Refunds, NEW s \in RefundStatuses, RefundChange(k, s)
    PROVE  RefundsInv'
<1> USE Parameters DEF RefundsInv, requests, invoice, stripe, refundQueue, liability,
        disputeQueue, RefundChange
<1>1. /\ refund' \in [Refunds -> RefundStatuses] /\ todo' \subseteq Events
      /\ Total(Alive(refund)') <= Amount
  <2>1. <<"updated", k, s>> \in Events
    BY DEF Events
  <2>2. refund' \in [Refunds -> RefundStatuses] /\ todo' \subseteq Events
    BY <2>1 DEF RefundsTypeOK
  <2>3. Alive(refund)' \subseteq Alive(refund) /\ Alive(refund) \subseteq Refunds
    BY DEF Alive, RefundsTypeOK
  <2>4. Total(Alive(refund)') <= Total(Alive(refund))
        /\ Total(Alive(refund)') \in Nat /\ Total(Alive(refund)) \in Nat
    BY <2>3, AsksAddUp
  <2> QED BY <2>2, <2>4 DEF RoomKept
<1>2. JobsOK' /\ RequestRows' /\ RefundsCounted' /\ MovementRows'
  BY DisputesStay, CountStays DEF RequestRows
<1>3. RefundsTypeOK'
  BY <1>1 DEF RefundsTypeOK, RefundStatuses
<1>4. RoomKept'
  <2>1. Alive(record)' = Alive(record)
    BY DEF Alive
  <2> QED BY <1>1, <2>1 DEF RoomKept, Recordable
<1> QED BY <1>2, <1>3, <1>4

LEMMA FetchRefundsKeeps ==
    ASSUME RefundsInv, NEW e \in todo, FetchRefunds(e)
    PROVE  RefundsInv'
<1> USE Parameters DEF RefundsInv, requests, invoice, stripe, refundQueue, liability,
        disputeQueue, FetchRefunds
<1>1. JobsOK' /\ RequestRows' /\ RoomKept' /\ RefundsCounted' /\ MovementRows'
  BY DisputesStay, RoomStays, CountStays DEF RequestRows, Alive
<1>2. RefundsTypeOK'
  <2> DEFINE of == IF e[1] = "charge" THEN {k \in Refunds : refund[k] # "none"} ELSE {e[2]}
             new == [event |-> e, left |-> {<<k, refund[k]>> : k \in of}]
  <2>1. e \in Events /\ of \subseteq Refunds
    BY DEF RefundsTypeOK, Events
  <2>2. new \in [event : Events, left : SUBSET (Refunds \X RefundStatuses)]
    BY <2>1 DEF RefundsTypeOK
  <2>3. fetched' = fetched \cup {new}
    OBVIOUS
  <2> QED BY <2>2, <2>3 DEF RefundsTypeOK
<1> QED BY <1>1, <1>2

LEMMA HandleRefundKeeps ==
    ASSUME RefundsInv, NEW e \in todo, HandleRefund(e)
    PROVE  RefundsInv'
<1> USE Parameters DEF RefundsInv, requests, invoice, stripe, refundQueue, liability,
        disputeQueue
<1>1. PICK f \in fetched : \E r \in f.left : f.event = e /\ Handled(e, f, r)
  BY DEF HandleRefund, Handled
<1>2. PICK r \in f.left : Handled(e, f, r)
  BY <1>1
<1> DEFINE k == r[1]
           s == r[2]
<1>3. /\ f \in [event : Events, left : SUBSET (Refunds \X RefundStatuses)]
      /\ k \in Refunds /\ s \in RefundStatuses
  BY DEF RefundsTypeOK
<1>4. /\ fetched' \subseteq [event : Events, left : SUBSET (Refunds \X RefundStatuses)]
      /\ todo' \subseteq todo
  <2>1. [f EXCEPT !.left = @ \ {r}] \in
           [event : Events, left : SUBSET (Refunds \X RefundStatuses)]
    BY <1>3
  <2> QED BY <1>2, <2>1 DEF RefundsTypeOK, Handled
<1>5. \/ record' = record /\ refunded' = refunded
      \/ /\ record[k] # "none"
         /\ record[k] \in {"succeeded", "failed", "canceled"} => s = record[k]
         /\ record' = [record EXCEPT ![k] = s]
         /\ \/ s = "succeeded" /\ record[k] # s /\ refunded' = refunded + Ask[k]
               /\ ~(refunded + Ask[k] + disputed + lost > Amount)
            \/ (s = "succeeded" => record[k] = s) /\ refunded' = refunded
  BY <1>2 DEF Handled, RefundRefused, ApplyRefund
<1>6. /\ record' \in [Refunds -> RefundStatuses]
      /\ \A q \in Refunds : /\ record[q] = "none" => record'[q] = "none"
                            /\ record'[q] \in {"pending", "succeeded"} =>
                                  record[q] \in {"pending", "succeeded"}
  BY <1>3, <1>5 DEF RefundsTypeOK, RefundStatuses
<1>7. UNCHANGED <<given, requests, disputed, lost, stripe, accounting, liability, disputeQueue,
                  failures>>
  BY <1>2 DEF Handled
<1>8. RefundsTypeOK'
  <2>1. refunded' \in 0 .. Amount /\ refunded' + disputed + lost <= Amount
    <3>1. Ask[k] \in Nat
      BY <1>3
    <3> QED BY <1>5, <3>1 DEF RefundsTypeOK
  <2> QED BY <1>4, <1>6, <1>7, <2>1 DEF RefundsTypeOK
<1>9. JobsOK'
  BY <1>7, DisputesStay
<1>10. RequestRows'
  BY <1>6, <1>7 DEF RequestRows, Claimed
<1>11. RoomKept'
  <2>1. Alive(record)' \subseteq Alive(record)
    BY <1>6 DEF Alive
  <2> QED BY <1>7, <2>1, RoomStays
<1>12. RefundsCounted'
  <2>1. CASE refunded' = refunded
    <3>1. \A q \in Refunds : record'[q] = "succeeded" <=> record[q] = "succeeded"
      BY <1>3, <1>5, <2>1 DEF RefundsTypeOK
    <3> QED BY <2>1, <3>1, CountStays
  <2>2. CASE refunded' # refunded
    <3> DEFINE done == {q \in Refunds : record[q] = "succeeded"}
    <3>1. record[k] # "succeeded" /\ record' = [record EXCEPT ![k] = "succeeded"]
          /\ refunded' = refunded + Ask[k]
      BY <1>5, <2>2
    <3>2. {q \in Refunds : record'[q] = "succeeded"} = done \cup {k} /\ k \notin done
      BY <1>3, <3>1 DEF RefundsTypeOK
    <3>3. Total(done \cup {k}) = Ask[k] + Total(done) /\ Total(done) \in Nat
      BY <1>3, <3>2, AsksAddUp
    <3>4. refunded = Total(done) /\ Ask[k] \in Nat
      BY <1>3 DEF RefundsCounted
    <3>5. refunded' = Total(done \cup {k})
      BY ONLY <3>1, <3>3, <3>4
    <3> QED BY <3>2, <3>5 DEF RefundsCounted
  <2> QED BY <2>1, <2>2
<1>13. MovementRows'
  BY <1>7, DisputesStay
<1> QED BY <1>8, <1>9, <1>10, <1>11, <1>12, <1>13

LEMMA DisputeChangeKeeps ==
    ASSUME RefundsInv, NEW s \in DisputeFacts, DisputeChange(s)
    PROVE  RefundsInv'
<1>1. /\ RefundsTypeOK /\ JobsOK /\ RequestRows /\ RoomKept /\ RefundsCounted
      /\ MovementRows
  BY DEF RefundsInv
<1>2. /\ UNCHANGED <<given, attempt, step, record, refunded, disputed, lost, refund, todo,
                     fetched, accounting>>
      /\ UNCHANGED <<movement, cents, moved, work, failures>>
  BY DEF DisputeChange, requests, invoice, refundQueue, liability
<1>3. /\ moves < Changes /\ dispute' = s /\ moves' = moves + 1
      /\ raised' = raised \cup {moves'} /\ s \in DisputeMoves[dispute]
  BY DEF DisputeChange
<1>4. RequestRows' /\ RoomKept' /\ RefundsCounted'
  BY <1>1, <1>2, RoomStays, CountStays DEF RequestRows, Alive, requests, invoice
<1>5. RefundsTypeOK'
  <2>1. moves \in 0 .. Changes /\ raised \subseteq 1 .. Changes /\ Changes \in Nat
    BY <1>1, Parameters DEF RefundsTypeOK
  <2>2. moves' \in 1 .. Changes
    BY ONLY <1>3, <2>1
  <2>3. moves' \in 0 .. Changes /\ raised' \subseteq 1 .. Changes /\ dispute' \in DisputeFacts
    BY <1>3, <2>1, <2>2
  <2> QED BY ONLY <1>1, <1>2, <2>3 DEF RefundsTypeOK
<1>6. JobsOK'
  <2>1. s # "none"
    BY <1>1, <1>3 DEF DisputeMoves, RefundsTypeOK, DisputeFacts
  <2> QED BY <1>1, <1>2, <1>3, <2>1 DEF JobsOK
<1>7. MovementRows'
  BY ONLY <1>1, <1>2 DEF MovementRows, MovedOnce, InHand, Mover
<1> QED BY <1>4, <1>5, <1>6, <1>7 DEF RefundsInv

LEMMA FetchDisputeKeeps ==
    ASSUME RefundsInv, NEW h \in Workers, NEW n \in raised, FetchDispute(h, n)
    PROVE  RefundsInv'
<1> USE Parameters DEF RefundsInv, requests, invoice, stripe, refundQueue, liability,
        disputeQueue, FetchDispute
<1>1. Harmless([at |-> "apply", event |-> n, saw |-> dispute])
  BY DEF Harmless, Jobs, ApplyJobs, Facts, RefundsTypeOK, JobsOK
<1>2. JobsOK' /\ MovementRows'
  BY <1>1, HarmlessKeeps
<1>3. RequestRows' /\ RoomKept' /\ RefundsCounted'
  BY RoomStays, CountStays DEF RequestRows, Alive
<1>4. RefundsTypeOK'
  BY <1>2 DEF RefundsTypeOK, JobsOK
<1> QED BY <1>2, <1>3, <1>4

LEMMA ApplyDisputeKeeps ==
    ASSUME RefundsInv, NEW h \in Workers, ApplyDispute(h)
    PROVE  RefundsInv'
<1> USE Parameters DEF RefundsInv, requests, invoice, stripe, refundQueue, liability,
        disputeQueue
<1> DEFINE target == AccountingState(work[h].saw)
           active == IF target = "active" THEN Disputed ELSE 0
           gone == IF target = "lost" THEN Disputed ELSE 0
<1>1. /\ work[h].at = "apply"
      /\ \/ /\ Throw(h)
            /\ UNCHANGED <<accounting, disputed, lost>>
         \/ /\ active + gone + refunded <= Amount
            /\ accounting' = target /\ disputed' = active /\ lost' = gone
            /\ Go(h, [work[h] EXCEPT !.at = "look"])
      /\ UNCHANGED <<given, requests, record, refunded, stripe, refundQueue, liability, raised,
                     failures>>
  BY DEF ApplyDispute
<1>2. work[h] \in ApplyJobs
  BY <1>1, JobKinds
<1>3. target \in {"warning", "active", "won", "lost"}
  BY <1>2 DEF AccountingState, ApplyJobs, Facts, DisputeFacts
<1>4. Harmless([work[h] EXCEPT !.at = "look"])
  BY <1>2 DEF Harmless, Jobs, ApplyJobs
<1>5. JobsOK' /\ MovementRows'
  BY <1>1, <1>4, IdleHarmless, HarmlessKeeps DEF Throw
<1>6. RefundsTypeOK'
  <2>1. /\ accounting' \in {"none", "warning", "active", "won", "lost"}
        /\ disputed' \in 0 .. Amount /\ lost' \in 0 .. Amount
        /\ refunded + disputed' + lost' <= Amount
    BY <1>1, <1>3 DEF RefundsTypeOK
  <2> QED BY <1>1, <1>5, <2>1 DEF RefundsTypeOK, JobsOK
<1>7. RequestRows'
  BY <1>1 DEF RequestRows
<1>8. RoomKept'
  BY <1>1, RoomStays DEF Alive
<1>9. RefundsCounted'
  BY <1>1, CountStays
<1> QED BY <1>5, <1>6, <1>7, <1>8, <1>9

LEMMA LookForReversalKeeps ==
    ASSUME RefundsInv, NEW h \in Workers, LookForReversal(h)
    PROVE  RefundsInv'
<1> USE Parameters DEF RefundsInv, requests, invoice, stripe, refundQueue, liability,
        disputeQueue
<1> DEFINE d == "from_connected"
           at(x) == [at |-> x, event |-> work[h].event, saw |-> work[h].saw]
           room == LeastOf(Disputed + Fee, Remaining)
           claim == [at |-> "claim", event |-> work[h].event, saw |-> work[h].saw, dir |-> d,
                     cents |-> room]
           start == [at |-> "start", event |-> work[h].event, saw |-> work[h].saw, dir |-> d]
<1>1. /\ work[h] \in ApplyJobs /\ work[h].event \in 1 .. Changes /\ work[h].saw \in Facts
      /\ d \in Directions
  BY JobKinds DEF LookForReversal, Directions
<1>2. movement[d] = "none" => room \in 0 .. Amount
  <2>1. CASE movement[d] = "none"
    <3>1. moved[d] = 0
      BY <1>1, <2>1 DEF MovementRows, MovedOnce
    <3>2. Total(Alive(refund)) \in Nat /\ Total(Alive(refund)) <= Amount
      BY AsksAddUp DEF Alive, RoomKept
    <3>3. Remaining \in 0 .. Amount
      BY <3>1, <3>2 DEF Remaining
    <3> QED BY <3>3 DEF LeastOf
  <2> QED BY <2>1
<1>3. /\ movement[d] = "none" => Harmless(claim)
      /\ movement[d] = "reserved" => Harmless(start)
      /\ movement[d] = "completed" => Harmless([work[h] EXCEPT !.at = "look again"])
  <2>1. movement[d] = "none" => claim \in ClaimJobs
    BY <1>1, <1>2 DEF ClaimJobs
  <2>2. start \in MoveJobs /\ [work[h] EXCEPT !.at = "look again"] \in ApplyJobs
    BY <1>1 DEF MoveJobs, ApplyJobs
  <2>3. [work[h] EXCEPT !.at = "look again"].at = "look again"
    BY <1>1 DEF ApplyJobs
  <2> QED BY <2>1, <2>2, <2>3 DEF Harmless, Jobs
<1>4. \E j : Harmless(j) /\ Go(h, j)
  BY <1>3, IdleHarmless DEF LookForReversal, AfterReversal, Claiming, Starting, Done, Throw
<1>5. raised' \subseteq raised
  BY DEF LookForReversal, AfterReversal, Done
<1>6. UNCHANGED <<given, requests, record, invoice, stripe, refundQueue, accounting, liability,
                  failures>>
  BY DEF LookForReversal
<1>7. JobsOK' /\ MovementRows'
  BY <1>4, <1>5, <1>6, HarmlessKeeps
<1>8. RefundsTypeOK'
  BY <1>5, <1>6, <1>7 DEF RefundsTypeOK, JobsOK
<1>9. RequestRows'
  BY <1>6 DEF RequestRows
<1>10. RoomKept'
  BY <1>6, RoomStays DEF Alive
<1>11. RefundsCounted'
  BY <1>6, CountStays
<1> QED BY <1>7, <1>8, <1>9, <1>10, <1>11

LEMMA LookForRestorationKeeps ==
    ASSUME RefundsInv, NEW h \in Workers, LookForRestoration(h)
    PROVE  RefundsInv'
<1> USE Parameters DEF RefundsInv, requests, invoice, stripe, refundQueue, liability,
        disputeQueue
<1> DEFINE d == "to_connected"
           room == LeastOf(cents["from_connected"], Back)
           claim == [at |-> "claim", event |-> work[h].event, saw |-> work[h].saw, dir |-> d,
                     cents |-> room]
           start == [at |-> "start", event |-> work[h].event, saw |-> work[h].saw, dir |-> d]
<1>1. /\ work[h].event \in 1 .. Changes /\ work[h].saw \in Facts
      /\ d \in Directions /\ cents["from_connected"] \in 0 .. Amount
      /\ movement["from_connected"] = "completed"
  BY JobKinds DEF LookForRestoration, Directions, RefundsTypeOK, MovementRows, InHand
<1>2. room \in 0 .. Amount /\ room <= cents["from_connected"]
  BY <1>1 DEF LeastOf
<1>3. Harmless(claim) /\ (movement[d] = "reserved" => Harmless(start))
  <2>1. claim \in ClaimJobs /\ start \in MoveJobs
    BY <1>1, <1>2 DEF ClaimJobs, MoveJobs
  <2> QED BY <1>1, <1>2, <2>1 DEF Harmless, Jobs
<1>4. \E j : Harmless(j) /\ Go(h, j)
  BY <1>3, IdleHarmless DEF LookForRestoration, Claiming, Starting, Done, Throw
<1>5. raised' \subseteq raised
  BY DEF LookForRestoration, Done
<1>6. UNCHANGED <<given, requests, record, invoice, stripe, refundQueue, accounting, liability,
                  failures>>
  BY DEF LookForRestoration
<1>7. JobsOK' /\ MovementRows'
  BY <1>4, <1>5, <1>6, HarmlessKeeps
<1>8. RefundsTypeOK'
  BY <1>5, <1>6, <1>7 DEF RefundsTypeOK, JobsOK
<1>9. RequestRows'
  BY <1>6 DEF RequestRows
<1>10. RoomKept'
  BY <1>6, RoomStays DEF Alive
<1>11. RefundsCounted'
  BY <1>6, CountStays
<1> QED BY <1>7, <1>8, <1>9, <1>10, <1>11

LEMMA ClaimKeeps ==
    ASSUME RefundsInv, NEW h \in Workers, Claim(h)
    PROVE  RefundsInv'
<1> USE Parameters DEF RefundsInv, requests, invoice, stripe, refundQueue, liability,
        disputeQueue
<1> DEFINE d == work[h].dir
           n == work[h].cents
           start == [at |-> "start", event |-> work[h].event, saw |-> work[h].saw, dir |-> d]
<1>1. UNCHANGED <<given, requests, record, invoice, stripe, refundQueue, accounting, moved,
                  failures>>
  BY DEF Claim
<1>2. /\ d \in Directions /\ n \in 0 .. Amount /\ work[h].at = "claim"
      /\ start \in MoveJobs /\ start \in Jobs /\ Idle \in Jobs
      /\ raised' \subseteq raised
  <2>1. work[h].at = "claim" /\ work[h] \in ClaimJobs
    BY JobKinds DEF Claim
  <2>2. raised' \subseteq raised
    BY DEF Claim, Done
  <2> QED BY <2>1, <2>2 DEF ClaimJobs, MoveJobs, Jobs
<1>3. ASSUME movement[d] # "none"
      PROVE  RefundsTypeOK' /\ JobsOK' /\ MovementRows'
  <2>1. Harmless(start)
    BY <1>2, <1>3 DEF Harmless, MoveJobs
  <2>2. UNCHANGED <<movement, cents>> /\ \E j : Harmless(j) /\ Go(h, j)
    BY <1>3, <2>1, IdleHarmless DEF Claim, Starting, Done, Throw
  <2>3. JobsOK' /\ MovementRows'
    BY <1>1, <1>2, <2>2, HarmlessKeeps
  <2>4. RefundsTypeOK'
    BY <1>1, <1>2, <2>2, <2>3 DEF RefundsTypeOK, JobsOK
  <2> QED BY <2>3, <2>4
<1>4. ASSUME movement[d] = "none"
      PROVE  RefundsTypeOK' /\ JobsOK' /\ MovementRows'
  <2>1. /\ movement' = [movement EXCEPT ![d] = IF n = 0 THEN "completed" ELSE "reserved"]
        /\ cents' = [cents EXCEPT ![d] = n]
        /\ IF n = 0 THEN Go(h, Idle) ELSE Go(h, start)
    BY <1>4 DEF Claim, Done, Throw, Starting
  <2>2. /\ \A c \in Directions :
              /\ movement'[c] = IF c # d THEN movement[c]
                                ELSE IF n = 0 THEN "completed" ELSE "reserved"
              /\ cents'[c] = IF c = d THEN n ELSE cents[c]
        /\ movement' \in [Directions -> {"none", "reserved", "external_started", "completed"}]
        /\ cents' \in [Directions -> 0 .. Amount]
        /\ moved' = moved
    BY <1>1, <1>2, <2>1 DEF RefundsTypeOK
  <2>3. PICK j \in {Idle, start} : Go(h, j)
    BY <2>1
  <2>4. JobsOK' /\ \A g \in Workers : work'[g] = IF g = h THEN j ELSE work[g]
    BY <1>1, <1>2, <2>3, GoKeeps
  <2>5. j.at \in {"idle", "start"} /\ (j.at = "start" => j.dir = d)
    BY DEF Idle
  <2>6. moved[d] = 0 /\ \A g \in Workers : InHand(g)
    BY <1>2, <1>4 DEF MovementRows, MovedOnce
  <2>7. ASSUME NEW c \in Directions PROVE MovedOnce(c)'
    <3>1. \A g \in Workers : Mover(g, c)' => Mover(g, c)
      BY <2>4, <2>5 DEF Mover
    <3> QED BY <2>2, <2>6, <3>1 DEF MovementRows, MovedOnce
  <2>8. ASSUME NEW g \in Workers PROVE InHand(g)'
    <3>1. CASE g = h
      BY <1>2, <2>2, <2>4, <2>5, <3>1 DEF InHand
    <3>2. CASE g # h
      <4>1. InHand(g) /\ work'[g] = work[g]
        BY <2>4, <2>6, <3>2
      <4>2. work[g].at \in {"claim", "start", "move", "complete"} => work[g].dir \in Directions
        BY JobKinds
      <4> QED BY <1>4, <2>2, <4>1, <4>2 DEF InHand, Directions
    <3> QED BY <3>1, <3>2
  <2>9. movement'["to_connected"] # "none" =>
           /\ movement'["from_connected"] = "completed"
           /\ cents'["to_connected"] <= cents'["from_connected"]
    <3>1. d = "to_connected" => /\ movement["from_connected"] = "completed"
                                /\ n <= cents["from_connected"]
      BY <1>2, <2>6 DEF InHand
    <3> QED BY <1>2, <1>4, <2>2, <3>1 DEF MovementRows, Directions
  <2>10. RefundsTypeOK'
    BY <1>1, <1>2, <2>2, <2>4 DEF RefundsTypeOK, JobsOK
  <2>11. MovementRows'
    BY <2>7, <2>8, <2>9 DEF MovementRows
  <2> QED BY <2>4, <2>10, <2>11
<1>5. RefundsTypeOK' /\ JobsOK' /\ MovementRows'
  BY <1>3, <1>4
<1>6. RequestRows'
  BY <1>1 DEF RequestRows
<1>7. RoomKept'
  BY <1>1, RoomStays DEF Alive
<1>8. RefundsCounted'
  BY <1>1, CountStays
<1> QED BY <1>5, <1>6, <1>7, <1>8

LEMMA StartKeeps ==
    ASSUME RefundsInv, NEW h \in Workers, Start(h)
    PROVE  RefundsInv'
<1> USE Parameters DEF RefundsInv, requests, invoice, stripe, refundQueue, liability,
        disputeQueue
<1> DEFINE d == work[h].dir
           move == [work[h] EXCEPT !.at = "move"]
<1>1. UNCHANGED <<given, requests, record, invoice, stripe, refundQueue, accounting, cents,
                  moved, raised, failures>>
  BY DEF Start
<1>2. /\ d \in Directions /\ work[h].at = "start"
      /\ move \in MoveJobs /\ move \in Jobs /\ move.at = "move" /\ move.dir = d
  <2>1. work[h].at = "start" /\ work[h] \in MoveJobs
    BY JobKinds DEF Start
  <2> QED BY <2>1 DEF MoveJobs, Jobs
<1>3. ASSUME movement[d] # "reserved"
      PROVE  RefundsTypeOK' /\ JobsOK' /\ MovementRows'
  <2>1. UNCHANGED movement /\ Go(h, Idle)
    BY <1>3 DEF Start, Throw
  <2>2. JobsOK' /\ MovementRows'
    BY <1>1, <2>1, IdleHarmless, HarmlessKeeps
  <2>3. RefundsTypeOK'
    BY <1>1, <2>1, <2>2 DEF RefundsTypeOK, JobsOK
  <2> QED BY <2>2, <2>3
<1>4. ASSUME movement[d] = "reserved"
      PROVE  RefundsTypeOK' /\ JobsOK' /\ MovementRows'
  <2>1. movement' = [movement EXCEPT ![d] = "external_started"] /\ Go(h, move)
    BY <1>4 DEF Start
  <2>2. /\ \A c \in Directions :
              movement'[c] = IF c = d THEN "external_started" ELSE movement[c]
        /\ movement' \in [Directions -> {"none", "reserved", "external_started", "completed"}]
    BY <1>2, <2>1 DEF RefundsTypeOK
  <2>3. JobsOK' /\ \A g \in Workers : work'[g] = IF g = h THEN move ELSE work[g]
    BY <1>1, <1>2, <2>1, GoKeeps
  <2>4. moved[d] = 0 /\ \A g \in Workers : InHand(g) /\ ~Mover(g, d)
    BY <1>2, <1>4 DEF MovementRows, MovedOnce, InHand, Mover
  <2>5. ASSUME NEW c \in Directions PROVE MovedOnce(c)'
    <3>1. \A g \in Workers : Mover(g, c)' => Mover(g, c) \/ (g = h /\ c = d)
      BY <1>2, <2>3 DEF Mover
    <3> QED BY <1>1, <2>2, <2>4, <3>1 DEF MovementRows, MovedOnce
  <2>6. ASSUME NEW g \in Workers PROVE InHand(g)'
    <3>1. CASE g = h
      BY ZenonT(60), <1>1, <1>2, <2>2, <2>3, <2>4, <3>1 DEF InHand
    <3>2. CASE g # h
      <4>1. InHand(g) /\ work'[g] = work[g] /\ ~Mover(g, d)
        BY <2>3, <2>4, <3>2
      <4>2. work[g].at \in {"claim", "start", "move", "complete"} => work[g].dir \in Directions
        BY JobKinds
      <4> QED BY <1>1, <1>4, <2>2, <4>1, <4>2 DEF InHand, Mover, Directions
    <3> QED BY <3>1, <3>2
  <2>7. movement'["to_connected"] # "none" =>
           /\ movement'["from_connected"] = "completed"
           /\ cents'["to_connected"] <= cents'["from_connected"]
    BY <1>1, <1>2, <1>4, <2>2 DEF MovementRows, Directions
  <2>8. RefundsTypeOK'
    BY <1>1, <2>2, <2>3 DEF RefundsTypeOK, JobsOK
  <2>9. MovementRows'
    BY <2>5, <2>6, <2>7 DEF MovementRows
  <2> QED BY <2>3, <2>8, <2>9
<1>5. RefundsTypeOK' /\ JobsOK' /\ MovementRows'
  BY <1>3, <1>4
<1>6. RequestRows'
  BY <1>1 DEF RequestRows
<1>7. RoomKept'
  BY <1>1, RoomStays DEF Alive
<1>8. RefundsCounted'
  BY <1>1, CountStays
<1> QED BY <1>5, <1>6, <1>7, <1>8

LEMMA MoveKeeps ==
    ASSUME RefundsInv, NEW h \in Workers, Move(h)
    PROVE  RefundsInv'
<1> USE Parameters DEF RefundsInv, requests, invoice, stripe, refundQueue, liability,
        disputeQueue
<1> DEFINE d == work[h].dir
           complete == [work[h] EXCEPT !.at = "complete"]
<1>1. UNCHANGED <<given, requests, record, invoice, stripe, refundQueue, accounting, movement,
                  cents, raised, failures>>
  BY DEF Move
<1>2. /\ d \in Directions /\ work[h].at = "move"
      /\ complete \in MoveJobs /\ complete \in Jobs
      /\ complete.at = "complete" /\ complete.dir = d
  <2>1. work[h].at = "move" /\ work[h] \in MoveJobs
    BY JobKinds DEF Move
  <2> QED BY <2>1 DEF MoveJobs, Jobs
<1>3. ASSUME moved' = moved, Go(h, Idle)
      PROVE  RefundsTypeOK' /\ JobsOK' /\ MovementRows'
  <2>1. JobsOK' /\ MovementRows'
    BY <1>1, <1>3, IdleHarmless, HarmlessKeeps
  <2>2. RefundsTypeOK'
    BY <1>1, <1>3, <2>1 DEF RefundsTypeOK, JobsOK
  <2> QED BY <2>1, <2>2
<1>4. ASSUME moved' = [moved EXCEPT ![d] = @ + cents[d]], Go(h, complete)
      PROVE  RefundsTypeOK' /\ JobsOK' /\ MovementRows'
  <2>1. /\ moved[d] = 0 /\ movement[d] = "external_started"
        /\ \A g \in Workers : InHand(g) /\ (Mover(g, d) => g = h)
    BY <1>2 DEF MovementRows, MovedOnce, InHand, Mover
  <2>2. /\ \A c \in Directions : moved'[c] = IF c = d THEN cents[d] ELSE moved[c]
        /\ moved' \in [Directions -> 0 .. Amount]
    BY <1>2, <1>4, <2>1 DEF RefundsTypeOK
  <2>3. JobsOK' /\ \A g \in Workers : work'[g] = IF g = h THEN complete ELSE work[g]
    BY <1>1, <1>2, <1>4, GoKeeps
  <2>4. ASSUME NEW c \in Directions PROVE MovedOnce(c)'
    <3>1. \A g \in Workers : Mover(g, c)' => Mover(g, c)
      BY <1>2, <2>3 DEF Mover
    <3> QED BY <1>1, <2>1, <2>2, <3>1 DEF MovementRows, MovedOnce
  <2>5. ASSUME NEW g \in Workers PROVE InHand(g)'
    <3>1. CASE g = h
      BY ZenonT(60), <1>1, <1>2, <2>1, <2>2, <2>3, <3>1 DEF InHand
    <3>2. CASE g # h
      <4>1. InHand(g) /\ work'[g] = work[g] /\ ~Mover(g, d)
        BY <2>1, <2>3, <3>2
      <4>2. work[g].at \in {"claim", "start", "move", "complete"} => work[g].dir \in Directions
        BY JobKinds
      <4> QED BY <1>1, <2>2, <4>1, <4>2 DEF InHand, Mover
    <3> QED BY <3>1, <3>2
  <2>6. RefundsTypeOK'
    BY <1>1, <2>2, <2>3 DEF RefundsTypeOK, JobsOK
  <2>7. MovementRows'
    BY <1>1, <2>4, <2>5 DEF MovementRows
  <2> QED BY <2>3, <2>6, <2>7
<1>5. RefundsTypeOK' /\ JobsOK' /\ MovementRows'
  BY <1>3, <1>4 DEF Move, Throw
<1>6. RequestRows'
  BY <1>1 DEF RequestRows
<1>7. RoomKept'
  BY <1>1, RoomStays DEF Alive
<1>8. RefundsCounted'
  BY <1>1, CountStays
<1> QED BY <1>5, <1>6, <1>7, <1>8

LEMMA CompleteMoveKeeps ==
    ASSUME RefundsInv, NEW h \in Workers, CompleteMove(h)
    PROVE  RefundsInv'
<1> USE Parameters DEF RefundsInv, requests, invoice, stripe, refundQueue, liability,
        disputeQueue
<1> DEFINE d == work[h].dir
           look == [work[h] EXCEPT !.at = "look again"]
<1>1. UNCHANGED <<given, requests, record, invoice, stripe, refundQueue, accounting, cents,
                  moved, failures>>
  BY DEF CompleteMove
<1>2. /\ d \in Directions /\ work[h].at = "complete" /\ raised' \subseteq raised
      /\ look \in Jobs /\ look.at = "look again" /\ Idle \in Jobs
  <2>1. work[h].at = "complete" /\ work[h] \in MoveJobs
    BY JobKinds DEF CompleteMove
  <2>2. raised' \subseteq raised
    BY DEF CompleteMove, Done
  <2> QED BY <2>1, <2>2 DEF MoveJobs, Jobs
<1>3. /\ moved[d] = cents[d] /\ movement[d] = "external_started"
      /\ \A g \in Workers : InHand(g) /\ (Mover(g, d) => g = h)
  BY <1>2 DEF MovementRows, MovedOnce, InHand, Mover
<1>4. /\ \A c \in Directions : movement'[c] = IF c = d THEN "completed" ELSE movement[c]
      /\ movement' \in [Directions -> {"none", "reserved", "external_started", "completed"}]
  BY <1>2 DEF CompleteMove, RefundsTypeOK
<1>5. PICK j \in {Idle, look} : Go(h, j) /\ (j # Idle => d = "from_connected")
  BY DEF CompleteMove, Done, Throw
<1>6. JobsOK' /\ \A g \in Workers : work'[g] = IF g = h THEN j ELSE work[g]
  BY <1>1, <1>2, <1>5, GoKeeps
<1>7. j.at \in {"idle", "look again"} /\ (j.at = "look again" => d = "from_connected")
  <2>1. CASE j = Idle
    BY <2>1 DEF Idle
  <2>2. CASE j # Idle
    BY <1>2, <1>5, <2>2
  <2> QED BY <2>1, <2>2
<1>8. ASSUME NEW c \in Directions PROVE MovedOnce(c)'
  <2>1. \A g \in Workers : Mover(g, c)' => Mover(g, c)
    BY <1>6, <1>7 DEF Mover
  <2> QED BY <1>1, <1>3, <1>4, <2>1 DEF MovementRows, MovedOnce
<1>9. ASSUME NEW g \in Workers PROVE InHand(g)'
  <2>1. CASE g = h
    BY <1>2, <1>4, <1>6, <1>7, <2>1 DEF InHand
  <2>2. CASE g # h
    <3>1. InHand(g) /\ work'[g] = work[g] /\ ~Mover(g, d)
      BY <1>3, <1>6, <2>2
    <3>2. work[g].at \in {"claim", "start", "move", "complete"} => work[g].dir \in Directions
      BY JobKinds
    <3> QED BY <1>1, <1>4, <3>1, <3>2 DEF InHand, Mover, Directions
  <2> QED BY <2>1, <2>2
<1>10. movement'["to_connected"] # "none" =>
          /\ movement'["from_connected"] = "completed"
          /\ cents'["to_connected"] <= cents'["from_connected"]
  BY <1>1, <1>3, <1>4 DEF MovementRows, Directions
<1>11. MovementRows'
  BY <1>8, <1>9, <1>10 DEF MovementRows
<1>12. RefundsTypeOK' /\ JobsOK'
  BY <1>1, <1>2, <1>4, <1>6 DEF RefundsTypeOK, JobsOK
<1>13. RequestRows'
  BY <1>1 DEF RequestRows
<1>14. RoomKept'
  BY <1>1, RoomStays DEF Alive
<1>15. RefundsCounted'
  BY <1>1, CountStays
<1> QED BY <1>11, <1>12, <1>13, <1>14, <1>15

LEMMA StopHandlerKeeps ==
    ASSUME RefundsInv, NEW h \in Workers, failures < Failures, StopHandler(h)
    PROVE  RefundsInv'
<1> USE Parameters DEF RefundsInv, requests, invoice, stripe, refundQueue, liability,
        disputeQueue, StopHandler, Throw
<1>1. JobsOK' /\ MovementRows'
  BY IdleHarmless, HarmlessKeeps
<1>2. RequestRows' /\ RoomKept' /\ RefundsCounted'
  BY RoomStays, CountStays DEF RequestRows, Alive
<1>3. RefundsTypeOK'
  BY <1>1 DEF RefundsTypeOK, JobsOK
<1> QED BY <1>1, <1>2, <1>3

-----------------------------------------------------------------------------
(* The invariant holds of every behaviour.                                 *)

LEMMA RefundsStarts == RefundsInit => RefundsInv
<1> SUFFICES ASSUME RefundsInit PROVE RefundsInv
  OBVIOUS
<1> USE Parameters DEF RefundsInit
<1>1. RefundsTypeOK
  <2>1. record \in [Refunds -> RefundStatuses] /\ refund \in [Refunds -> RefundStatuses]
    BY DEF RefundStatuses
  <2>2. cents \in [Directions -> 0 .. Amount] /\ moved \in [Directions -> 0 .. Amount]
    OBVIOUS
  <2> QED BY <2>1, <2>2 DEF RefundsTypeOK, DisputeFacts
<1>2. JobsOK
  BY DEF JobsOK, Jobs
<1>3. RequestRows
  BY DEF RequestRows, Claimed
<1>4. Alive(refund) = {} /\ {k \in Refunds : record[k] = "succeeded"} = {}
  BY DEF Alive
<1>5. Total({}) = 0
  BY AsksAddUp
<1>6. RoomKept
  <2>1. Total(Alive(refund)) <= Amount
    BY ONLY <1>4, <1>5, Parameters
  <2>2. \A k \in Keys : step[k] = "idle"
    OBVIOUS
  <2> QED BY <2>1, <2>2 DEF RoomKept
<1>7. RefundsCounted
  BY <1>4, <1>5 DEF RefundsCounted
<1>8. MovementRows
  <2>1. Idle.at = "idle"
    BY DEF Idle
  <2>2. \A h \in Workers : work[h].at = "idle"
    BY <2>1
  <2>3. "from_connected" \in Directions /\ "to_connected" \in Directions
    BY DEF Directions
  <2>4. \A d \in Directions : MovedOnce(d)
    BY <2>2 DEF MovedOnce, Mover
  <2>5. \A h \in Workers : InHand(h)
    BY <2>2 DEF InHand
  <2> QED BY <2>3, <2>4, <2>5 DEF MovementRows
<1> QED BY <1>1, <1>2, <1>3, <1>6, <1>7, <1>8 DEF RefundsInv

\* No step of anybody breaks the invariant.
LEMMA RefundsSteps == RefundsInv /\ [RefundsNext]_refundsVars => RefundsInv'
<1> SUFFICES ASSUME RefundsInv, [RefundsNext]_refundsVars PROVE RefundsInv'
  OBVIOUS
<1>1. given.keys \subseteq Keys /\ given.workers \subseteq Workers
  BY Parameters DEF RefundsInv, RefundsTypeOK
<1>2. ASSUME NEW k \in given.keys, Reserve(k) \/ Load(k) \/ Fail(k) \/ BeginExternal(k)
      PROVE  RefundsInv'
  BY <1>1, <1>2, ReserveKeeps, LoadKeeps, FailKeeps, BeginExternalKeeps
<1>3. ASSUME NEW k \in given.keys, Create(k) \/ RecordPending(k) \/ Complete(k)
      PROVE  RefundsInv'
  BY <1>1, <1>3, CreateKeeps, RecordPendingKeeps, CompleteKeeps
<1>4. ASSUME NEW k \in given.keys, CanStop, StopRequest(k) PROVE RefundsInv'
  BY <1>1, <1>4, StopRequestKeeps DEF CanStop
<1>5. CASE RefundOutside
  BY <1>5, RefundOutsideKeeps
<1>6. ASSUME NEW k \in Refunds, NEW s \in RefundStatuses, RefundChange(k, s) PROVE RefundsInv'
  BY <1>6, RefundChangeKeeps
<1>7. ASSUME NEW e \in todo, FetchRefunds(e) \/ HandleRefund(e) PROVE RefundsInv'
  BY <1>7, FetchRefundsKeeps, HandleRefundKeeps
<1>8. ASSUME NEW s \in DisputeFacts, DisputeChange(s) PROVE RefundsInv'
  BY <1>8, DisputeChangeKeeps
<1>9. ASSUME NEW h \in given.workers, NEW n \in raised, FetchDispute(h, n) PROVE RefundsInv'
  BY <1>1, <1>9, FetchDisputeKeeps
<1>10. ASSUME NEW h \in given.workers,
              ApplyDispute(h) \/ LookForReversal(h) \/ LookForRestoration(h)
       PROVE  RefundsInv'
  BY <1>1, <1>10, ApplyDisputeKeeps, LookForReversalKeeps, LookForRestorationKeeps
<1>11. ASSUME NEW h \in given.workers, Claim(h) \/ Start(h) \/ Move(h) \/ CompleteMove(h)
       PROVE  RefundsInv'
  BY <1>1, <1>11, ClaimKeeps, StartKeeps, MoveKeeps, CompleteMoveKeeps
<1>12. ASSUME NEW h \in given.workers, CanStop, StopHandler(h) PROVE RefundsInv'
  BY <1>1, <1>12, StopHandlerKeeps DEF CanStop
<1>13. CASE UNCHANGED refundsVars
  <2> USE <1>13 DEF refundsVars, requests, invoice, stripe, refundQueue, liability,
          disputeQueue,
                    RefundsInv
  <2>1. RefundsTypeOK' /\ RequestRows'
    BY DEF RefundsTypeOK, RequestRows
  <2>2. JobsOK' /\ MovementRows'
    BY DisputesStay
  <2>3. RoomKept' /\ RefundsCounted'
    BY RoomStays, CountStays DEF Alive
  <2> QED BY <2>1, <2>2, <2>3
<1> QED BY <1>2, <1>3, <1>4, <1>5, <1>6, <1>7, <1>8, <1>9, <1>10, <1>11, <1>12, <1>13
        DEF RefundsNext

\* The books follow from the rows.
LEMMA BooksFollow == RefundsInv => BooksAgree
<1> SUFFICES ASSUME RefundsInv PROVE BooksAgree
  OBVIOUS
<1> USE DEF RefundsInv
<1>1. refunded = Total({k \in Refunds : record[k] = "succeeded"})
  BY DEF RefundsCounted
<1>2. \A d \in Directions :
         /\ moved[d] \in {0, cents[d]}
         /\ movement[d] = "completed" => moved[d] = cents[d]
         /\ movement[d] \in {"none", "reserved"} => moved[d] = 0
  BY DEF MovementRows, MovedOnce
<1>3. moved["to_connected"] <= moved["from_connected"]
  <2>1. /\ moved["from_connected"] \in 0 .. Amount /\ cents["to_connected"] \in 0 .. Amount
        /\ "from_connected" \in Directions /\ "to_connected" \in Directions
    BY DEF RefundsTypeOK, Directions
  <2>2. CASE movement["to_connected"] = "none"
    BY <1>2, <2>1, <2>2, Parameters
  <2>3. CASE movement["to_connected"] # "none"
    <3>1. /\ moved["from_connected"] = cents["from_connected"]
          /\ cents["to_connected"] <= cents["from_connected"]
      BY <1>2, <2>1, <2>3 DEF MovementRows
    <3>2. moved["to_connected"] \in {0, cents["to_connected"]}
      BY <1>2, <2>1
    <3> QED BY <2>1, <3>1, <3>2, Parameters
  <2> QED BY <2>2, <2>3
<1>4. \A k \in Keys : step[k] = "record" => Recordable(k)
  BY DEF RoomKept
<1> QED BY <1>1, <1>2, <1>3, <1>4 DEF BooksAgree

\* The request in hand, the rows, Stripe's refunds and movements and the
\* handlers' work agree as RefundsInv says, whatever stops, overlaps or repeats.
THEOREM RefundsInductive == RefundsSpec => []RefundsInv
<1> QED BY RefundsStarts, RefundsSteps, PTL DEF RefundsSpec

\* Every variable keeps its type, and what is refunded, disputed and lost never
\* exceeds what the invoice was paid.
THEOREM RefundsTypeCorrect == RefundsSpec => []RefundsTypeOK
<1>1. RefundsInv => RefundsTypeOK
  BY DEF RefundsInv
<1> QED BY <1>1, RefundsInductive, PTL

\* The invoice gives back what the succeeded refunds say, each movement of a
\* dispute's money is made once, the organization gets no more back than it
\* gave, and Stripe makes no refund whose row would be refused.
THEOREM BooksAlwaysAgree == RefundsSpec => []BooksAgree
<1> QED BY BooksFollow, RefundsInductive, PTL
=============================================================================
