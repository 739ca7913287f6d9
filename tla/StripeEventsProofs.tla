------------------------- MODULE StripeEventsProofs -------------------------
(***************************************************************************)
(* Invariance proofs for StripeEvents, for any events, workers, limits and *)
(* any number of tries, stops and overruns.                                *)
(***************************************************************************)
EXTENDS StripeEvents, TLAPS

\* Whatever waits to be enqueued, is queued or is being dispatched is stored.
OnlyStored ==
    /\ \A j \in storing : j[1] \in ToSet(inbox)
    /\ \A j \in Jobs : queue[j] > 0 => j[1] \in ToSet(inbox)
    /\ \A w \in Dispatchers : stage[w] # "idle" => run[w] \in ToSet(inbox)

EventsInv == EventsTypeOK /\ OnlyStored /\ ProcessedOnce

-----------------------------------------------------------------------------
\* Storing an event once more, or for the first time, keeps the inbox free of
\* duplicates.
LEMMA InboxGrows ==
    ASSUME NEW e \in Events, inbox \in Seq(Events), IsInjective(inbox), e \notin ToSet(inbox)
    PROVE  /\ Append(inbox, e) \in Seq(Events)
           /\ IsInjective(Append(inbox, e))
           /\ ToSet(Append(inbox, e)) = ToSet(inbox) \cup {e}
<1> DEFINE longer == Append(inbox, e)
<1>1. /\ longer \in Seq(Events)
      /\ DOMAIN longer = 1 .. Len(inbox) + 1 /\ DOMAIN inbox = 1 .. Len(inbox)
      /\ \A i \in 1 .. Len(inbox) : longer[i] = inbox[i]
      /\ longer[Len(inbox) + 1] = e
      /\ Len(inbox) \in Nat
  OBVIOUS
<1> HIDE DEF longer
<1>2. IsInjective(longer)
  BY <1>1 DEF IsInjective, ToSet
<1>3. ToSet(longer) = ToSet(inbox) \cup {e}
  BY <1>1 DEF ToSet
<1> QED BY <1>1, <1>2, <1>3 DEF longer

LEMMA StoredEvents ==
    ASSUME inbox \in Seq(Events) PROVE ToSet(inbox) \subseteq Events
BY DEF ToSet

LEMMA EventsInitially == EventsInit => EventsInv
<1> SUFFICES ASSUME EventsInit PROVE EventsInv
  OBVIOUS
<1>1. ToSet(<<>>) = {} /\ IsInjective(<<>>)
  BY DEF ToSet, IsInjective
<1>2. EventsTypeOK
  BY <1>1, EventAssumption DEF EventsInit, EventsTypeOK, Jobs, NoJob
<1>3. OnlyStored
  BY DEF EventsInit, OnlyStored
<1>4. ProcessedOnce
  BY DEF EventsInit, ProcessedOnce
<1> QED BY <1>2, <1>3, <1>4 DEF EventsInv

-----------------------------------------------------------------------------
(* Webhooks.                                                               *)

LEMMA ReceiveKeeps ==
    ASSUME EventsInv, NEW e \in Events, Receive(e) PROVE EventsInv'
<1>1. /\ inbox' \in Seq(Events) /\ IsInjective(inbox')
      /\ ToSet(inbox') = ToSet(inbox) \cup {e}
  BY InboxGrows DEF EventsInv, EventsTypeOK, Receive
<1>2. sent' \in [Events -> 0 .. Deliveries] /\ sent'[e] \in 1 .. Deliveries
  BY EventAssumption DEF EventsInv, EventsTypeOK, Receive
<1>3. storing' \subseteq storing \cup {<<e, sent'[e]>>} /\ <<e, sent'[e]>> \in Jobs
  BY <1>2 DEF Receive, Jobs
<1>4. EventsTypeOK'
  BY <1>1, <1>2, <1>3 DEF EventsInv, EventsTypeOK, Receive, workers, bounds, webhooks
<1>5. OnlyStored'
  BY <1>1, <1>3 DEF EventsInv, OnlyStored, Receive, workers
<1>6. ProcessedOnce'
  BY DEF EventsInv, ProcessedOnce, Receive
<1> QED BY <1>4, <1>5, <1>6 DEF EventsInv

LEMMA EnqueueKeeps ==
    ASSUME EventsInv, NEW j \in Jobs, Enqueue(j) \/ LoseEnqueue(j) PROVE EventsInv'
<1> USE DEF webhooks, rows, workers, bounds
<1>1. EventsTypeOK'
  BY EventAssumption DEF EventsInv, EventsTypeOK, Enqueue, LoseEnqueue
<1>2. OnlyStored'
  BY DEF EventsInv, EventsTypeOK, OnlyStored, Enqueue, LoseEnqueue
<1>3. ProcessedOnce'
  BY DEF EventsInv, ProcessedOnce, Enqueue, LoseEnqueue
<1> QED BY <1>1, <1>2, <1>3 DEF EventsInv

-----------------------------------------------------------------------------
(* Dispatching.                                                            *)

\* A stored event is claimed.
LEMMA ClaimKeeps ==
    ASSUME EventsInv, NEW w \in Dispatchers, NEW e \in ToSet(inbox),
           NEW j \in Jobs \cup {NoJob}, Claim(w, e, j),
           pass' \in SUBSET pass, UNCHANGED <<webhooks, queue, ended, bounds>>
    PROVE  EventsInv'
<1> USE DEF webhooks, bounds
<1>1. e \in Events
  BY StoredEvents DEF EventsInv, EventsTypeOK
<1>2. EventsTypeOK'
  BY <1>1 DEF EventsInv, EventsTypeOK, Claim, Dispatchers
<1>3. OnlyStored'
  BY DEF EventsInv, EventsTypeOK, OnlyStored, Claim
<1>4. ProcessedOnce'
  BY DEF EventsInv, ProcessedOnce, Claim
<1> QED BY <1>2, <1>3, <1>4 DEF EventsInv

LEMMA TakeJobKeeps ==
    ASSUME EventsInv, NEW w \in Workers, NEW j \in Jobs, TakeJob(w, j) PROVE EventsInv'
<1>1. CASE Claim(w, j[1], j) /\ UNCHANGED queue
  BY <1>1, ClaimKeeps DEF EventsInv, OnlyStored, TakeJob, Dispatchers
<1>2. CASE queue' = [queue EXCEPT ![j] = 0] /\ UNCHANGED <<rows, workers>>
  <2> USE <1>2 DEF webhooks, rows, workers, bounds
  <2>1. EventsTypeOK'
    BY EventAssumption DEF EventsInv, EventsTypeOK, TakeJob
  <2>2. OnlyStored'
    BY DEF EventsInv, EventsTypeOK, OnlyStored, TakeJob
  <2>3. ProcessedOnce'
    BY DEF EventsInv, ProcessedOnce, TakeJob
  <2> QED BY <2>1, <2>2, <2>3 DEF EventsInv
<1> QED BY <1>1, <1>2 DEF TakeJob

LEMMA ReplayKeeps ==
    ASSUME EventsInv, StartReplay \/ Replay PROVE EventsInv'
<1>1. CASE StartReplay
  <2> USE <1>1 DEF webhooks, rows, workers, bounds
  <2>1. EventsTypeOK'
    BY DEF EventsInv, EventsTypeOK, StartReplay, Pending
  <2>2. OnlyStored'
    BY DEF EventsInv, OnlyStored, StartReplay
  <2>3. ProcessedOnce'
    BY DEF EventsInv, ProcessedOnce, StartReplay
  <2> QED BY <2>1, <2>2, <2>3 DEF EventsInv
<1>2. CASE Replay
  <2>1. PICK e \in pass :
           /\ pass' = pass \ {e}
           /\ \/ Claim(Replayer, e, NoJob)
              \/ UNCHANGED <<rows, workers>>
    BY <1>2 DEF Replay
  <2>2. CASE Claim(Replayer, e, NoJob)
    BY <1>2, <2>1, <2>2, ClaimKeeps DEF EventsInv, EventsTypeOK, Replay, Dispatchers
  <2>3. CASE UNCHANGED <<rows, workers>>
    <3> USE <1>2, <2>1, <2>3 DEF webhooks, rows, workers, bounds
    <3>1. EventsTypeOK'
      BY DEF EventsInv, EventsTypeOK, Replay
    <3>2. OnlyStored'
      BY DEF EventsInv, OnlyStored, Replay
    <3>3. ProcessedOnce'
      BY DEF EventsInv, ProcessedOnce, Replay
    <3> QED BY <3>1, <3>2, <3>3 DEF EventsInv
  <2> QED BY <2>1, <2>2, <2>3
<1> QED BY <1>1, <1>2

\* A dispatch whose job keeps what tries it has left, or loses one or all.
LEMMA QueueShrinks ==
    ASSUME EventsInv, NEW w \in Dispatchers,
           Retry(w) \/ queue' = [j \in Jobs |-> IF j = job[w] THEN 0 ELSE queue[j]]
    PROVE  /\ queue' \in [Jobs -> 0 .. Tries]
           /\ \A j \in Jobs : queue'[j] > 0 => queue[j] > 0
<1>1. Tries \in Nat /\ queue \in [Jobs -> 0 .. Tries]
  BY EventAssumption DEF EventsInv, EventsTypeOK
<1>2. CASE Retry(w)
  <2>1. \A j \in Jobs : queue'[j] \in 0 .. queue[j]
    BY <1>1, <1>2 DEF Retry
  <2>2. queue' = [j \in Jobs |-> queue'[j]]
    BY <1>2 DEF Retry
  <2> QED BY <1>1, <2>1, <2>2
<1>3. CASE queue' = [j \in Jobs |-> IF j = job[w] THEN 0 ELSE queue[j]]
  BY <1>1, <1>3
<1> QED BY <1>2, <1>3

\* What completing, failing, stopping and handling have in common: rows stay
\* where they are and no dispatch begins.
LEMMA RestKeeps ==
    ASSUME EventsInv, NEW w \in Dispatchers, Rest(w),
           Retry(w) \/ queue' = [j \in Jobs |-> IF j = job[w] THEN 0 ELSE queue[j]],
           inbox' = inbox, storing' = storing, sent' = sent,
           pass' \in SUBSET pass, processed' \in SUBSET ToSet(inbox),
           holder' \in [Events -> Dispatchers \cup {Nobody}], live' \in [Events -> BOOLEAN],
           ended' \in [Events -> Nat], overruns' \in Nat, stops' \in Nat,
           ProcessedOnce'
    PROVE  EventsInv'
<1>1. run' \in [Dispatchers -> Events \cup {NoEvent}]
      /\ job' \in [Dispatchers -> Jobs \cup {NoJob}]
      /\ stage' \in [Dispatchers -> {"idle", "handle", "complete", "fail"}]
  BY DEF EventsInv, EventsTypeOK, Rest
<1>2. EventsTypeOK'
  BY <1>1, QueueShrinks DEF EventsInv, EventsTypeOK
<1>3. OnlyStored'
  BY QueueShrinks DEF EventsInv, EventsTypeOK, OnlyStored, Rest
<1> QED BY <1>2, <1>3 DEF EventsInv

LEMMA HandleKeeps ==
    ASSUME EventsInv, NEW w \in Dispatchers, Handle(w) PROVE EventsInv'
<1> USE DEF webhooks, rows, bounds
<1>1. EventsTypeOK'
  BY DEF EventsInv, EventsTypeOK, Handle
<1>2. OnlyStored'
  BY DEF EventsInv, EventsTypeOK, OnlyStored, Handle
<1>3. ProcessedOnce'
  BY DEF EventsInv, ProcessedOnce, Handle
<1> QED BY <1>1, <1>2, <1>3 DEF EventsInv

LEMMA CompleteKeeps ==
    ASSUME EventsInv, NEW w \in Dispatchers, Complete(w) PROVE EventsInv'
<1> USE DEF webhooks, bounds
<1>1. run[w] \in ToSet(inbox) /\ run[w] \in Events
  BY StoredEvents DEF EventsInv, EventsTypeOK, OnlyStored, Complete
<1>2. CASE holder[run[w]] = w /\ run[w] \notin processed
  <2>1. /\ processed' = processed \cup {run[w]}
        /\ holder' = [holder EXCEPT ![run[w]] = Nobody]
        /\ live' = [live EXCEPT ![run[w]] = FALSE]
        /\ ended' = [ended EXCEPT ![run[w]] = @ + 1]
        /\ queue' = [j \in Jobs |-> IF j = job[w] THEN 0 ELSE queue[j]]
    BY <1>2 DEF Complete
  <2>2. ProcessedOnce'
    BY <1>1, <1>2, <2>1 DEF EventsInv, EventsTypeOK, ProcessedOnce
  <2>3. /\ processed' \in SUBSET ToSet(inbox)
        /\ holder' \in [Events -> Dispatchers \cup {Nobody}]
        /\ live' \in [Events -> BOOLEAN]
        /\ ended' \in [Events -> Nat]
    BY <1>1, <2>1 DEF EventsInv, EventsTypeOK
  <2> QED BY <2>1, <2>2, <2>3, RestKeeps DEF EventsInv, EventsTypeOK, Complete
<1>3. CASE ~(holder[run[w]] = w /\ run[w] \notin processed)
  <2>1. Retry(w) /\ UNCHANGED <<processed, holder, live, ended>>
    BY <1>3 DEF Complete
  <2>2. ProcessedOnce'
    BY <2>1 DEF EventsInv, ProcessedOnce
  <2> QED BY <2>1, <2>2, RestKeeps DEF EventsInv, EventsTypeOK, Complete
<1> QED BY <1>2, <1>3

LEMMA FailKeeps ==
    ASSUME EventsInv, NEW w \in Dispatchers, Fail(w) PROVE EventsInv'
<1> USE DEF webhooks, bounds
<1>1. holder' \in [Events -> Dispatchers \cup {Nobody}] /\ live' \in [Events -> BOOLEAN]
  BY DEF EventsInv, EventsTypeOK, Fail
<1>2. ProcessedOnce'
  BY DEF EventsInv, ProcessedOnce, Fail
<1> QED BY <1>1, <1>2, RestKeeps DEF EventsInv, EventsTypeOK, Fail

LEMMA StopKeeps ==
    ASSUME EventsInv, NEW w \in Dispatchers, Stop(w) PROVE EventsInv'
<1> USE DEF webhooks, rows
<1>1. ProcessedOnce'
  BY DEF EventsInv, ProcessedOnce, Stop
<1>2. /\ Rest(w) /\ Retry(w)
      /\ inbox' = inbox /\ storing' = storing /\ sent' = sent /\ processed' = processed
      /\ pass' \in SUBSET pass
      /\ UNCHANGED <<holder, live, ended, overruns>>
  BY DEF Stop
<1>3. stops' \in Nat
  BY DEF EventsInv, EventsTypeOK, Stop
<1> QED BY <1>1, <1>2, <1>3, RestKeeps DEF EventsInv, EventsTypeOK

LEMMA LeaseExpiresKeeps ==
    ASSUME EventsInv, NEW e \in Events, LeaseExpires(e) PROVE EventsInv'
<1> USE DEF webhooks, workers
<1>1. EventsTypeOK'
  BY DEF EventsInv, EventsTypeOK, LeaseExpires
<1>2. OnlyStored'
  BY DEF EventsInv, OnlyStored, LeaseExpires
<1>3. ProcessedOnce'
  BY DEF EventsInv, ProcessedOnce, LeaseExpires
<1> QED BY <1>1, <1>2, <1>3 DEF EventsInv

LEMMA EventsInvStep == EventsInv /\ [EventsNext]_eventVars => EventsInv'
<1> SUFFICES ASSUME EventsInv, [EventsNext]_eventVars PROVE EventsInv'
  OBVIOUS
<1>1. CASE UNCHANGED eventVars
  BY <1>1 DEF eventVars, webhooks, rows, workers, bounds, EventsInv, EventsTypeOK,
              OnlyStored, ProcessedOnce
<1>2. CASE EventsNext
  BY <1>2, ReceiveKeeps, EnqueueKeeps, TakeJobKeeps, ReplayKeeps, HandleKeeps,
     CompleteKeeps, FailKeeps, StopKeeps, LeaseExpiresKeeps DEF EventsNext
<1> QED BY <1>1, <1>2

-----------------------------------------------------------------------------
(* Theorems.                                                               *)

\* The three parts of the invariant hold together.
THEOREM EventsInductive == EventsSpec => []EventsInv
BY EventsInitially, EventsInvStep, PTL DEF EventsSpec

\* The table of events has no duplicates and jobs, replays and dispatches are
\* only of stored events.
THEOREM EventsTypeCorrect == EventsSpec => []EventsTypeOK
<1>1. EventsInv => EventsTypeOK
  BY DEF EventsInv
<1> QED BY <1>1, EventsInductive, PTL

\* However often Stripe repeats a webhook and jobs are retried, replayed, late
\* or interrupted, an event is completed once (complete and its token).
THEOREM NeverProcessedTwice == EventsSpec => []ProcessedOnce
<1>1. EventsInv => ProcessedOnce
  BY DEF EventsInv
<1> QED BY <1>1, EventsInductive, PTL

-----------------------------------------------------------------------------
\* The holder of event e with a live lease, and whether a step leaves it so.
Leased(e, w) == live[e] /\ holder[e] = w

\* A claim takes no row that is leased.
LEMMA ClaimLeavesLeases ==
    ASSUME EventsInv, NEW v \in Dispatchers, NEW d \in Events, ~live[d],
           \E j \in Jobs \cup {NoJob} : Claim(v, d, j),
           NEW e \in Events, NEW w \in Dispatchers, Leased(e, w)
    PROVE  Leased(e, w)'
BY DEF EventsInv, EventsTypeOK, Claim, Leased

\* Only the holder gives its lease back, and then its run is over.
LEMMA EndLeavesLeases ==
    ASSUME EventsInv, NEW v \in Dispatchers, Complete(v) \/ Fail(v),
           NEW e \in Events, NEW w \in Dispatchers, Leased(e, w), run[w] = e, run'[w] = e
    PROVE  Leased(e, w)'
<1>1. run'[v] = NoEvent /\ v # w
  BY EventAssumption DEF Complete, Fail, Rest, EventsInv, EventsTypeOK
<1> QED BY <1>1 DEF EventsInv, EventsTypeOK, Complete, Fail, Leased

\* Every step but the end of the lease leaves a lease with its running holder,
\* and no step hands a live lease to another.
LEMMA LeaseStays ==
    ASSUME EventsInv, [EventsNext]_eventVars PROVE LeaseStep /\ LeaseRun
<1> USE DEF webhooks, rows, workers, bounds
<1>1. ASSUME NEW d \in Events, Receive(d) \/ LeaseExpires(d) PROVE LeaseStep /\ LeaseRun
  <2>1. CASE Receive(d)
    BY <2>1 DEF Receive, LeaseStep, LeaseRun
  <2>2. CASE LeaseExpires(d)
    <3>1. holder' = holder /\ run' = run /\ live' = [live EXCEPT ![d] = FALSE]
      BY <2>2 DEF LeaseExpires
    <3>2. run[holder[d]] # d \/ overruns' # overruns
      BY <2>2 DEF LeaseExpires, EventsInv, EventsTypeOK
    <3> QED BY <3>1, <3>2 DEF EventsInv, EventsTypeOK, LeaseStep, LeaseRun
  <2> QED BY <1>1, <2>1, <2>2
<1>2. ASSUME NEW j \in Jobs, Enqueue(j) \/ LoseEnqueue(j) PROVE LeaseStep /\ LeaseRun
  BY <1>2 DEF Enqueue, LoseEnqueue, LeaseStep, LeaseRun
<1>3. ASSUME NEW v \in Workers, NEW j \in Jobs, TakeJob(v, j) PROVE LeaseStep /\ LeaseRun
  <2>1. CASE Claimable(j[1]) /\ Claim(v, j[1], j)
    BY <2>1, ClaimLeavesLeases DEF Jobs, Claimable, Dispatchers, LeaseStep, LeaseRun, Leased
  <2>2. CASE UNCHANGED <<rows, workers>>
    BY <2>2 DEF LeaseStep, LeaseRun
  <2> QED BY <1>3, <2>1, <2>2 DEF TakeJob
<1>4. ASSUME StartReplay \/ Replay PROVE LeaseStep /\ LeaseRun
  <2>1. CASE \E e \in pass : Claimable(e) /\ Claim(Replayer, e, NoJob)
    BY <2>1, ClaimLeavesLeases, StoredEvents
       DEF EventsInv, EventsTypeOK, Claimable, Dispatchers, LeaseStep, LeaseRun, Leased
  <2>2. CASE UNCHANGED <<rows, workers>>
    BY <2>2 DEF LeaseStep, LeaseRun
  <2> QED BY <1>4, <2>1, <2>2 DEF StartReplay, Replay
<1>5. ASSUME NEW v \in Dispatchers, Handle(v) \/ Stop(v) PROVE LeaseStep /\ LeaseRun
  BY <1>5 DEF Handle, Stop, LeaseStep, LeaseRun
<1>6. ASSUME NEW v \in Dispatchers, Complete(v) \/ Fail(v) PROVE LeaseStep /\ LeaseRun
  <2>1. LeaseRun
    BY <1>6, EndLeavesLeases DEF LeaseRun, Leased
  <2>2. LeaseStep
    BY <1>6 DEF EventsInv, EventsTypeOK, Complete, Fail, LeaseStep
  <2> QED BY <2>1, <2>2
<1>7. CASE UNCHANGED eventVars
  BY <1>7 DEF eventVars, LeaseStep, LeaseRun
<1> QED BY <1>1, <1>2, <1>3, <1>4, <1>5, <1>6, <1>7 DEF EventsNext

\* Whoever has a live lease keeps it while it runs, unless it outlives it
\* (claim's WHERE clause and the tokens of complete and fail).
THEOREM LeaseNeverTaken == EventsSpec => LeaseIsKept
<1>1. EventsInv /\ [EventsNext]_eventVars => [LeaseStep /\ LeaseRun]_eventVars
  BY LeaseStays
<1> QED BY <1>1, EventsInductive, PTL DEF EventsSpec, LeaseIsKept
=============================================================================
