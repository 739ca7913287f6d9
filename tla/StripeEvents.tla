---------------------------- MODULE StripeEvents ----------------------------
(***************************************************************************)
(* Stored Stripe events: how a webhook becomes a row of stripe_events, how *)
(* jobs claim the row under a lease, and how the row ends processed        *)
(* whatever stops, repeats or runs late on the way.                        *)
(*                                                                         *)
(* A webhook stores its event and then enqueues a job; the process may     *)
(* stop between the two.  A job claims the row (a fresh lease_token and    *)
(* five minutes), runs the handler and completes or fails the row if its   *)
(* token is still the row's.  The replay job dispatches the oldest pending *)
(* rows every minute.  A worker handles one event at a time and its old    *)
(* run is over when it claims again, so its name serves as the token.      *)
(***************************************************************************)
EXTENDS Integers, Sequences, FiniteSets, SequencesExt

CONSTANTS
    Events,
    Poison,        \* events whose handler throws every time
    Workers,       \* executions of the stripe.event job
    Replayer,      \* the execution of the stripe.replay job
    Nobody,        \* lease_token IS NULL
    NoEvent,
    Deliveries,    \* bound on how often Stripe sends an event
    Tries,         \* tries of a job: retryLimit + 1
    ReplayLimit,   \* rows a replay dispatches, 100
    MaxOverruns,   \* bound on how often a running worker outlives its lease
    MaxStops       \* bound on how often workers stop

ASSUME EventAssumption ==
    /\ Poison \subseteq Events
    /\ Replayer \notin Workers /\ Nobody \notin Workers \cup {Replayer}
    /\ NoEvent \notin Events
    /\ Deliveries \in Nat /\ Tries \in Nat \ {0} /\ ReplayLimit \in Nat \ {0}
    /\ MaxOverruns \in Nat /\ MaxStops \in Nat

VARIABLES
    sent,      \* webhooks sent per event
    storing,   \* webhooks stored but not yet enqueued
    inbox,     \* stored events in order of received_at
    processed, \* processed_at IS NOT NULL
    holder,    \* lease_token
    live,      \* lease_expires_at >= now
    queue,     \* tries left of each job, by event and webhook; 0 when it is over
    pass,      \* rows the current replay has yet to dispatch
    run,       \* the event a worker dispatches
    job,       \* the job it dispatches it for
    stage,     \* what it does next
    ended,     \* how often an event was completed
    overruns, stops

rows == <<inbox, processed, holder, live>>
webhooks == <<sent, storing>>
workers == <<run, job, stage>>
bounds == <<overruns, stops>>
eventVars == <<webhooks, rows, queue, pass, workers, ended, bounds>>

Jobs == Events \X (1 .. Deliveries)
Dispatchers == Workers \cup {Replayer}
NoJob == <<NoEvent, 0>>

EventsTypeOK ==
    /\ sent \in [Events -> 0 .. Deliveries]
    /\ storing \subseteq Jobs
    /\ inbox \in Seq(Events) /\ IsInjective(inbox)
    /\ processed \subseteq ToSet(inbox)
    /\ holder \in [Events -> Dispatchers \cup {Nobody}]
    /\ live \in [Events -> BOOLEAN]
    /\ queue \in [Jobs -> 0 .. Tries]
    /\ pass \subseteq ToSet(inbox)
    /\ run \in [Dispatchers -> Events \cup {NoEvent}]
    /\ job \in [Dispatchers -> Jobs \cup {NoJob}]
    /\ stage \in [Dispatchers -> {"idle", "handle", "complete", "fail"}]
    /\ ended \in [Events -> Nat]
    /\ overruns \in Nat /\ stops \in Nat

EventsInit ==
    /\ sent = [e \in Events |-> 0]
    /\ storing = {}
    /\ inbox = <<>>
    /\ processed = {}
    /\ holder = [e \in Events |-> Nobody]
    /\ live = [e \in Events |-> FALSE]
    /\ queue = [j \in Jobs |-> 0]
    /\ pass = {}
    /\ run = [w \in Dispatchers |-> NoEvent]
    /\ job = [w \in Dispatchers |-> NoJob]
    /\ stage = [w \in Dispatchers |-> "idle"]
    /\ ended = [e \in Events |-> 0]
    /\ overruns = 0
    /\ stops = 0

-----------------------------------------------------------------------------
(* Webhooks.                                                               *)

\* Mutant: stored without ON CONFLICT.
ReceiveAgain(e) ==
    /\ sent[e] < Deliveries
    /\ sent' = [sent EXCEPT ![e] = @ + 1]
    /\ inbox' = Append(inbox, e)
    /\ storing' = storing \cup {<<e, sent'[e]>>}
    /\ UNCHANGED <<processed, holder, live, queue, pass, workers, ended, bounds>>

\* store: the first webhook of an event inserts the row; a processed event
\* is not enqueued again.
Receive(e) ==
    /\ sent[e] < Deliveries
    /\ sent' = [sent EXCEPT ![e] = @ + 1]
    /\ inbox' = IF e \in ToSet(inbox) THEN inbox ELSE Append(inbox, e)
    /\ storing' = IF e \in processed THEN storing ELSE storing \cup {<<e, sent'[e]>>}
    /\ UNCHANGED <<processed, holder, live, queue, pass, workers, ended, bounds>>

Enqueue(j) ==
    /\ j \in storing
    /\ storing' = storing \ {j}
    /\ queue' = [queue EXCEPT ![j] = Tries]
    /\ UNCHANGED <<sent, rows, pass, workers, ended, bounds>>

\* The enqueue fails or the process stops before it.
LoseEnqueue(j) ==
    /\ j \in storing
    /\ storing' = storing \ {j}
    /\ UNCHANGED <<sent, rows, queue, pass, workers, ended, bounds>>

-----------------------------------------------------------------------------
(* Dispatching an event.                                                   *)

\* Mutant: an expired lease is not taken over.
ClaimableOnce(e) == e \notin processed /\ holder[e] = Nobody

\* claim's WHERE clause.
Claimable(e) == e \notin processed /\ ~live[e]

Claim(w, e, j) ==
    /\ holder' = [holder EXCEPT ![e] = w]
    /\ live' = [live EXCEPT ![e] = TRUE]
    /\ run' = [run EXCEPT ![w] = e]
    /\ job' = [job EXCEPT ![w] = j]
    /\ stage' = [stage EXCEPT ![w] = "handle"]
    /\ UNCHANGED <<inbox, processed>>

\* A worker takes a job nobody is executing; a job whose event is claimed or
\* processed is over ('already_claimed').
TakeJob(w, j) ==
    /\ stage[w] = "idle"
    /\ queue[j] > 0
    /\ \A v \in Workers : job[v] # j
    /\ \/ Claimable(j[1]) /\ Claim(w, j[1], j) /\ UNCHANGED queue
       \/ ~Claimable(j[1]) /\ queue' = [queue EXCEPT ![j] = 0] /\ UNCHANGED <<rows, workers>>
    /\ UNCHANGED <<webhooks, pass, ended, bounds>>

\* Event d was stored before event e.
Before(d, e) ==
    \E i, j \in DOMAIN inbox : i < j /\ inbox[i] = d /\ inbox[j] = e

\* pendingIds: the oldest stored events that are neither processed nor leased.
Pending ==
    LET waiting == {e \in ToSet(inbox) : Claimable(e)} IN
    {e \in waiting : Cardinality({d \in waiting : Before(d, e)}) < ReplayLimit}

\* The replay job reads what is pending and dispatches it one by one.
StartReplay ==
    /\ stage[Replayer] = "idle" /\ pass = {}
    /\ Pending # {}
    /\ pass' = Pending
    /\ UNCHANGED <<webhooks, rows, queue, workers, ended, bounds>>

Replay ==
    /\ stage[Replayer] = "idle"
    /\ \E e \in pass :
          /\ \A d \in pass : ~Before(d, e)
          /\ pass' = pass \ {e}
          /\ \/ Claimable(e) /\ Claim(Replayer, e, NoJob)
             \/ ~Claimable(e) /\ UNCHANGED <<rows, workers>>
    /\ UNCHANGED <<webhooks, queue, ended, bounds>>

Handle(w) ==
    /\ stage[w] = "handle"
    /\ stage' = [stage EXCEPT ![w] = IF run[w] \in Poison THEN "fail" ELSE "complete"]
    /\ UNCHANGED <<webhooks, rows, queue, pass, run, job, ended, bounds>>

Rest(w) ==
    /\ run' = [run EXCEPT ![w] = NoEvent]
    /\ job' = [job EXCEPT ![w] = NoJob]
    /\ stage' = [stage EXCEPT ![w] = "idle"]

\* The queue keeps the job for its next try, if it has one left.
Retry(w) ==
    queue' = [j \in Jobs |-> IF j = job[w] /\ queue[j] > 0 THEN queue[j] - 1 ELSE queue[j]]

\* Mutant: complete asks whether another run holds the row, not for the token.
CompleteUnleased(w) ==
    LET e == run[w] IN
    /\ stage[w] = "complete"
    /\ \/ /\ ~live[e] \/ holder[e] = w
          /\ processed' = processed \cup {e}
          /\ holder' = [holder EXCEPT ![e] = Nobody]
          /\ live' = [live EXCEPT ![e] = FALSE]
          /\ ended' = [ended EXCEPT ![e] = @ + 1]
          /\ queue' = [j \in Jobs |-> IF j = job[w] THEN 0 ELSE queue[j]]
       \/ /\ live[e] /\ holder[e] # w
          /\ Retry(w)
          /\ UNCHANGED <<processed, holder, live, ended>>
    /\ Rest(w)
    /\ UNCHANGED <<webhooks, inbox, pass, bounds>>

\* complete: only the holder of the row's token marks it processed.  Whoever
\* lost the token has dispatched in vain and throws ('claim is stale'), in
\* complete and again in fail.
Complete(w) ==
    LET e == run[w] IN
    /\ stage[w] = "complete"
    /\ \/ /\ holder[e] = w /\ e \notin processed
          /\ processed' = processed \cup {e}
          /\ holder' = [holder EXCEPT ![e] = Nobody]
          /\ live' = [live EXCEPT ![e] = FALSE]
          /\ ended' = [ended EXCEPT ![e] = @ + 1]
          /\ queue' = [j \in Jobs |-> IF j = job[w] THEN 0 ELSE queue[j]]
       \/ /\ ~(holder[e] = w /\ e \notin processed)
          /\ Retry(w)
          /\ UNCHANGED <<processed, holder, live, ended>>
    /\ Rest(w)
    /\ UNCHANGED <<webhooks, inbox, pass, bounds>>

\* Mutant: fail gives the row back whoever holds it.
FailAnyToken(w) ==
    /\ stage[w] = "fail"
    /\ holder' = [holder EXCEPT ![run[w]] = Nobody]
    /\ live' = [live EXCEPT ![run[w]] = FALSE]
    /\ Retry(w)
    /\ Rest(w)
    /\ UNCHANGED <<webhooks, inbox, processed, pass, ended, bounds>>

\* fail: the holder gives the row back; the job throws.
Fail(w) ==
    LET e == run[w] IN
    /\ stage[w] = "fail"
    /\ \/ /\ holder[e] = w /\ e \notin processed
          /\ holder' = [holder EXCEPT ![e] = Nobody]
          /\ live' = [live EXCEPT ![e] = FALSE]
       \/ /\ ~(holder[e] = w /\ e \notin processed)
          /\ UNCHANGED <<holder, live>>
    /\ Retry(w)
    /\ Rest(w)
    /\ UNCHANGED <<webhooks, inbox, processed, pass, ended, bounds>>

\* The process stops: the row keeps its lease, the queue finds the job dead,
\* a replay in progress is lost.
Stop(w) ==
    /\ stops < MaxStops
    /\ stage[w] # "idle" \/ (w = Replayer /\ pass # {})
    /\ stops' = stops + 1
    /\ pass' = IF w = Replayer THEN {} ELSE pass
    /\ Retry(w)
    /\ Rest(w)
    /\ UNCHANGED <<webhooks, rows, ended, overruns>>

\* Five minutes have gone by since the claim.
LeaseExpires(e) ==
    /\ live[e]
    /\ \/ run[holder[e]] # e /\ UNCHANGED overruns
       \/ run[holder[e]] = e /\ overruns < MaxOverruns /\ overruns' = overruns + 1
    /\ live' = [live EXCEPT ![e] = FALSE]
    /\ UNCHANGED <<webhooks, inbox, processed, holder, queue, pass, workers, ended, stops>>

-----------------------------------------------------------------------------
EventsNext ==
    \/ \E e \in Events : Receive(e) \/ LeaseExpires(e)
    \/ \E j \in Jobs : Enqueue(j) \/ LoseEnqueue(j)
    \/ \E w \in Workers, j \in Jobs : TakeJob(w, j)
    \/ StartReplay \/ Replay
    \/ \E w \in Dispatchers : Handle(w) \/ Complete(w) \/ Fail(w) \/ Stop(w)

EventsSpec == EventsInit /\ [][EventsNext]_eventVars

\* The replay job runs every minute, a dispatch goes on, a lease runs out.
\* Nothing is assumed of webhooks, of the queue or of its retries.
EventsFairSpec ==
    /\ EventsSpec
    /\ WF_eventVars(StartReplay \/ Replay)
    /\ \A w \in Dispatchers : WF_eventVars(Handle(w) \/ Complete(w) \/ Fail(w))
    /\ \A e \in Events : WF_eventVars(LeaseExpires(e) /\ UNCHANGED overruns)

-----------------------------------------------------------------------------
(* Properties.                                                             *)

\* An event is processed once, by one of the workers that dispatched it,
\* whatever webhooks repeat, leases run out and workers come back late.
ProcessedOnce == \A e \in Events : ended[e] = (IF e \in processed THEN 1 ELSE 0)

\* A live lease ends only with the run it was given to: no late worker, no
\* repeated webhook and no replay takes the row from under the holder ("A
\* claimed event must not be returned to another worker until its lease
\* expires or the first worker marks it failed", dispatch.ts).
LeaseStep ==
    \A e \in Events, w \in Dispatchers :
        (live[e] /\ live'[e] /\ holder[e] = w) => holder'[e] = w

LeaseRun ==
    \A e \in Events, w \in Dispatchers :
        (live[e] /\ holder[e] = w /\ run[w] = e /\ run'[w] = e /\ overruns' = overruns) =>
            live'[e] /\ holder'[e] = w

LeaseIsKept == [][LeaseStep /\ LeaseRun]_eventVars

\* Every stored event whose handler does not always throw is processed in the
\* end, though its job may be lost, exhausted or never enqueued (repo.ts,
\* "Recover stored events when the enqueue or worker process did not survive").
Recovered == \A e \in Events \ Poison : (e \in ToSet(inbox)) ~> (e \in processed)
=============================================================================
