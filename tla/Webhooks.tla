------------------------------ MODULE Webhooks ------------------------------
(***************************************************************************)
(* The organization's webhook endpoints: dispatch and delivery in          *)
(* apps/api/src/org-webhooks/webhook.service.ts, and what happens to their *)
(* failures in recordFailure of apps/api/src/alerts/alerting.service.ts    *)
(* and in the "failed" handler of apps/api/src/jobs/workers.ts.            *)
(*                                                                         *)
(* Every endpoint subscribes to every event.  Installed apps, which have   *)
(* no counter and no breaker, are left out.                                *)
(***************************************************************************)
EXTENDS Naturals, Sequences, FiniteSets

CONSTANTS
  Endpoints,   \* webhook endpoints
  Deliverers,  \* jobs and retries that may be under way at the same time
  Attempts,    \* maxAttempts (3 in the code)
  DisableAt,   \* failureCount that disables an endpoint (10 in the code)
  Threshold,   \* thresholdCount of the WEBHOOK_FAILURE_SPIKE rule (10 by default)
  MaxEvents,   \* bound on events and retries
  MaxFaults    \* bound on database errors and restarts

ASSUME WebhookConstants ==
  /\ IsFiniteSet(Endpoints) /\ Endpoints # {}
  /\ IsFiniteSet(Deliverers)
  /\ Attempts \in Nat \ {0} /\ DisableAt \in Nat \ {0} /\ Threshold \in Nat \ {0}
  /\ MaxEvents \in Nat /\ MaxFaults \in Nat

VARIABLES
  endpoint,  \* "active", "off" (isActive is false) or "gone"
  failures,  \* failureCount of each endpoint
  collected, \* jobs dispatch has collected for each endpoint and not yet queued
  queue,     \* jobs in the webhooks queue for each endpoint
  dl,        \* next step of each deliverer
  at,        \* its endpoint
  try,       \* its attempt
  replay,    \* it is an administrator's retry, not a job
  calls,     \* detached calls of recordFailure: how many at each stage, by endpoint
  log,       \* failures counted in memory and alert events stored, oldest first, no
             \* older than the rule's windowMinutes
  failed,    \* failed dispatches of each endpoint so far
  spiked,    \* a call found the threshold crossed and no recent alert
  events, faults

dlVars == <<dl, at, try, replay>>
alertVars == <<calls, log, spiked>>
vars == <<endpoint, failures, collected, queue, dl, at, try, replay, calls, log, failed, spiked,
          events, faults>>

\* The stages of recordFailure, each ending with a database call.
Stages == {"rule", "recent", "mitigate", "create"}

\* What is counted in a log, and whether it has an alert event.
Entries(l, x) == Cardinality({i \in 1..Len(l) : l[i] = x})
Failures(l) == Entries(l, "failure")
Stored(l) == Entries(l, "alert")
HasAlert(l) == \E i \in 1..Len(l) : l[i] = "alert"

SomeEndpoint == CHOOSE e \in Endpoints : TRUE

TypeOK ==
  /\ endpoint \in [Endpoints -> {"active", "off", "gone"}]
  /\ failures \in [Endpoints -> Nat]
  /\ collected \in [Endpoints -> Nat]
  /\ queue \in [Endpoints -> Nat]
  /\ dl \in [Deliverers -> {"idle", "post", "reset", "count", "disable", "throw"} \cup Stages]
  /\ at \in [Deliverers -> Endpoints]
  /\ try \in [Deliverers -> 1..Attempts]
  /\ replay \in [Deliverers -> BOOLEAN]
  /\ calls \in [Stages -> [Endpoints -> Nat]]
  /\ log \in Seq({"failure", "alert"})
  /\ failed \in [Endpoints -> Nat]
  /\ spiked \in BOOLEAN
  /\ events \in 0..MaxEvents /\ faults \in 0..MaxFaults

Init ==
  /\ endpoint = [e \in Endpoints |-> "active"]
  /\ failures = [e \in Endpoints |-> 0]
  /\ collected = [e \in Endpoints |-> 0]
  /\ queue = [e \in Endpoints |-> 0]
  /\ dl = [d \in Deliverers |-> "idle"]
  /\ at = [d \in Deliverers |-> SomeEndpoint]
  /\ try = [d \in Deliverers |-> 1]
  /\ replay = [d \in Deliverers |-> FALSE]
  /\ calls = [s \in Stages |-> [e \in Endpoints |-> 0]]
  /\ log = <<>>
  /\ failed = [e \in Endpoints |-> 0]
  /\ spiked = FALSE
  /\ events = 0 /\ faults = 0

-----------------------------------------------------------------------------
(* Events, administrators and time.                                        *)

NewEvent ==
  /\ events < MaxEvents
  /\ events' = events + 1

\* Mutant: inactive endpoints are collected, too.
CollectAll ==
  /\ NewEvent
  /\ collected' = [e \in Endpoints |-> IF endpoint[e] # "gone" THEN collected[e] + 1 ELSE collected[e]]
  /\ UNCHANGED <<endpoint, failures, queue, dlVars, alertVars, failed, faults>>

\* dispatch collects a job for each active endpoint and queues the jobs after the
\* installed apps have been looked up.
Collect ==
  /\ NewEvent
  /\ collected' = [e \in Endpoints |-> IF endpoint[e] = "active" THEN collected[e] + 1 ELSE collected[e]]
  /\ UNCHANGED <<endpoint, failures, queue, dlVars, alertVars, failed, faults>>

Enqueue(e) ==
  /\ collected[e] > 0
  /\ collected' = [collected EXCEPT ![e] = @ - 1]
  /\ queue' = [queue EXCEPT ![e] = @ + 1]
  /\ UNCHANGED <<endpoint, failures, dlVars, alertVars, failed, events, faults>>

Begin(d, e, byHand) ==
  /\ dl[d] = "idle"
  /\ dl' = [dl EXCEPT ![d] = "post"]
  /\ at' = [at EXCEPT ![d] = e]
  /\ try' = [try EXCEPT ![d] = 1]
  /\ replay' = [replay EXCEPT ![d] = byHand]

\* retryDelivery asks that the endpoint exists, not that it is active.
Retry(d, e) ==
  /\ endpoint[e] # "gone"
  /\ NewEvent
  /\ Begin(d, e, TRUE)
  /\ UNCHANGED <<endpoint, failures, collected, queue, alertVars, failed, faults>>

Remove(e) ==
  /\ endpoint[e] # "gone"
  /\ endpoint' = [endpoint EXCEPT ![e] = "gone"]
  /\ UNCHANGED <<failures, collected, queue, dlVars, alertVars, failed, events, faults>>

\* The oldest failure or alert event leaves the window.
Expire ==
  /\ log # <<>>
  /\ log' = Tail(log)
  /\ UNCHANGED <<endpoint, failures, collected, queue, dlVars, calls, spiked, failed, events, faults>>

-----------------------------------------------------------------------------
(* dispatchToEndpoint.                                                     *)

GoOn(d, label) ==
  /\ dl' = [dl EXCEPT ![d] = label]
  /\ UNCHANGED <<at, try, replay>>

\* The job holds what dispatch read; the endpoint is not read again.
Take(d, e) ==
  /\ queue[e] > 0
  /\ queue' = [queue EXCEPT ![e] = @ - 1]
  /\ Begin(d, e, FALSE)
  /\ UNCHANGED <<endpoint, failures, collected, alertVars, failed, events, faults>>

\* The endpoint accepts the request, and the delivery row is stored.
Accepted(d) ==
  /\ dl[d] = "post"
  /\ GoOn(d, "reset")
  /\ UNCHANGED <<endpoint, failures, collected, queue, alertVars, failed, events, faults>>

\* Mutant: an attempt too many.
AgainBeyond(d) ==
  /\ dl[d] = "post"
  /\ try[d] <= Attempts
  /\ try' = [try EXCEPT ![d] = @ + 1]
  /\ UNCHANGED <<endpoint, failures, collected, queue, dl, at, replay, alertVars, failed, events, faults>>

\* The request fails; the next attempt follows after a pause.
Again(d) ==
  /\ dl[d] = "post"
  /\ try[d] < Attempts
  /\ try' = [try EXCEPT ![d] = @ + 1]
  /\ UNCHANGED <<endpoint, failures, collected, queue, dl, at, replay, alertVars, failed, events, faults>>

\* The last attempt fails.
GiveUp(d) ==
  /\ dl[d] = "post"
  /\ try[d] = Attempts
  /\ failed' = [failed EXCEPT ![at[d]] = @ + 1]
  /\ GoOn(d, "count")
  /\ UNCHANGED <<endpoint, failures, collected, queue, alertVars, events, faults>>

\* Updating an endpoint that is gone throws.
Missing(d) ==
  /\ dl[d] \in {"reset", "count", "disable"}
  /\ endpoint[at[d]] = "gone"
  /\ failed' = IF dl[d] = "reset" THEN [failed EXCEPT ![at[d]] = @ + 1] ELSE failed
  /\ GoOn(d, "throw")
  /\ UNCHANGED <<endpoint, failures, collected, queue, alertVars, events, faults>>

Reset(d) ==
  /\ dl[d] = "reset"
  /\ endpoint[at[d]] # "gone"
  /\ failures' = [failures EXCEPT ![at[d]] = 0]
  /\ GoOn(d, "idle")
  /\ UNCHANGED <<endpoint, collected, queue, alertVars, failed, events, faults>>

\* Mutants: the limit is off by one; each attempt is counted.
CountBeyond(d) ==
  /\ dl[d] = "count"
  /\ endpoint[at[d]] # "gone"
  /\ failures' = [failures EXCEPT ![at[d]] = @ + 1]
  /\ GoOn(d, IF failures[at[d]] + 1 > DisableAt THEN "disable" ELSE "rule")
  /\ UNCHANGED <<endpoint, collected, queue, alertVars, failed, events, faults>>

CountAttempts(d) ==
  /\ dl[d] = "count"
  /\ endpoint[at[d]] # "gone"
  /\ failures' = [failures EXCEPT ![at[d]] = @ + Attempts]
  /\ GoOn(d, IF failures[at[d]] + Attempts >= DisableAt THEN "disable" ELSE "rule")
  /\ UNCHANGED <<endpoint, collected, queue, alertVars, failed, events, faults>>

\* failureCount is incremented in the database and compared with the limit here.
Count(d) ==
  /\ dl[d] = "count"
  /\ endpoint[at[d]] # "gone"
  /\ failures' = [failures EXCEPT ![at[d]] = @ + 1]
  /\ GoOn(d, IF failures[at[d]] + 1 >= DisableAt THEN "disable" ELSE "rule")
  /\ UNCHANGED <<endpoint, collected, queue, alertVars, failed, events, faults>>

Disable(d) ==
  /\ dl[d] = "disable"
  /\ endpoint[at[d]] # "gone"
  /\ endpoint' = [endpoint EXCEPT ![at[d]] = "off"]
  /\ GoOn(d, "rule")
  /\ UNCHANGED <<failures, collected, queue, alertVars, failed, events, faults>>

\* The dispatch ends with an error: a job's is reported to the "failed" handler,
\* which records the failure once more without waiting.
Throw(d) ==
  /\ dl[d] = "throw"
  /\ calls' = IF replay[d] THEN calls ELSE [calls EXCEPT !["rule"][at[d]] = @ + 1]
  /\ GoOn(d, "idle")
  /\ UNCHANGED <<endpoint, failures, collected, queue, log, spiked, failed, events, faults>>

-----------------------------------------------------------------------------
(* recordFailure.                                                          *)
\* Mutants: the threshold is off by one; the recent alert is not looked for.
NoteEarly(e, next) ==
  /\ log' = Append(log, "failure")
  /\ next = IF Failures(log) + 2 >= Threshold THEN "recent" ELSE "done"
  /\ UNCHANGED <<endpoint, spiked>>

LookAway(e, next) ==
  /\ next = "mitigate"
  /\ spiked' = TRUE
  /\ UNCHANGED <<endpoint, log>>

\* The effect of each stage for endpoint e, and the stage that follows.  The rule,
\* created by default, is read; the failure is counted and the count compared with the threshold.
Note(e, next) ==
  /\ log' = Append(log, "failure")
  /\ next = IF Failures(log) + 1 >= Threshold THEN "recent" ELSE "done"
  /\ UNCHANGED <<endpoint, spiked>>

\* An alert event of the type in the window ends the call.
LookBack(e, next) ==
  /\ next = IF HasAlert(log) THEN "done" ELSE "mitigate"
  /\ spiked' = (spiked \/ ~HasAlert(log))
  /\ UNCHANGED <<endpoint, log>>

\* DISABLE_WEBHOOK turns off the endpoint of the failure that crossed the line.
Mitigate(e, next) ==
  /\ next = "create"
  /\ endpoint' = [endpoint EXCEPT ![e] = IF @ = "active" THEN "off" ELSE @]
  /\ UNCHANGED <<log, spiked>>

CreateAlert(e, next) ==
  /\ next = "done"
  /\ log' = Append(log, "alert")
  /\ UNCHANGED <<endpoint, spiked>>

Stage(s, e, next) ==
  \/ s = "rule" /\ Note(e, next)
  \/ s = "recent" /\ LookBack(e, next)
  \/ s = "mitigate" /\ Mitigate(e, next)
  \/ s = "create" /\ CreateAlert(e, next)

\* The dispatch waits for its own call of recordFailure, then throws.
Record(d) ==
  /\ dl[d] \in Stages
  /\ \E next \in Stages \cup {"done"} :
       /\ Stage(dl[d], at[d], next)
       /\ GoOn(d, IF next = "done" THEN "throw" ELSE next)
  /\ UNCHANGED <<failures, collected, queue, calls, failed, events, faults>>

RecordDetached(s, e) ==
  /\ calls[s][e] > 0
  /\ \E next \in Stages \cup {"done"} :
       /\ Stage(s, e, next)
       /\ calls' = [t \in Stages |-> [calls[t] EXCEPT ![e] =
                     IF t = s THEN @ - 1 ELSE IF t = next THEN @ + 1 ELSE @]]
  /\ UNCHANGED <<failures, collected, queue, dlVars, failed, events, faults>>

-----------------------------------------------------------------------------
(* Faults.                                                                 *)

Fault == faults < MaxFaults /\ faults' = faults + 1

\* A database call fails, and the dispatch with it.
DbError(d) ==
  /\ Fault
  /\ dl[d] \notin {"idle", "throw"}
  /\ failed' = IF dl[d] \in {"post", "reset"} THEN [failed EXCEPT ![at[d]] = @ + 1] ELSE failed
  /\ GoOn(d, "throw")
  /\ UNCHANGED <<endpoint, failures, collected, queue, alertVars, events>>

\* A detached call fails silently.
CallFails(s, e) ==
  /\ Fault
  /\ calls[s][e] > 0
  /\ calls' = [calls EXCEPT ![s][e] = @ - 1]
  /\ UNCHANGED <<endpoint, failures, collected, queue, dlVars, log, spiked, failed, events>>

\* The process restarts: counted failures, calls and collected jobs are forgotten,
\* the jobs under way return to the queue as stalled.
Restart ==
  /\ Fault
  /\ queue' = [e \in Endpoints |->
       queue[e] + Cardinality({d \in Deliverers : dl[d] # "idle" /\ ~replay[d] /\ at[d] = e})]
  /\ collected' = [e \in Endpoints |-> 0]
  /\ dl' = [d \in Deliverers |-> "idle"]
  /\ calls' = [s \in Stages |-> [e \in Endpoints |-> 0]]
  /\ log' = [i \in 1..Stored(log) |-> "alert"]
  /\ UNCHANGED <<endpoint, failures, at, try, replay, failed, spiked, events>>

-----------------------------------------------------------------------------
(* The specification.                                                      *)

Deliver(d) ==
  \/ \E e \in Endpoints : Take(d, e)
  \/ Accepted(d) \/ Again(d) \/ GiveUp(d) \/ Missing(d) \/ Reset(d) \/ Count(d) \/ Disable(d)
  \/ Record(d) \/ Throw(d)

Next ==
  \/ Collect \/ Expire
  \/ \E e \in Endpoints : Enqueue(e) \/ Remove(e)
  \/ \E d \in Deliverers, e \in Endpoints : Retry(d, e)
  \/ \E d \in Deliverers : Deliver(d) \/ DbError(d)
  \/ \E s \in Stages, e \in Endpoints : RecordDetached(s, e) \/ CallFails(s, e)
  \/ Restart

Spec == Init /\ [][Next]_vars

-----------------------------------------------------------------------------
(* Properties.                                                             *)

\* The breaker trips: an endpoint whose failures reached the limit is active only
\* while the dispatch that counted the last one is about to disable it.
BreakerTrips ==
  \A e \in Endpoints : failures[e] >= DisableAt /\ endpoint[e] = "active" =>
    \/ \E d \in Deliverers : dl[d] = "disable" /\ at[d] = e
    \/ faults > 0

\* An endpoint is disabled for its own failed dispatches, as many as the limit says,
\* or because failures of the organization's webhooks crossed the alert's threshold.
DisabledForCause ==
  \A e \in Endpoints : endpoint[e] = "off" => failed[e] >= DisableAt \/ spiked

\* What a count by endpoint counts, one by one.
Each(count) == UNION {{e} \X (1..count[e]) : e \in Endpoints}

\* A failed dispatch is counted at most twice, by the service and by the handler of
\* the failed job: an alert takes at least half as many failures as its threshold.
AlertMeansSpike == spiked => 2 * Cardinality(Each(failed)) >= Threshold

\* One alert for a spike: while an alert event is in the window and no call is past
\* looking for one, no other is created.
Settled ==
  /\ HasAlert(log)
  /\ \A d \in Deliverers : dl[d] \notin {"mitigate", "create"}
  /\ \A e \in Endpoints : calls["mitigate"][e] = 0 /\ calls["create"][e] = 0

AlertOncePerSpike ==
  [][Settled => /\ Stored(log') <= Stored(log)
                /\ Settled' \/ ~HasAlert(log')]_vars

\* A disabled endpoint whose jobs are done is left alone until an administrator
\* retries one of its deliveries: no event reaches it.
Quiet(e) ==
  /\ endpoint[e] # "active" /\ collected[e] = 0 /\ queue[e] = 0
  /\ \A d \in Deliverers : at[d] = e => dl[d] = "idle" \/ replay[d]

DisabledStaysQuiet == [][\A e \in Endpoints : Quiet(e) => Quiet(e)']_vars
=============================================================================
