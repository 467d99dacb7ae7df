----------------------------- MODULE Escalation -----------------------------
(***************************************************************************)
(* The life of an organization's alert events after they are raised: the   *)
(* escalation scan of apps/api/src/alerts/alerts.service.ts and the        *)
(* delivery jobs of apps/api/src/alerts/alert-routing.service.ts, run by   *)
(* the alerts worker of apps/api/src/jobs/workers.ts.                      *)
(*                                                                         *)
(* A step is what happens between two awaits that other code can observe.  *)
(* The policy and the channels stay as they are; every alert is severe     *)
(* enough for every step and channel.                                      *)
(***************************************************************************)
EXTENDS Naturals, FiniteSets

CONSTANTS
  Alerts,           \* alert events that may be raised
  Channels,         \* the enabled alert channels
  EmailChannels,    \* those of type EMAIL
  Steps,            \* number of steps of the escalation policy
  Route,            \* Route[n]: channels of the types step n names
  OnCallSteps,      \* steps that address whoever is on call
  Scanners,         \* escalation scans that may run at the same time
  Workers,          \* concurrency of the alerts queue
  BreakerThreshold, \* failures that open a channel's breaker (5 in the code)
  MaxPerHour,       \* MAX_DELIVERIES_PER_HOUR (30 in the code)
  MaxFaults         \* bound on failures

ASSUME EscalationConstants ==
  /\ IsFiniteSet(Alerts) /\ Alerts # {}
  /\ IsFiniteSet(Channels) /\ Channels # {}
  /\ EmailChannels \subseteq Channels
  /\ Steps \in Nat
  /\ Route \in [1..Steps -> SUBSET Channels]
  /\ OnCallSteps \subseteq 1..Steps
  /\ IsFiniteSet(Scanners) /\ IsFiniteSet(Workers)
  /\ BreakerThreshold \in Nat \ {0} /\ MaxPerHour \in Nat \ {0} /\ MaxFaults \in Nat

VARIABLES
  alert,    \* "none", "open", "acked", or "aged": older than 48 hours
  due,      \* number of steps whose time has come for each alert
  cooling,  \* the alert's latest escalation is younger than 10 minutes
  row,      \* alert_escalations: each alert's row for each step
  delivery, \* alert_deliveries: each alert's row for each channel
  fresh,    \* delivery rows younger than an hour
  queue,    \* the alerts queue: how often it holds each delivery job
  fails, open,  \* each channel's circuit breaker, in memory
  sc, todo, cur, left, \* the scans: place and local variables
  wk, job, result,                    \* the deliveries: place and local variables
  sends,    \* messages each channel accepted for each alert
  pages,    \* <<a, n>>: a message accepted because of step n
  lost,     \* <<a, c>>: a delivery job that ended without a row
  faults

alertVars == <<alert, due, cooling>>
scanVars == <<sc, todo, cur, left>>
workVars == <<wk, job, result>>
deliveryVars == <<delivery, fresh, fails, open, sends, pages, lost>>
vars == <<alert, due, cooling, row, delivery, fresh, queue, fails, open,
          sc, todo, cur, left, wk, job, result, sends, pages, lost, faults>>

\* step 0 stands for the routing of a new alert.
Jobs == [alert : Alerts, channel : Channels, step : 0..Steps]
SomeAlert == CHOOSE a \in Alerts : TRUE
SomeJob == CHOOSE j \in Jobs : TRUE

AlertTypes ==
  /\ alert \in [Alerts -> {"none", "open", "acked", "aged"}]
  /\ due \in [Alerts -> 0..Steps]
  /\ cooling \in [Alerts -> BOOLEAN]

ScanTypes ==
  /\ sc \in [Scanners -> {"idle", "next", "forced", "step", "record"}]
  /\ todo \in [Scanners -> SUBSET Alerts]
  /\ cur \in [Scanners -> Alerts]
  /\ left \in [Scanners -> SUBSET (1..Steps)]

WorkTypes ==
  /\ wk \in [Workers -> {"idle", "send", "persist"}]
  /\ job \in [Workers -> Jobs]
  /\ result \in [Workers -> {"sent", "failed"}]

DeliveryTypes ==
  /\ delivery \in [Alerts -> [Channels -> {"none", "sent", "failed"}]]
  /\ fresh \subseteq Alerts \X Channels
  /\ fails \in [Channels -> Nat] /\ open \in [Channels -> BOOLEAN]
  /\ sends \in [Alerts -> [Channels -> Nat]]
  /\ pages \subseteq Alerts \X (1..Steps)
  /\ lost \subseteq Alerts \X Channels

TypeOK ==
  /\ AlertTypes /\ ScanTypes /\ WorkTypes /\ DeliveryTypes
  /\ row \in [Alerts -> [1..Steps -> {"none", "routed", "suppressed"}]]
  /\ queue \in [Jobs -> Nat]
  /\ faults \in 0..MaxFaults

Init ==
  /\ alert = [a \in Alerts |-> "none"]
  /\ due = [a \in Alerts |-> 0]
  /\ cooling = [a \in Alerts |-> FALSE]
  /\ row = [a \in Alerts |-> [n \in 1..Steps |-> "none"]]
  /\ delivery = [a \in Alerts |-> [c \in Channels |-> "none"]]
  /\ fresh = {}
  /\ queue = [j \in Jobs |-> 0]
  /\ fails = [c \in Channels |-> 0] /\ open = [c \in Channels |-> FALSE]
  /\ sc = [s \in Scanners |-> "idle"]
  /\ todo = [s \in Scanners |-> {}]
  /\ cur = [s \in Scanners |-> SomeAlert]
  /\ left = [s \in Scanners |-> {}]
  /\ wk = [w \in Workers |-> "idle"]
  /\ job = [w \in Workers |-> SomeJob]
  /\ result = [w \in Workers |-> "sent"]
  /\ sends = [a \in Alerts |-> [c \in Channels |-> 0]]
  /\ pages = {} /\ lost = {} /\ faults = 0

-----------------------------------------------------------------------------
(* Alerts and time.                                                        *)

\* One delivery job for each of a set of channels.
Enqueue(a, cs, n) ==
  queue' = [j \in Jobs |->
              IF j.alert = a /\ j.channel \in cs /\ j.step = n THEN queue[j] + 1 ELSE queue[j]]

\* recordFailure stores the event and hands it to queueRouteForAlertEvent, one
\* job per channel.
Raise(a) ==
  /\ alert[a] = "none"
  /\ alert' = [alert EXCEPT ![a] = "open"]
  /\ Enqueue(a, Channels, 0)
  /\ UNCHANGED <<due, cooling, row, deliveryVars, scanVars, workVars, faults>>

\* Queueing fails before the last channel: recordFailure only logs it.
RaiseUnrouted(a) ==
  /\ alert[a] = "none"
  /\ faults < MaxFaults
  /\ faults' = faults + 1
  /\ alert' = [alert EXCEPT ![a] = "open"]
  /\ \E cs \in (SUBSET Channels) \ {Channels} : Enqueue(a, cs, 0)
  /\ UNCHANGED <<due, cooling, row, deliveryVars, scanVars, workVars>>

Acknowledge(a) ==
  /\ alert[a] = "open"
  /\ alert' = [alert EXCEPT ![a] = "acked"]
  /\ UNCHANGED <<due, cooling, row, deliveryVars, queue, scanVars, workVars, faults>>

\* The alert's age reaches the next step's threshold, steps being sorted by it.
StepDue(a) ==
  /\ alert[a] = "open"
  /\ due[a] < Steps
  /\ due' = [due EXCEPT ![a] = @ + 1]
  /\ UNCHANGED <<alert, cooling, row, deliveryVars, queue, scanVars, workVars, faults>>

AgeOut(a) ==
  /\ alert[a] = "open"
  /\ alert' = [alert EXCEPT ![a] = "aged"]
  /\ UNCHANGED <<due, cooling, row, deliveryVars, queue, scanVars, workVars, faults>>

CoolDown(a) ==
  /\ cooling[a]
  /\ cooling' = [cooling EXCEPT ![a] = FALSE]
  /\ UNCHANGED <<alert, due, row, deliveryVars, queue, scanVars, workVars, faults>>

-----------------------------------------------------------------------------
(* runEscalationScanForOrg.                                                *)

\* The alerts a scan has yet to look at; without any, it is over.
Remaining(s, as) ==
  /\ todo' = [todo EXCEPT ![s] = as]
  /\ sc' = [sc EXCEPT ![s] = IF as = {} THEN "idle" ELSE "next"]

\* Mutant: the filter on isAcknowledged is gone.
StartScanAll(s) ==
  /\ sc[s] = "idle"
  /\ Remaining(s, {a \in Alerts : alert[a] \notin {"none", "aged"}})
  /\ UNCHANGED <<alertVars, row, deliveryVars, queue, cur, left, workVars, faults>>

\* A scan reads the unacknowledged alerts of the last 48 hours.
StartScan(s) ==
  /\ sc[s] = "idle"
  /\ Remaining(s, {a \in Alerts : alert[a] = "open"})
  /\ UNCHANGED <<alertVars, row, deliveryVars, queue, cur, left, workVars, faults>>

\* testEscalationPolicy raises an alert that is not routed and scans it by force:
\* every step is due and the cooldown is ignored.
StartTest(s, a) ==
  /\ sc[s] = "idle"
  /\ alert[a] = "none"
  /\ alert' = [alert EXCEPT ![a] = "open"]
  /\ sc' = [sc EXCEPT ![s] = "forced"]
  /\ todo' = [todo EXCEPT ![s] = {a}]
  /\ UNCHANGED <<due, cooling, row, deliveryVars, queue, cur, left, workVars, faults>>

\* All steps when forced.  (The scan's "now" is the time it started at; reading the
\* age here instead makes it start a moment later.)
Due(s, a) == 1..(IF sc[s] = "forced" THEN Steps ELSE due[a])

Done(a) == {n \in 1..Steps : row[a][n] # "none"}

\* Mutant: an alert that was escalated once is left alone for good.
ScanAlertOnce(s, a) ==
  /\ sc[s] \in {"next", "forced"}
  /\ a \in todo[s]
  /\ IF Due(s, a) \ Done(a) = {} \/ Done(a) # {}
     THEN /\ Remaining(s, todo[s] \ {a})
          /\ UNCHANGED <<cur, left>>
     ELSE /\ sc' = [sc EXCEPT ![s] = "step"]
          /\ todo' = [todo EXCEPT ![s] = @ \ {a}]
          /\ cur' = [cur EXCEPT ![s] = a]
          /\ left' = [left EXCEPT ![s] = Due(s, a) \ Done(a)]
  /\ UNCHANGED <<alertVars, row, deliveryVars, queue, workVars, faults>>

\* The alert's escalations are read; it is passed over when no step is due that has
\* no row, or when its latest one is recent.
ScanAlert(s, a) ==
  /\ sc[s] \in {"next", "forced"}
  /\ a \in todo[s]
  /\ IF Due(s, a) \ Done(a) = {} \/ (sc[s] = "next" /\ cooling[a])
     THEN /\ Remaining(s, todo[s] \ {a})
          /\ UNCHANGED <<cur, left>>
     ELSE /\ sc' = [sc EXCEPT ![s] = "step"]
          /\ todo' = [todo EXCEPT ![s] = @ \ {a}]
          /\ cur' = [cur EXCEPT ![s] = a]
          /\ left' = [left EXCEPT ![s] = Due(s, a) \ Done(a)]
  /\ UNCHANGED <<alertVars, row, deliveryVars, queue, workVars, faults>>

\* The next step of the scan's alert, in order.
Upcoming(s) == CHOOSE n \in left[s] : \A m \in left[s] : n <= m

RouteOf(n) == Route[n] \cup (IF n \in OnCallSteps THEN EmailChannels ELSE {})

\* The scan turns to the next step or alert.
MoveOn(s) ==
  LET rest == left[s] \ {Upcoming(s)} IN
  /\ left' = [left EXCEPT ![s] = rest]
  /\ sc' = [sc EXCEPT ![s] = IF rest # {} THEN "step" ELSE IF todo[s] # {} THEN "next" ELSE "idle"]

\* The upcoming step gets its row, unless the unique index on alert and step finds
\* one there.
Record(s, v) ==
  LET a == cur[s]
      n == Upcoming(s)
  IN
  /\ row' = [row EXCEPT ![a][n] = IF @ = "none" THEN v ELSE @]
  /\ cooling' = [cooling EXCEPT ![a] = @ \/ row[a][n] = "none"]
  /\ MoveOn(s)
  /\ UNCHANGED <<alert, due, deliveryVars, queue, todo, cur, workVars, faults>>

\* A step is suppressed in quiet hours and at weekends if the policy says so, and
\* when it addresses the one on call and nobody is: as far as the alert goes, any
\* step may be.
StepSuppressed(s) ==
  /\ sc[s] = "step"
  /\ Record(s, "suppressed")

\* routeAlertToChannels queues its deliveries first; the row is written after.
StepRouted(s) ==
  /\ sc[s] = "step"
  /\ Enqueue(cur[s], RouteOf(Upcoming(s)), Upcoming(s))
  /\ sc' = [sc EXCEPT ![s] = "record"]
  /\ UNCHANGED <<alertVars, row, deliveryVars, todo, cur, left, workVars, faults>>

StepRecorded(s) ==
  /\ sc[s] = "record"
  /\ Record(s, "routed")

\* An error of the row's insert is swallowed, and the scan goes on.
RowLost(s) ==
  /\ sc[s] \in {"step", "record"}
  /\ faults < MaxFaults
  /\ faults' = faults + 1
  /\ MoveOn(s)
  /\ UNCHANGED <<alertVars, row, deliveryVars, queue, todo, cur, workVars>>

\* Any other failing call ends the whole scan, the alerts it had not reached included; in
\* the middle of routing, some deliveries are queued already.
ScanThrows(s) ==
  /\ sc[s] # "idle"
  /\ \/ UNCHANGED queue
     \/ sc[s] = "step" /\ \E cs \in SUBSET RouteOf(Upcoming(s)) : Enqueue(cur[s], cs, Upcoming(s))
  /\ faults < MaxFaults
  /\ faults' = faults + 1
  /\ sc' = [sc EXCEPT ![s] = "idle"]
  /\ todo' = [todo EXCEPT ![s] = {}]
  /\ left' = [left EXCEPT ![s] = {}]
  /\ UNCHANGED <<alertVars, row, deliveryVars, cur, workVars>>

-----------------------------------------------------------------------------
(* processDeliveryJob.                                                     *)

Finish(w) ==
  /\ wk' = [wk EXCEPT ![w] = "idle"]
  /\ job' = [job EXCEPT ![w] = SomeJob]
  /\ result' = [result EXCEPT ![w] = "sent"]

\* Mutant: the limit is off by one.
RefusedOffByOne(c) == Cardinality(fresh) > MaxPerHour \/ open[c]

\* The hourly limit or the channel's breaker stands in the way.
Refused(c) == Cardinality(fresh) >= MaxPerHour \/ open[c]

\* A worker sends the job's message, or stores a refusal as a failed delivery.
Begin(w, j) ==
  /\ job' = [job EXCEPT ![w] = j]
  /\ IF Refused(j.channel)
     THEN /\ wk' = [wk EXCEPT ![w] = "persist"]
          /\ result' = [result EXCEPT ![w] = "failed"]
     ELSE /\ wk' = [wk EXCEPT ![w] = "send"]
          /\ UNCHANGED result

\* Mutants: the delivery rows are not looked at; a refusal leaves no row.
TakeUnchecked(w, j) ==
  /\ wk[w] = "idle" /\ queue[j] > 0
  /\ queue' = [queue EXCEPT ![j] = @ - 1]
  /\ Begin(w, j)
  /\ UNCHANGED <<alertVars, row, deliveryVars, scanVars, faults>>

TakeDropping(w, j) ==
  /\ wk[w] = "idle" /\ queue[j] > 0
  /\ queue' = [queue EXCEPT ![j] = @ - 1]
  /\ IF delivery[j.alert][j.channel] # "none" \/ Refused(j.channel)
     THEN UNCHANGED workVars
     ELSE Begin(w, j)
  /\ UNCHANGED <<alertVars, row, deliveryVars, scanVars, faults>>

\* A job whose alert has a row for the channel is over at once.
Take(w, j) ==
  /\ wk[w] = "idle" /\ queue[j] > 0
  /\ queue' = [queue EXCEPT ![j] = @ - 1]
  /\ IF delivery[j.alert][j.channel] # "none" THEN UNCHANGED workVars ELSE Begin(w, j)
  /\ UNCHANGED <<alertVars, row, deliveryVars, scanVars, faults>>

SendAccepted(w) ==
  LET j == job[w] IN
  /\ wk[w] = "send"
  /\ wk' = [wk EXCEPT ![w] = "persist"]
  /\ sends' = [sends EXCEPT ![j.alert][j.channel] = @ + 1]
  /\ pages' = IF j.step = 0 THEN pages ELSE pages \cup {<<j.alert, j.step>>}
  /\ fails' = [fails EXCEPT ![j.channel] = 0]
  /\ open' = [open EXCEPT ![j.channel] = FALSE]
  /\ UNCHANGED <<alertVars, row, delivery, fresh, lost, queue, scanVars, job, result, faults>>

\* Failures are counted no further than the threshold, where they stop to matter.
SendFailed(w) ==
  LET c == job[w].channel IN
  /\ wk[w] = "send"
  /\ wk' = [wk EXCEPT ![w] = "persist"]
  /\ result' = [result EXCEPT ![w] = "failed"]
  /\ fails' = [fails EXCEPT ![c] = IF @ < BreakerThreshold THEN @ + 1 ELSE @]
  /\ open' = [open EXCEPT ![c] = fails[c] + 1 >= BreakerThreshold]
  /\ UNCHANGED <<alertVars, row, delivery, fresh, sends, pages, lost, queue, scanVars, job, faults>>

\* Mutant: the row only tells that the delivery was tried.
PersistTried(w) ==
  LET j == job[w] IN
  /\ wk[w] = "persist"
  /\ delivery' = [delivery EXCEPT ![j.alert][j.channel] = "tried"]
  /\ fresh' = fresh \cup {<<j.alert, j.channel>>}
  /\ Finish(w)
  /\ UNCHANGED <<alertVars, row, fails, open, sends, pages, lost, queue, scanVars, faults>>

\* The unique index on alert and channel keeps the first row.
Persist(w) ==
  LET j == job[w] IN
  /\ wk[w] = "persist"
  /\ IF delivery[j.alert][j.channel] = "none"
     THEN /\ delivery' = [delivery EXCEPT ![j.alert][j.channel] = result[w]]
          /\ fresh' = fresh \cup {<<j.alert, j.channel>>}
     ELSE UNCHANGED <<delivery, fresh>>
  /\ Finish(w)
  /\ UNCHANGED <<alertVars, row, fails, open, sends, pages, lost, queue, scanVars, faults>>

\* A database call fails: the job has one attempt, and an error of the row's
\* insert is swallowed.
JobFails(w) ==
  LET j == job[w] IN
  /\ wk[w] # "idle"
  /\ faults < MaxFaults
  /\ faults' = faults + 1
  /\ lost' = lost \cup {<<j.alert, j.channel>>}
  /\ Finish(w)
  /\ UNCHANGED <<alertVars, row, delivery, fresh, fails, open, sends, pages, queue, scanVars>>

HourPasses(d) ==
  /\ d \in fresh
  /\ fresh' = fresh \ {d}
  /\ UNCHANGED <<alertVars, row, delivery, fails, open, sends, pages, lost, queue, scanVars, workVars, faults>>

\* openUntil is over; the failures stay counted.
BreakerCloses(c) ==
  /\ open[c]
  /\ open' = [open EXCEPT ![c] = FALSE]
  /\ UNCHANGED <<alertVars, row, delivery, fresh, fails, sends, pages, lost, queue, scanVars, workVars, faults>>

\* The worker process dies: its scans are gone, its jobs return to the queue as
\* stalled, and the breakers are forgotten.
Restart ==
  /\ faults < MaxFaults
  /\ faults' = faults + 1
  /\ sc' = [s \in Scanners |-> "idle"]
  /\ todo' = [s \in Scanners |-> {}]
  /\ left' = [s \in Scanners |-> {}]
  /\ queue' = [j \in Jobs |-> queue[j] + Cardinality({w \in Workers : wk[w] # "idle" /\ job[w] = j})]
  /\ wk' = [w \in Workers |-> "idle"]
  /\ job' = [w \in Workers |-> SomeJob]
  /\ result' = [w \in Workers |-> "sent"]
  /\ fails' = [c \in Channels |-> 0]
  /\ open' = [c \in Channels |-> FALSE]
  /\ UNCHANGED <<alertVars, row, delivery, fresh, sends, pages, lost, cur>>

-----------------------------------------------------------------------------
(* The specification.                                                      *)

ScanStep(s) ==
  \/ \E a \in Alerts : ScanAlert(s, a)
  \/ StepSuppressed(s) \/ StepRouted(s) \/ StepRecorded(s)

DeliveryStep(w) ==
  \/ \E j \in Jobs : Take(w, j)
  \/ SendAccepted(w) \/ SendFailed(w) \/ Persist(w)

Time ==
  \/ \E a \in Alerts : StepDue(a) \/ AgeOut(a) \/ CoolDown(a)
  \/ \E d \in Alerts \X Channels : HourPasses(d)
  \/ \E c \in Channels : BreakerCloses(c)

Fault ==
  \/ \E a \in Alerts : RaiseUnrouted(a)
  \/ \E s \in Scanners : RowLost(s) \/ ScanThrows(s)
  \/ \E w \in Workers : JobFails(w)
  \/ Restart

Next ==
  \/ \E a \in Alerts : Raise(a) \/ Acknowledge(a)
  \/ \E s \in Scanners : StartScan(s) \/ ScanStep(s)
  \/ \E s \in Scanners, a \in Alerts : StartTest(s, a)
  \/ \E w \in Workers : DeliveryStep(w)
  \/ Time \/ Fault

Spec == Init /\ [][Next]_vars

\* The scan is a repeatable job, awaits resume, workers take jobs, and time passes.
Fairness ==
  /\ \A s \in Scanners : WF_vars(StartScan(s)) /\ WF_vars(ScanStep(s))
  /\ \A w \in Workers : WF_vars(DeliveryStep(w))
  /\ \A a \in Alerts : WF_vars(CoolDown(a))

FairSpec == Spec /\ Fairness

-----------------------------------------------------------------------------
(* Properties.                                                             *)

Pending(a, c) ==
  \/ \E j \in Jobs : j.alert = a /\ j.channel = c /\ queue[j] > 0
  \/ \E w \in Workers : wk[w] # "idle" /\ job[w].alert = a /\ job[w].channel = c

Reached(a, c) == delivery[a][c] # "none" \/ Pending(a, c) \/ <<a, c>> \in lost

\* A step that is recorded as routed is not forgotten: every channel of its route
\* has a delivery row, or a job that will write it, whatever was lost or restarted
\* in between, unless that very job failed.
RoutedReaches ==
  \A a \in Alerts, n \in 1..Steps :
    row[a][n] = "routed" => \A c \in RouteOf(n) : Reached(a, c)

\* Deliveries are deduplicated by a row that is read before sending and written
\* after: a channel gets an alert at most once per worker, and as often again for
\* every failure that loses the row.
DeliveredPerWorker ==
  \A a \in Alerts, c \in Channels : sends[a][c] <= Cardinality(Workers) * (1 + faults)

\* MAX_DELIVERIES_PER_HOUR counts rows before sending: deliveries that several
\* workers have under way overshoot it by less than one message per worker.
DeliveryLimitOvershoot ==
  Cardinality({d \in fresh : delivery[d[1]][d[2]] = "sent"}) <= MaxPerHour + Cardinality(Workers) - 1

\* alert-escalation.e2e-spec.ts, "does not escalate when alert is already
\* acknowledged": once the scans that had read the alert before its acknowledgement
\* are past it, nothing escalates it again.
AtRest(a) ==
  /\ alert[a] = "acked"
  /\ \A s \in Scanners : a \notin todo[s] /\ ~(sc[s] \in {"step", "record"} /\ cur[s] = a)

AcknowledgedRests ==
  [][\A a \in Alerts : AtRest(a) => AtRest(a)' /\ row'[a] = row[a]]_vars

\* Every step that is due is dealt with while the alert is open: suppressed, or
\* routed and then stored as delivered or failed on each channel of its route.
Handled(a, n) ==
  \/ alert[a] # "open"
  \/ row[a][n] = "suppressed"
  \/ row[a][n] = "routed" /\ \A c \in RouteOf(n) : delivery[a][c] # "none" \/ <<a, c>> \in lost

StepsConclude ==
  \A a \in Alerts, n \in 1..Steps : due[a] >= n ~> Handled(a, n)

\* incidents.service.ts:570, "Escalation step executed": a step that was routed to
\* a channel sends something, unless every channel refuses it.
EscalationNotifies ==
  \A a \in Alerts, n \in 1..Steps :
    (/\ row[a][n] = "routed"
     /\ \E c \in RouteOf(n) : delivery[a][c] = "sent" /\ ~Pending(a, c))
    => <<a, n>> \in pages
=============================================================================
