-------------------------- MODULE EscalationProofs --------------------------
(* Proofs about Escalation. *)
EXTENDS Escalation, FiniteSetTheorems, WellFoundedInduction, TLAPS

LEMMA Least ==
  ASSUME NEW T, T \subseteq Nat, T # {}
  PROVE  \E n \in T : \A m \in T : n <= m
<1>1. IsWellFoundedOn({ss \in Nat \X Nat : ss[1] < ss[2]}, Nat)
  BY NatLessThanWellFounded DEF OpToRel
<1>2. PICK n \in T : \A m \in T : <<m, n>> \notin {ss \in Nat \X Nat : ss[1] < ss[2]}
  <2> DEFINE R == {ss \in Nat \X Nat : ss[1] < ss[2]}
  <2>1. IsWellFoundedOn(R, Nat)
    BY <1>1
  <2> HIDE DEF R
  <2>2. \E n \in T : \A m \in T : <<m, n>> \notin R
    BY <2>1, WFMin
  <2>3. QED
    BY <2>2 DEF R
<1>3. \A m \in T : ~(m < n)
  BY <1>2
<1>4. QED
  BY <1>3

LEMMA SomeAlertType == SomeAlert \in Alerts
BY EscalationConstants DEF SomeAlert

LEMMA SomeJobType == SomeJob \in Jobs
<1>1. PICK c \in Channels : TRUE
  BY EscalationConstants
<1>2. [alert |-> SomeAlert, channel |-> c, step |-> 0] \in Jobs
  BY <1>1, SomeAlertType, EscalationConstants DEF Jobs
<1>3. QED
  BY <1>2 DEF SomeJob

\* Put back with the jobs that were under way, the queue counts in naturals.
LEMMA StalledCounted ==
  ASSUME NEW S, S \subseteq Workers
  PROVE  Cardinality(S) \in Nat /\ (S # {} => Cardinality(S) > 0)
<1>1. IsFiniteSet(S)
  BY EscalationConstants, FS_Subset
<1>2. QED
  BY <1>1, FS_CardinalityType, FS_EmptySet

LEMMA UpcomingType ==
  ASSUME TypeOK, NEW s \in Scanners, left[s] # {}
  PROVE  Upcoming(s) \in left[s] /\ Upcoming(s) \in 1..Steps
<1>1. left[s] \subseteq 1..Steps /\ left[s] \subseteq Nat
  BY EscalationConstants DEF TypeOK, ScanTypes
<1>2. \E n \in left[s] : \A m \in left[s] : n <= m
  BY <1>1, Least
<1>3. QED
  BY <1>1, <1>2 DEF Upcoming

-----------------------------------------------------------------------------
(* Type correctness.                                                       *)

LEMMA TypeInit == Init => TypeOK
<1> SUFFICES ASSUME Init PROVE TypeOK
  OBVIOUS
<1> USE EscalationConstants, SomeAlertType, SomeJobType DEF Init
<1>1. AlertTypes /\ ScanTypes /\ WorkTypes
  BY DEF AlertTypes, ScanTypes, WorkTypes
<1>2. DeliveryTypes
  BY DEF DeliveryTypes
<1>3. QED
  BY <1>1, <1>2 DEF TypeOK

\* A part that a step leaves alone keeps its type.
LEMMA TypesKept ==
  /\ AlertTypes /\ UNCHANGED alertVars => AlertTypes'
  /\ ScanTypes /\ UNCHANGED scanVars => ScanTypes'
  /\ WorkTypes /\ UNCHANGED workVars => WorkTypes'
  /\ DeliveryTypes /\ UNCHANGED deliveryVars => DeliveryTypes'
BY DEF alertVars, scanVars, workVars, deliveryVars, AlertTypes, ScanTypes, WorkTypes, DeliveryTypes

LEMMA TypeEnqueue ==
  ASSUME TypeOK, NEW a, NEW cs, NEW n, Enqueue(a, cs, n)
  PROVE  queue' \in [Jobs -> Nat]
BY DEF Enqueue, TypeOK

LEMMA JobType ==
  ASSUME TypeOK, NEW w \in Workers
  PROVE  job[w].alert \in Alerts /\ job[w].channel \in Channels /\ job[w].step \in 0..Steps
BY DEF TypeOK, WorkTypes, Jobs

LEMMA TypeAlerts ==
  ASSUME TypeOK, NEW a \in Alerts,
         Raise(a) \/ Acknowledge(a) \/ RaiseUnrouted(a) \/ StepDue(a) \/ AgeOut(a) \/ CoolDown(a)
  PROVE  TypeOK'
<1>1. queue' \in [Jobs -> Nat]
  BY TypeEnqueue DEF Raise, Acknowledge, RaiseUnrouted, StepDue, AgeOut, CoolDown, TypeOK
<1>2. AlertTypes'
  <2>1. CASE Raise(a) \/ RaiseUnrouted(a) \/ Acknowledge(a) \/ AgeOut(a)
    BY <2>1 DEF Raise, RaiseUnrouted, Acknowledge, AgeOut, TypeOK, AlertTypes
  <2>2. CASE StepDue(a)
    BY <2>2, EscalationConstants DEF StepDue, TypeOK, AlertTypes
  <2>3. CASE CoolDown(a)
    BY <2>3 DEF CoolDown, TypeOK, AlertTypes
  <2>4. QED
    BY <2>1, <2>2, <2>3
<1>3. faults' \in 0..MaxFaults
  BY EscalationConstants DEF Raise, Acknowledge, RaiseUnrouted, StepDue, AgeOut, CoolDown, TypeOK
<1>4. row' = row /\ UNCHANGED <<scanVars, workVars, deliveryVars>>
  BY DEF Raise, Acknowledge, RaiseUnrouted, StepDue, AgeOut, CoolDown
<1>5. QED
  BY <1>1, <1>2, <1>3, <1>4, TypesKept DEF TypeOK

LEMMA TypeRecord ==
  ASSUME TypeOK, NEW s \in Scanners, NEW v \in {"routed", "suppressed"}, Record(s, v)
  PROVE  TypeOK'
<1> DEFINE n == Upcoming(s)
           rest == left[s] \ {n}
<1> HIDE DEF n
<1>1. /\ row' = [row EXCEPT ![cur[s]][n] = IF @ = "none" THEN v ELSE @]
      /\ cooling' = [cooling EXCEPT ![cur[s]] = @ \/ row[cur[s]][n] = "none"]
      /\ left' = [left EXCEPT ![s] = rest]
      /\ sc' = [sc EXCEPT ![s] = IF rest # {} THEN "step" ELSE IF todo[s] # {} THEN "next" ELSE "idle"]
      /\ UNCHANGED <<alert, due, deliveryVars, queue, todo, cur, workVars, faults>>
  BY DEF Record, MoveOn, n
<1>2. row' \in [Alerts -> [1..Steps -> {"none", "routed", "suppressed"}]]
  BY <1>1 DEF TypeOK
<1>3. AlertTypes'
  <2>1. (cooling[cur[s]] \/ row[cur[s]][n] = "none") \in BOOLEAN
    OBVIOUS
  <2>2. cooling' \in [Alerts -> BOOLEAN]
    BY <1>1, <2>1, Zenon DEF TypeOK, AlertTypes
  <2>3. QED
    BY <1>1, <2>2 DEF TypeOK, AlertTypes
<1>4. ScanTypes'
  BY <1>1 DEF TypeOK, ScanTypes
<1>5. QED
  BY <1>1, <1>2, <1>3, <1>4, TypesKept DEF TypeOK

LEMMA TypeScans ==
  ASSUME TypeOK, NEW s \in Scanners, NEW a \in Alerts,
         StartScan(s) \/ StartTest(s, a) \/ ScanAlert(s, a) \/ StepRouted(s) \/ RowLost(s) \/ ScanThrows(s)
  PROVE  TypeOK'
<1> USE DEF TypeOK
<1>1. CASE StartScan(s)
  BY <1>1, TypesKept DEF StartScan, Remaining, ScanTypes
<1>2. CASE StartTest(s, a)
  <2>1. AlertTypes' /\ ScanTypes'
    BY <1>2 DEF StartTest, AlertTypes, ScanTypes
  <2>2. QED
    BY <1>2, <2>1, TypesKept DEF StartTest
<1>3. CASE ScanAlert(s, a)
  <2>1. Due(s, a) \ Done(a) \in SUBSET (1..Steps)
    BY EscalationConstants DEF Due, AlertTypes
  <2>2. CASE Remaining(s, todo[s] \ {a}) /\ UNCHANGED <<cur, left>>
    <3>1. ScanTypes'
      BY <2>2 DEF Remaining, ScanTypes
    <3>2. QED
      BY <1>3, <3>1, TypesKept DEF ScanAlert
  <2>3. CASE /\ sc' = [sc EXCEPT ![s] = "step"]
             /\ todo' = [todo EXCEPT ![s] = @ \ {a}]
             /\ cur' = [cur EXCEPT ![s] = a]
             /\ left' = [left EXCEPT ![s] = Due(s, a) \ Done(a)]
    <3>1. ScanTypes'
      BY <2>1, <2>3 DEF ScanTypes
    <3>2. QED
      BY <1>3, <3>1, TypesKept DEF ScanAlert
  <2>4. QED
    BY <1>3, <2>2, <2>3 DEF ScanAlert
<1>4. CASE StepRouted(s)
  <2>1. queue' \in [Jobs -> Nat]
    BY <1>4, TypeEnqueue DEF StepRouted
  <2>2. ScanTypes'
    BY <1>4 DEF StepRouted, ScanTypes
  <2>3. QED
    BY <1>4, <2>1, <2>2, TypesKept DEF StepRouted
<1>5. CASE ScanThrows(s)
  <2>1. queue' \in [Jobs -> Nat]
    BY <1>5, TypeEnqueue DEF ScanThrows
  <2>2. ScanTypes'
    BY <1>5 DEF ScanThrows, ScanTypes
  <2>3. faults' \in 0..MaxFaults
    BY <1>5, EscalationConstants DEF ScanThrows
  <2>4. QED
    BY <1>5, <2>1, <2>2, <2>3, TypesKept DEF ScanThrows
<1>6. CASE RowLost(s)
  <2>1. ScanTypes'
    BY <1>6 DEF RowLost, MoveOn, ScanTypes
  <2>2. faults' \in 0..MaxFaults
    BY <1>6, EscalationConstants DEF RowLost
  <2>3. QED
    BY <1>6, <2>1, <2>2, TypesKept DEF RowLost
<1>7. QED
  BY <1>1, <1>2, <1>3, <1>4, <1>5, <1>6

LEMMA TypeDeliveries ==
  ASSUME TypeOK, NEW w \in Workers, NEW j \in Jobs,
         Take(w, j) \/ SendAccepted(w) \/ SendFailed(w) \/ Persist(w) \/ JobFails(w)
  PROVE  TypeOK'
<1> USE DEF TypeOK
<1>1. CASE Take(w, j)
  <2>1. queue' \in [Jobs -> Nat]
    BY <1>1 DEF Take
  <2>2. WorkTypes'
    BY <1>1 DEF Take, Begin, WorkTypes, workVars
  <2>3. QED
    BY <1>1, <2>1, <2>2, TypesKept DEF Take
<1>2. CASE SendAccepted(w)
  <2>1. pages' \subseteq Alerts \X (1..Steps)
    BY <1>2, JobType, EscalationConstants DEF SendAccepted, DeliveryTypes
  <2>2. sends' \in [Alerts -> [Channels -> Nat]]
    BY <1>2, JobType DEF SendAccepted, DeliveryTypes
  <2>3. fails' \in [Channels -> Nat] /\ open' \in [Channels -> BOOLEAN]
    BY <1>2, JobType DEF SendAccepted, DeliveryTypes
  <2>4. WorkTypes'
    BY <1>2 DEF SendAccepted, WorkTypes
  <2>5. QED
    BY <1>2, <2>1, <2>2, <2>3, <2>4, TypesKept DEF SendAccepted, DeliveryTypes
<1>3. CASE SendFailed(w)
  <2>1. fails' \in [Channels -> Nat]
    BY <1>3, JobType DEF SendFailed, DeliveryTypes
  <2>open. open' \in [Channels -> BOOLEAN]
    BY <1>3, JobType DEF SendFailed, DeliveryTypes
  <2>2. WorkTypes'
    BY <1>3 DEF SendFailed, WorkTypes
  <2>3. QED
    BY <1>3, <2>1, <2>open, <2>2, TypesKept DEF SendFailed, DeliveryTypes
<1>4. CASE Persist(w)
  <2>1. result[w] \in {"sent", "failed"}
    BY DEF WorkTypes
  <2>2. DeliveryTypes'
    <3> DEFINE a == job[w].alert
               c == job[w].channel
    <3>1. a \in Alerts /\ c \in Channels
      BY JobType
    <3>2. /\ delivery' = delivery \/ delivery' = [delivery EXCEPT ![a][c] = result[w]]
          /\ fresh' = fresh \/ fresh' = fresh \cup {<<a, c>>}
          /\ UNCHANGED <<fails, open, sends, pages, lost>>
      BY <1>4 DEF Persist
    <3> HIDE DEF a, c
    <3>3. delivery' \in [Alerts -> [Channels -> {"none", "sent", "failed"}]]
      <4>1. delivery \in [Alerts -> [Channels -> {"none", "sent", "failed"}]]
        BY DEF DeliveryTypes
      <4> HIDE DEF TypeOK
      <4>2. [delivery EXCEPT ![a][c] = result[w]] \in [Alerts -> [Channels -> {"none", "sent", "failed"}]]
        BY <2>1, <3>1, <4>1
      <4>3. QED
        BY <3>2, <4>1, <4>2
    <3>4. fresh' \subseteq Alerts \X Channels
      BY <3>1, <3>2 DEF DeliveryTypes
    <3>5. QED
      BY <3>2, <3>3, <3>4 DEF DeliveryTypes
  <2>3. WorkTypes'
    BY <1>4, SomeJobType DEF Persist, Finish, WorkTypes
  <2>4. QED
    BY <1>4, <2>2, <2>3, TypesKept DEF Persist
<1>5. CASE JobFails(w)
  <2>1. DeliveryTypes'
    BY <1>5, JobType DEF JobFails, DeliveryTypes
  <2>2. WorkTypes'
    BY <1>5, SomeJobType DEF JobFails, Finish, WorkTypes
  <2>3. faults' \in 0..MaxFaults
    BY <1>5, EscalationConstants DEF JobFails
  <2>4. QED
    BY <1>5, <2>1, <2>2, <2>3, TypesKept DEF JobFails
<1>6. QED
  BY <1>1, <1>2, <1>3, <1>4, <1>5

LEMMA TypeProcess ==
  ASSUME TypeOK,
         \/ \E d \in Alerts \X Channels : HourPasses(d)
         \/ \E c \in Channels : BreakerCloses(c)
         \/ Restart
  PROVE  TypeOK'
<1> USE DEF TypeOK
<1>1. ASSUME NEW d \in Alerts \X Channels, HourPasses(d) PROVE TypeOK'
  BY <1>1, TypesKept DEF HourPasses, DeliveryTypes
<1>2. ASSUME NEW c \in Channels, BreakerCloses(c) PROVE TypeOK'
  BY <1>2, TypesKept DEF BreakerCloses, DeliveryTypes
<1>3. CASE Restart
  <2>1. queue' \in [Jobs -> Nat]
    <3>1. \A j \in Jobs : Cardinality({w \in Workers : wk[w] # "idle" /\ job[w] = j}) \in Nat
      BY StalledCounted
    <3>2. QED
      BY <1>3, <3>1 DEF Restart
  <2>2. ScanTypes' /\ WorkTypes' /\ DeliveryTypes'
    BY <1>3, SomeJobType DEF Restart, ScanTypes, WorkTypes, DeliveryTypes
  <2>3. faults' \in 0..MaxFaults
    BY <1>3, EscalationConstants DEF Restart
  <2>4. QED
    BY <1>3, <2>1, <2>2, <2>3, TypesKept DEF Restart
<1>4. QED
  BY <1>1, <1>2, <1>3

LEMMA TypeNext == TypeOK /\ [Next]_vars => TypeOK'
<1> SUFFICES ASSUME TypeOK, [Next]_vars PROVE TypeOK'
  OBVIOUS
<1>1. CASE UNCHANGED vars
  BY <1>1, TypesKept DEF vars, TypeOK, alertVars, scanVars, workVars, deliveryVars
<1>2. CASE Next
  <2>1. ASSUME NEW s \in Scanners, StepSuppressed(s) \/ StepRecorded(s) PROVE TypeOK'
    BY <2>1, TypeRecord DEF StepSuppressed, StepRecorded
  <2>2. QED
    BY <1>2, <2>1, SomeAlertType, SomeJobType, TypeAlerts, TypeScans, TypeDeliveries, TypeProcess
    DEF Next, ScanStep, DeliveryStep, Time, Fault
<1>3. QED
  BY <1>1, <1>2

(* Every value of every variable is of the kind the code stores there. *)
THEOREM TypeCorrect == Spec => []TypeOK
BY TypeInit, TypeNext, PTL DEF Spec

-----------------------------------------------------------------------------
(* A scan leaves an alert alone once it is acknowledged.                   *)

(* Once an alert is acknowledged and the scans that had read it are past it, no scan, *)
(* test or restart escalates it again, however many scans overlap.                    *)
THEOREM AcknowledgedStaysAtRest == Spec => AcknowledgedRests
<1>1. TypeOK /\ [Next]_vars => [\A a \in Alerts : AtRest(a) => AtRest(a)' /\ row'[a] = row[a]]_vars
  <2> SUFFICES ASSUME TypeOK, Next, NEW a \in Alerts, AtRest(a)
               PROVE  AtRest(a)' /\ row'[a] = row[a]
    BY Zenon
  <2>0. AlertTypes /\ ScanTypes
    BY DEF TypeOK
  <2>a. row \in [Alerts -> [1..Steps -> {"none", "routed", "suppressed"}]]
    BY DEF TypeOK
  <2> USE <2>0 DEF AtRest, AlertTypes, ScanTypes, alertVars, scanVars
  <2>1. ASSUME NEW b \in Alerts, Raise(b) \/ Acknowledge(b) \/ RaiseUnrouted(b) PROVE AtRest(a)' /\ row'[a] = row[a]
    BY <2>1 DEF Raise, Acknowledge, RaiseUnrouted
  <2>2. ASSUME NEW s \in Scanners, StartScan(s) PROVE AtRest(a)' /\ row'[a] = row[a]
    BY <2>2 DEF StartScan, Remaining
  <2>3. ASSUME NEW s \in Scanners, NEW b \in Alerts, StartTest(s, b) PROVE AtRest(a)' /\ row'[a] = row[a]
    BY <2>3 DEF StartTest
  <2>4. ASSUME NEW s \in Scanners, NEW b \in Alerts, ScanAlert(s, b) PROVE AtRest(a)' /\ row'[a] = row[a]
    <3>1. b \in todo[s] /\ UNCHANGED <<alert, row>>
      BY <2>4 DEF ScanAlert
    <3>2. \/ Remaining(s, todo[s] \ {b}) /\ UNCHANGED <<cur, left>>
          \/ /\ sc' = [sc EXCEPT ![s] = "step"]
             /\ todo' = [todo EXCEPT ![s] = @ \ {b}]
             /\ cur' = [cur EXCEPT ![s] = b]
             /\ left' = [left EXCEPT ![s] = Due(s, b) \ Done(b)]
      <4> HIDE DEF AtRest, AlertTypes, ScanTypes
      <4>1. QED
        BY <2>4 DEF ScanAlert
    <3>3. CASE Remaining(s, todo[s] \ {b}) /\ UNCHANGED <<cur, left>>
      BY <3>1, <3>3 DEF Remaining
    <3>4. CASE /\ sc' = [sc EXCEPT ![s] = "step"]
               /\ todo' = [todo EXCEPT ![s] = @ \ {b}]
               /\ cur' = [cur EXCEPT ![s] = b]
      BY <3>1, <3>4
    <3>5. QED
      <4> HIDE DEF AtRest, AlertTypes, ScanTypes
      <4>1. QED
        BY <3>2, <3>3, <3>4
  <2>5. ASSUME NEW s \in Scanners, StepSuppressed(s) \/ StepRecorded(s) PROVE AtRest(a)' /\ row'[a] = row[a]
    <3>1. cur[s] # a /\ cur[s] \in Alerts
      BY <2>5 DEF StepSuppressed, StepRecorded
    <3>2. row'[a] = row[a] /\ UNCHANGED <<alert, todo, cur>>
      <4> HIDE DEF AtRest, AlertTypes, ScanTypes
      <4>1. UNCHANGED <<alert, todo, cur>>
        BY <2>5 DEF StepSuppressed, StepRecorded, Record
      <4>2. ASSUME NEW v, Record(s, v) PROVE row'[a] = row[a]
        BY <2>a, <3>1, <4>2 DEF Record
      <4>3. QED
        BY <2>5, <4>1, <4>2 DEF StepSuppressed, StepRecorded
    <3>3. \A t \in Scanners : t # s => sc'[t] = sc[t]
      BY <2>5 DEF StepSuppressed, StepRecorded, Record, MoveOn
    <3>4. QED
      BY <3>1, <3>2, <3>3
  <2>6. ASSUME NEW s \in Scanners, StepRouted(s) \/ RowLost(s) \/ ScanThrows(s)
        PROVE  AtRest(a)' /\ row'[a] = row[a]
    BY <2>6 DEF StepRouted, RowLost, MoveOn, ScanThrows
  <2>7. ASSUME NEW w \in Workers, NEW j \in Jobs, Take(w, j) PROVE AtRest(a)' /\ row'[a] = row[a]
    BY <2>7 DEF Take
  <2>8. ASSUME NEW w \in Workers, SendAccepted(w) \/ SendFailed(w) \/ Persist(w) \/ JobFails(w)
        PROVE  AtRest(a)' /\ row'[a] = row[a]
    BY <2>8 DEF SendAccepted, SendFailed, Persist, JobFails
  <2>9. CASE Time
    BY <2>9 DEF Time, StepDue, AgeOut, CoolDown, HourPasses, BreakerCloses
  <2>10. CASE Restart
    BY <2>10 DEF Restart
  <2>11. QED
    BY <2>1, <2>2, <2>3, <2>4, <2>5, <2>6, <2>7, <2>8, <2>9, <2>10 DEF Next, ScanStep, DeliveryStep, Fault
<1>2. QED
  BY <1>1, TypeCorrect, PTL DEF Spec, AcknowledgedRests

-----------------------------------------------------------------------------
(* What is routed is not forgotten.                                        *)

\* While a scan is between routing a step and storing its row, the deliveries are
\* already on their way; and a scan has a step before it whenever it needs one.
RoutingInv ==
  /\ RoutedReaches
  /\ \A s \in Scanners : sc[s] \in {"step", "record"} => left[s] # {}
  /\ \A s \in Scanners : sc[s] = "record" => \A c \in RouteOf(Upcoming(s)) : Reached(cur[s], c)

LEMMA RouteType ==
  ASSUME NEW n \in 1..Steps
  PROVE  RouteOf(n) \subseteq Channels
BY EscalationConstants DEF RouteOf

LEMMA EnqueuedReached ==
  ASSUME TypeOK, NEW a \in Alerts, NEW n \in 0..Steps, NEW cs \in SUBSET Channels,
         Enqueue(a, cs, n), NEW c \in cs
  PROVE  Reached(a, c)'
<1> DEFINE j == [alert |-> a, channel |-> c, step |-> n]
<1>1. j \in Jobs /\ j.alert = a /\ j.channel = c /\ j.step = n
  BY DEF Jobs
<1> HIDE DEF j
<1>2. queue[j] \in Nat
  BY <1>1 DEF TypeOK
<1>3. queue'[j] = queue[j] + 1
  BY <1>1 DEF Enqueue
<1>4. queue'[j] > 0
  BY <1>2, <1>3
<1>5. QED
  BY <1>1, <1>4 DEF Reached, Pending

LEMMA EnqueueKeeps ==
  ASSUME TypeOK, NEW b, NEW cs, NEW n, Enqueue(b, cs, n),
         UNCHANGED <<delivery, lost, wk, job>>,
         NEW a \in Alerts, NEW c \in Channels, Reached(a, c)
  PROVE  Reached(a, c)'
<1>1. \A j \in Jobs : queue[j] > 0 => queue'[j] > 0
  BY DEF Enqueue, TypeOK
<1>2. QED
  BY <1>1 DEF Reached, Pending

LEMMA RestKeeps ==
  ASSUME UNCHANGED <<delivery, lost, queue, wk, job>>, NEW a, NEW c, Reached(a, c)
  PROVE  Reached(a, c)'
BY DEF Reached, Pending

LEMMA TakeKeeps ==
  ASSUME TypeOK, NEW w \in Workers, NEW j \in Jobs, Take(w, j),
         NEW a \in Alerts, NEW c \in Channels, Reached(a, c)
  PROVE  Reached(a, c)'
<1>1. UNCHANGED <<delivery, lost>> /\ wk[w] = "idle"
  BY DEF Take, deliveryVars
<1>2. \A i \in Jobs \ {j} : queue'[i] = queue[i]
  BY DEF Take, TypeOK
<1>3. \A v \in Workers \ {w} : wk'[v] = wk[v] /\ job'[v] = job[v]
  BY DEF Take, Begin, workVars, TypeOK, WorkTypes
<1>4. CASE j.alert = a /\ j.channel = c
  <2>1. CASE delivery[j.alert][j.channel] # "none"
    BY <1>1, <1>4, <2>1 DEF Reached
  <2>2. CASE delivery[j.alert][j.channel] = "none"
    <3>1. wk'[w] # "idle" /\ job'[w] = j
      BY <2>2 DEF Take, Begin, TypeOK, WorkTypes
    <3>2. QED
      BY <1>4, <3>1 DEF Reached, Pending
  <2>3. QED
    BY <2>1, <2>2
<1>5. CASE ~(j.alert = a /\ j.channel = c)
  BY <1>1, <1>2, <1>3, <1>5 DEF Reached, Pending
<1>6. QED
  BY <1>4, <1>5

LEMMA DeliveryKeeps ==
  ASSUME TypeOK, NEW w \in Workers,
         SendAccepted(w) \/ SendFailed(w) \/ Persist(w) \/ JobFails(w),
         NEW a \in Alerts, NEW c \in Channels, Reached(a, c)
  PROVE  Reached(a, c)'
<1>1. CASE SendAccepted(w) \/ SendFailed(w)
  <2>1. UNCHANGED <<delivery, lost, queue, job>>
    BY <1>1 DEF SendAccepted, SendFailed
  <2>2. \A v \in Workers : wk[v] # "idle" => wk'[v] # "idle"
    BY <1>1 DEF SendAccepted, SendFailed, TypeOK, WorkTypes
  <2>3. QED
    BY <2>1, <2>2 DEF Reached, Pending
<1>2. CASE Persist(w) \/ JobFails(w)
  <2>1. /\ queue' = queue
        /\ \A v \in Workers \ {w} : wk'[v] = wk[v] /\ job'[v] = job[v]
    BY <1>2 DEF Persist, JobFails, Finish, TypeOK, WorkTypes
  <2>2. delivery[a][c] # "none" => delivery'[a][c] # "none"
    <3>1. result[w] # "none"
      BY DEF TypeOK, WorkTypes
    <3>2. CASE delivery' = delivery
      BY <3>2
    <3>3. CASE delivery' = [delivery EXCEPT ![job[w].alert][job[w].channel] = result[w]]
      BY <3>1, <3>3, JobType DEF TypeOK, DeliveryTypes
    <3>4. QED
      BY <1>2, <3>2, <3>3 DEF Persist, JobFails
  <2>3. lost \subseteq lost'
    BY <1>2 DEF Persist, JobFails
  <2>4. CASE job[w].alert = a /\ job[w].channel = c
    <3>1. CASE JobFails(w)
      BY <2>4, <3>1 DEF JobFails, Reached
    <3>2. CASE Persist(w)
      <4>1. delivery[a][c] = "none" => delivery'[a][c] = result[w]
        BY <2>4, <3>2 DEF Persist, TypeOK, DeliveryTypes
      <4>2. result[w] # "none"
        BY DEF TypeOK, WorkTypes
      <4>3. QED
        BY <2>2, <4>1, <4>2 DEF Reached
    <3>3. QED
      BY <1>2, <3>1, <3>2
  <2>5. CASE ~(job[w].alert = a /\ job[w].channel = c)
    BY <2>1, <2>2, <2>3, <2>5 DEF Reached, Pending
  <2>6. QED
    BY <2>4, <2>5
<1>3. QED
  BY <1>1, <1>2

LEMMA RestartKeeps ==
  ASSUME TypeOK, Restart, NEW a \in Alerts, NEW c \in Channels, Reached(a, c)
  PROVE  Reached(a, c)'
<1> DEFINE stalled(j) == {w \in Workers : wk[w] # "idle" /\ job[w] = j}
<1>1. UNCHANGED <<delivery, lost>> /\ queue' = [j \in Jobs |-> queue[j] + Cardinality(stalled(j))]
  BY DEF Restart
<1>2. \A j \in Jobs : queue[j] \in Nat /\ Cardinality(stalled(j)) \in Nat
                      /\ (stalled(j) # {} => Cardinality(stalled(j)) > 0)
  BY StalledCounted DEF TypeOK
<1>3. ASSUME NEW j \in Jobs, queue[j] > 0 \/ stalled(j) # {} PROVE queue'[j] > 0
  <2> HIDE DEF stalled
  <2>1. queue'[j] = queue[j] + Cardinality(stalled(j))
    BY <1>1
  <2>2. QED
    BY <1>2, <1>3, <2>1
<1>4. \A w \in Workers : wk[w] # "idle" => job[w] \in Jobs /\ stalled(job[w]) # {}
  BY DEF TypeOK, WorkTypes
<1>5. QED
  <2>1. CASE delivery[a][c] # "none" \/ <<a, c>> \in lost
    BY <1>1, <2>1 DEF Reached
  <2>2. CASE Pending(a, c)
    <3>1. \E j \in Jobs : j.alert = a /\ j.channel = c /\ (queue[j] > 0 \/ stalled(j) # {})
      BY <1>4, <2>2 DEF Pending
    <3>2. \E j \in Jobs : j.alert = a /\ j.channel = c /\ queue'[j] > 0
      BY <1>3, <3>1
    <3>3. QED
      BY <3>2 DEF Reached, Pending
  <2>3. QED
    BY <2>1, <2>2 DEF Reached

\* A delivery that is stored, on its way or lost stays so.
LEMMA ReachedStable ==
  ASSUME TypeOK, [Next]_vars, NEW a \in Alerts, NEW c \in Channels, Reached(a, c)
  PROVE  Reached(a, c)'
<1>1. CASE UNCHANGED vars
  BY <1>1, RestKeeps DEF vars
<1>2. ASSUME NEW b \in Alerts, Raise(b) \/ RaiseUnrouted(b) PROVE Reached(a, c)'
  BY <1>2, EnqueueKeeps DEF Raise, RaiseUnrouted, deliveryVars, workVars
<1>3. ASSUME NEW b \in Alerts, Acknowledge(b) \/ StepDue(b) \/ AgeOut(b) \/ CoolDown(b) PROVE Reached(a, c)'
  BY <1>3, RestKeeps DEF Acknowledge, StepDue, AgeOut, CoolDown, deliveryVars, workVars
<1>4. ASSUME NEW s \in Scanners, NEW b \in Alerts,
             \/ StartScan(s) \/ StartTest(s, b) \/ ScanAlert(s, b)
             \/ StepSuppressed(s) \/ StepRecorded(s) \/ RowLost(s)
      PROVE  Reached(a, c)'
  BY <1>4, RestKeeps
  DEF StartScan, StartTest, ScanAlert, StepSuppressed, StepRecorded, RowLost, Record, deliveryVars, workVars
<1>5. ASSUME NEW s \in Scanners, StepRouted(s) \/ ScanThrows(s) PROVE Reached(a, c)'
  BY <1>5, RestKeeps, EnqueueKeeps DEF StepRouted, ScanThrows, deliveryVars, workVars
<1>6. ASSUME NEW d, HourPasses(d) \/ BreakerCloses(d) PROVE Reached(a, c)'
  BY <1>6, RestKeeps DEF HourPasses, BreakerCloses, workVars
<1>7. QED
  BY <1>1, <1>2, <1>3, <1>4, <1>5, <1>6, TakeKeeps, DeliveryKeeps, RestartKeeps, SomeAlertType
  DEF Next, ScanStep, DeliveryStep, Time, Fault

LEMMA RoutingInit == Init => RoutingInv
BY DEF Init, RoutingInv, RoutedReaches

\* Only the scan that routed a step records it as routed.
LEMMA RoutedStep ==
  ASSUME TypeOK, RoutingInv, Next, NEW a \in Alerts, NEW n \in 1..Steps, row'[a][n] = "routed"
  PROVE  row[a][n] = "routed" \/ \E s \in Scanners : sc[s] = "record" /\ cur[s] = a /\ Upcoming(s) = n
<1>1. CASE row' = row
  BY <1>1
<1>2. ASSUME NEW s \in Scanners, StepSuppressed(s)
      PROVE  row[a][n] = "routed"
  BY <1>2 DEF StepSuppressed, Record, TypeOK
<1>3. ASSUME NEW s \in Scanners, StepRecorded(s), row[a][n] # "routed"
      PROVE  sc[s] = "record" /\ cur[s] = a /\ Upcoming(s) = n
  BY <1>3 DEF StepRecorded, Record, TypeOK
<1>4. QED
  BY <1>1, <1>2, <1>3
  DEF Next, ScanStep, DeliveryStep, Time, Fault, Raise, Acknowledge, RaiseUnrouted, StepDue, AgeOut,
      CoolDown, HourPasses, BreakerCloses, StartScan, StartTest, ScanAlert, StepRouted, RowLost, ScanThrows,
      Take, SendAccepted, SendFailed, Persist, JobFails, Restart

\* A scan other than the one that moves keeps its place; one that stays between routing
\* and recording keeps its step.
LEMMA ScanPlaces ==
  ASSUME TypeOK, RoutingInv, Next, NEW s \in Scanners, sc'[s] \in {"step", "record"}
  PROVE  /\ left'[s] # {}
         /\ sc'[s] = "record" => \/ StepRouted(s)
                                 \/ sc[s] = "record" /\ cur'[s] = cur[s] /\ left'[s] = left[s]
<1> USE DEF TypeOK, ScanTypes
<1>1. CASE UNCHANGED scanVars
  BY <1>1 DEF RoutingInv, scanVars
<1>2. ASSUME NEW t \in Scanners, t # s,
             \/ \E a \in Alerts : StartScan(t) \/ StartTest(t, a) \/ ScanAlert(t, a)
             \/ StepSuppressed(t) \/ StepRouted(t) \/ StepRecorded(t) \/ RowLost(t) \/ ScanThrows(t)
      PROVE  sc'[s] = sc[s] /\ left'[s] = left[s] /\ cur'[s] = cur[s]
  BY <1>2 DEF StartScan, StartTest, ScanAlert, Remaining, StepSuppressed, StepRouted, StepRecorded,
              Record, RowLost, MoveOn, ScanThrows
<1>3. ASSUME NEW a \in Alerts, StartScan(s) \/ StartTest(s, a) \/ ScanThrows(s) PROVE FALSE
  BY <1>3 DEF StartScan, StartTest, ScanThrows, Remaining
<1>4. ASSUME NEW a \in Alerts, ScanAlert(s, a) PROVE sc'[s] = "step" /\ left'[s] # {}
  BY <1>4 DEF ScanAlert, Remaining
<1>5. CASE StepSuppressed(s) \/ StepRecorded(s) \/ RowLost(s)
  <2>1. sc'[s] = "step" /\ left'[s] # {}
    BY <1>5 DEF StepSuppressed, StepRecorded, RowLost, Record, MoveOn
  <2>2. QED
    BY <2>1
<1>6. CASE StepRouted(s)
  BY <1>6 DEF StepRouted, RoutingInv
<1>7. CASE Restart
  BY <1>7 DEF Restart
<1>8. CASE UNCHANGED <<sc, left, cur>>
  BY <1>8 DEF RoutingInv
<1>9. QED
  <2>1. ASSUME NEW t \in Scanners,
               \/ \E a \in Alerts : StartScan(t) \/ StartTest(t, a) \/ ScanAlert(t, a)
               \/ StepSuppressed(t) \/ StepRouted(t) \/ StepRecorded(t) \/ RowLost(t) \/ ScanThrows(t)
        PROVE  /\ left'[s] # {}
               /\ sc'[s] = "record" => \/ StepRouted(s)
                                       \/ sc[s] = "record" /\ cur'[s] = cur[s] /\ left'[s] = left[s]
    <3>1. CASE t = s
      BY <1>3, <1>4, <1>5, <1>6, <2>1, <3>1
    <3>2. CASE t # s
      BY <1>2, <2>1, <3>2 DEF RoutingInv
    <3>3. QED
      BY <3>1, <3>2
  <2>2. (\A t \in Scanners :
           ~ (\/ \E a \in Alerts : StartScan(t) \/ StartTest(t, a) \/ ScanAlert(t, a)
              \/ StepSuppressed(t) \/ StepRouted(t) \/ StepRecorded(t) \/ RowLost(t) \/ ScanThrows(t)))
        => Restart \/ UNCHANGED scanVars
    BY SomeAlertType
    DEF Next, ScanStep, DeliveryStep, Time, Fault, Raise, Acknowledge, RaiseUnrouted, StepDue, AgeOut,
        CoolDown, HourPasses, BreakerCloses, Take, SendAccepted, SendFailed, Persist, JobFails
  <2>3. QED
    BY <1>1, <1>7, <2>1, <2>2

LEMMA RoutingNext == TypeOK /\ RoutingInv /\ [Next]_vars => RoutingInv'
<1> SUFFICES ASSUME TypeOK, RoutingInv, Next PROVE RoutingInv'
  <2>1. RoutingInv /\ UNCHANGED vars => RoutingInv'
    BY DEF vars, RoutingInv, RoutedReaches, Reached, Pending, Upcoming
  <2>2. QED
    BY <2>1
<1>1. RoutedReaches'
  <2> SUFFICES ASSUME NEW a \in Alerts, NEW n \in 1..Steps, row'[a][n] = "routed",
                      NEW c \in RouteOf(n)
               PROVE  Reached(a, c)'
    BY DEF RoutedReaches
  <2>1. Reached(a, c)
    BY RoutedStep DEF RoutingInv, RoutedReaches
  <2>2. QED
    BY <2>1, ReachedStable, RouteType
<1>2. ASSUME NEW s \in Scanners, sc'[s] \in {"step", "record"} PROVE left'[s] # {}
  BY <1>2, ScanPlaces
<1>3. ASSUME NEW s \in Scanners, sc'[s] = "record", NEW c \in RouteOf(Upcoming(s)')
      PROVE  Reached(cur[s], c)'
  <2>1. CASE StepRouted(s)
    <3>1. left'[s] = left[s] /\ cur' = cur
      BY <2>1 DEF StepRouted
    <3>2. Upcoming(s)' = Upcoming(s)
      BY <3>1 DEF Upcoming
    <3>3. Upcoming(s) \in 1..Steps
      BY <2>1, UpcomingType DEF StepRouted, RoutingInv
    <3>4. cur[s] \in Alerts
      BY DEF TypeOK, ScanTypes
    <3>5. Reached(cur[s], c)'
      <4> DEFINE a == cur[s]
      <4>1. /\ Enqueue(a, RouteOf(Upcoming(s)), Upcoming(s))
            /\ RouteOf(Upcoming(s)) \in SUBSET Channels /\ c \in RouteOf(Upcoming(s))
            /\ Upcoming(s) \in 0..Steps
        BY <1>3, <2>1, <3>2, <3>3, RouteType DEF StepRouted
      <4> QED
        BY <3>1, <3>4, <4>1, EnqueuedReached DEF Reached, Pending
    <3>6. QED
      BY <3>1, <3>5
  <2>2. CASE sc[s] = "record" /\ cur'[s] = cur[s] /\ left'[s] = left[s]
    <3>1. Upcoming(s)' = Upcoming(s)
      BY <2>2 DEF Upcoming
    <3>2. Upcoming(s) \in 1..Steps /\ cur[s] \in Alerts
      BY <2>2, UpcomingType DEF RoutingInv, TypeOK, ScanTypes
    <3>3. c \in RouteOf(Upcoming(s)) /\ c \in Channels
      BY <1>3, <3>1, <3>2, RouteType
    <3>4. Reached(cur[s], c)
      BY <2>2, <3>3 DEF RoutingInv
    <3>5. QED
      BY <2>2, <3>2, <3>3, <3>4, ReachedStable DEF Reached, Pending
  <2>3. QED
    BY <1>3, <2>1, <2>2, ScanPlaces
<1>4. QED
  BY <1>1, <1>2, <1>3 DEF RoutingInv

(* Whatever fails or restarts and however many scans and workers overlap, a step stored *)
(* as routed has a stored delivery for each channel of its route, or one on its way,    *)
(* unless the job itself was lost.                                                      *)
THEOREM RoutedIsReached == Spec => []RoutedReaches
<1>1. RoutingInv => RoutedReaches
  BY DEF RoutingInv
<1>2. QED
  BY <1>1, RoutingInit, RoutingNext, TypeCorrect, PTL DEF Spec
-----------------------------------------------------------------------------
(* Deliveries overlap by at most the workers.                              *)

LEMMA OneMore ==
  ASSUME NEW S, IsFiniteSet(S), NEW T, NEW x, T \subseteq S \cup {x}
  PROVE  IsFiniteSet(T) /\ Cardinality(T) \in Nat /\ Cardinality(S) \in Nat
         /\ Cardinality(T) <= Cardinality(S) + 1
<1>1. /\ IsFiniteSet(S \cup {x}) /\ Cardinality(S) \in Nat
      /\ Cardinality(S \cup {x}) <= Cardinality(S) + 1
  <2>1. IsFiniteSet(S \cup {x}) /\ Cardinality(S) \in Nat
    BY FS_AddElement, FS_CardinalityType
  <2>2. Cardinality(S \cup {x}) \in {Cardinality(S), Cardinality(S) + 1}
    BY FS_AddElement
  <2>3. QED
    BY <2>1, <2>2
<1>2. IsFiniteSet(T) /\ Cardinality(T) <= Cardinality(S \cup {x})
  BY <1>1, FS_Subset
<1>3. Cardinality(T) \in Nat /\ Cardinality(S \cup {x}) \in Nat
  BY <1>1, <1>2, FS_CardinalityType
<1>4. QED
  BY <1>1, <1>2, <1>3

LEMMA OneLess ==
  ASSUME NEW S, IsFiniteSet(S), NEW T, NEW x \in S, T \subseteq S \ {x}
  PROVE  IsFiniteSet(T) /\ Cardinality(T) \in Nat /\ Cardinality(S) \in Nat
         /\ Cardinality(T) + 1 <= Cardinality(S)
<1>1. /\ IsFiniteSet(S \ {x}) /\ Cardinality(S) \in Nat
      /\ Cardinality(S \ {x}) = Cardinality(S) - 1
  BY FS_RemoveElement, FS_CardinalityType
<1>2. IsFiniteSet(T) /\ Cardinality(T) <= Cardinality(S \ {x})
  BY <1>1, FS_Subset
<1>3. Cardinality(T) \in Nat /\ Cardinality(S \ {x}) \in Nat
  BY <1>1, <1>2, FS_CardinalityType
<1>4. QED
  BY <1>1, <1>2, <1>3

LEMMA NoMore ==
  ASSUME NEW S, IsFiniteSet(S), NEW T, T \subseteq S
  PROVE  IsFiniteSet(T) /\ Cardinality(T) \in Nat /\ Cardinality(S) \in Nat
         /\ Cardinality(T) <= Cardinality(S)
BY FS_Subset, FS_CardinalityType

\* Whatever is not a worker's step or the end of its process leaves deliveries and workers alone,
\* except that rows grow old.
LEMMA DeliveryActors ==
  ASSUME TypeOK, [Next]_vars
  PROVE  \/ \E w \in Workers, j \in Jobs : Take(w, j)
         \/ \E w \in Workers : SendAccepted(w) \/ SendFailed(w) \/ Persist(w) \/ JobFails(w)
         \/ Restart
         \/ /\ UNCHANGED <<delivery, sends, wk, job, result>> /\ fresh' \subseteq fresh
            /\ faults' = faults \/ faults' = faults + 1
<1> DEFINE Quiet == /\ UNCHANGED <<delivery, sends, wk, job, result>> /\ fresh' \subseteq fresh
                    /\ faults' = faults \/ faults' = faults + 1
<1>1. ASSUME NEW a \in Alerts,
             \/ Raise(a) \/ RaiseUnrouted(a) \/ Acknowledge(a) \/ StepDue(a) \/ AgeOut(a) \/ CoolDown(a)
      PROVE  Quiet
  BY <1>1 DEF Raise, RaiseUnrouted, Acknowledge, StepDue, AgeOut, CoolDown, deliveryVars, workVars
<1>2. ASSUME NEW s \in Scanners, NEW a \in Alerts,
             \/ StartScan(s) \/ StartTest(s, a) \/ ScanAlert(s, a) \/ StepSuppressed(s) \/ StepRouted(s)
             \/ StepRecorded(s) \/ RowLost(s) \/ ScanThrows(s)
      PROVE  Quiet
  BY <1>2 DEF StartScan, StartTest, ScanAlert, StepSuppressed, StepRouted, StepRecorded, RowLost, Record,
              ScanThrows, deliveryVars, workVars
<1>3. ASSUME NEW d, HourPasses(d) \/ BreakerCloses(d) PROVE Quiet
  BY <1>3 DEF HourPasses, BreakerCloses, workVars
<1>4. CASE UNCHANGED vars
  BY <1>4 DEF vars
<1>5. QED
  <2> HIDE DEF Quiet
  <2>1. ASSUME NEW s \in Scanners, StartScan(s) \/ ScanStep(s) PROVE Quiet
    BY <1>2, <2>1, SomeAlertType DEF ScanStep
  <2>2. ASSUME Time PROVE Quiet
    BY <1>1, <1>3, <2>2 DEF Time
  <2>3. CASE Fault
    <3>1. ASSUME NEW a \in Alerts, RaiseUnrouted(a) PROVE Quiet
      BY <1>1, <3>1
    <3>2. ASSUME NEW s \in Scanners, RowLost(s) \/ ScanThrows(s) PROVE Quiet
      BY <1>2, <3>2, SomeAlertType
    <3>3. Quiet \/ (\E w \in Workers : JobFails(w)) \/ Restart
      BY <2>3, <3>1, <3>2 DEF Fault
    <3>4. QED
      BY <3>3 DEF Quiet
  <2>4. CASE \E w \in Workers : DeliveryStep(w)
    BY <2>4 DEF DeliveryStep
  <2>5. CASE \E s \in Scanners, a \in Alerts : StartTest(s, a)
    BY <1>2, <2>5 DEF Quiet
  <2>6. CASE \E a \in Alerts : Raise(a) \/ Acknowledge(a)
    BY <1>1, <2>6 DEF Quiet
  <2>7. CASE \E s \in Scanners : StartScan(s) \/ ScanStep(s)
    BY <2>1, <2>7 DEF Quiet
  <2>8. QED
    BY <1>4, <2>2, <2>3, <2>4, <2>5, <2>6, <2>7 DEF Next, Quiet

\* Deliveries of the last hour that were sent, and those whose message may still become one.
FreshSent == {d \in fresh : delivery[d[1]][d[2]] = "sent"}
Flying == {w \in Workers : wk[w] = "send" \/ (wk[w] = "persist" /\ result[w] = "sent")}

LimitInv == Cardinality(FreshSent) + Cardinality(Flying) + 1 <= MaxPerHour + Cardinality(Workers)

LEMMA FreshFinite ==
  ASSUME TypeOK
  PROVE  /\ IsFiniteSet(fresh) /\ Cardinality(fresh) \in Nat
         /\ IsFiniteSet(FreshSent) /\ Cardinality(FreshSent) \in Nat
         /\ Cardinality(FreshSent) <= Cardinality(fresh)
<1>1. IsFiniteSet(Alerts \X Channels)
  BY EscalationConstants, FS_Product
<1>2. IsFiniteSet(fresh) /\ FreshSent \subseteq fresh
  BY <1>1, FS_Subset DEF TypeOK, DeliveryTypes, FreshSent
<1>3. QED
  BY <1>2, FS_Subset, FS_CardinalityType

LEMMA FlyingFinite ==
  /\ IsFiniteSet(Flying) /\ Cardinality(Flying) \in Nat /\ Cardinality(Workers) \in Nat
  /\ Cardinality(Flying) <= Cardinality(Workers)
BY EscalationConstants, FS_Subset, FS_CardinalityType DEF Flying

LEMMA LimitNext == TypeOK /\ TypeOK' /\ LimitInv /\ [Next]_vars => LimitInv'
<1> SUFFICES ASSUME TypeOK, TypeOK', LimitInv, [Next]_vars PROVE LimitInv'
  OBVIOUS
<1> DEFINE f == Cardinality(FreshSent)
           f2 == Cardinality(FreshSent')
           y == Cardinality(Flying)
           y2 == Cardinality(Flying')
           n == Cardinality(Workers)
<1>1. /\ f \in Nat /\ y \in Nat /\ n \in Nat /\ y <= n /\ f + y + 1 <= MaxPerHour + n
      /\ IsFiniteSet(FreshSent) /\ IsFiniteSet(Flying) /\ MaxPerHour \in Nat \ {0}
  BY FreshFinite, FlyingFinite, EscalationConstants DEF LimitInv
<1>2. /\ IsFiniteSet(FreshSent') /\ f2 \in Nat
  <2>1. IsFiniteSet(Alerts \X Channels) /\ FreshSent' \subseteq Alerts \X Channels
    BY EscalationConstants, FS_Product DEF TypeOK, DeliveryTypes, FreshSent
  <2>2. QED
    BY <2>1, FS_Subset, FS_CardinalityType
<1>3. IsFiniteSet(Flying') /\ y2 \in Nat /\ y2 <= n
  <2>1. Flying' \subseteq Workers
    BY DEF Flying
  <2>2. QED
    BY <2>1, EscalationConstants, FS_Subset, FS_CardinalityType
<1> HIDE DEF f, f2, y, y2, n
<1>4. SUFFICES f2 + y2 + 1 <= MaxPerHour + n
  BY DEF LimitInv, f2, y2, n
<1>5. CASE FreshSent' \subseteq FreshSent /\ Flying' \subseteq Flying
  <2>1. f2 <= f /\ y2 <= y
    BY <1>1, <1>5, NoMore DEF f, f2, y, y2
  <2>2. QED
    BY <1>1, <1>2, <1>3, <2>1
<1>6. ASSUME NEW w \in Workers, NEW j \in Jobs, Take(w, j) PROVE f2 + y2 + 1 <= MaxPerHour + n
  <2>1. FreshSent' = FreshSent
    BY <1>6 DEF Take, deliveryVars, FreshSent
  <2>2. CASE delivery[j.alert][j.channel] # "none" \/ Refused(j.channel)
    <3>1. Flying' \subseteq Flying
      BY <1>6, <2>2 DEF Take, Begin, workVars, Flying, TypeOK, WorkTypes
    <3>2. QED
      BY <1>5, <2>1, <3>1
  <2>3. CASE ~Refused(j.channel)
    <3>1. Cardinality(fresh) < MaxPerHour
      BY <1>1, <2>3, FreshFinite DEF Refused
    <3>2. f2 = f /\ f <= Cardinality(fresh) /\ Cardinality(fresh) \in Nat
      BY <2>1, FreshFinite DEF f, f2
    <3>3. QED
      BY <1>1, <1>2, <1>3, <3>1, <3>2
  <2>4. QED
    BY <2>2, <2>3
<1>7. ASSUME NEW w \in Workers, SendAccepted(w) \/ SendFailed(w) \/ JobFails(w)
      PROVE  f2 + y2 + 1 <= MaxPerHour + n
  <2>1. FreshSent' = FreshSent
    BY <1>7 DEF SendAccepted, SendFailed, JobFails, FreshSent
  <2>2. Flying' \subseteq Flying
    BY <1>7 DEF SendAccepted, SendFailed, JobFails, Finish, Flying, TypeOK, WorkTypes
  <2>3. QED
    BY <1>5, <2>1, <2>2
<1>8. ASSUME NEW w \in Workers, Persist(w) PROVE f2 + y2 + 1 <= MaxPerHour + n
  <2>1. PICK a \in Alerts, c \in Channels : a = job[w].alert /\ c = job[w].channel
    BY JobType
  <2>2. wk[w] = "persist" /\ Flying' \subseteq Flying \ {w}
    BY <1>8 DEF Persist, Finish, Flying, TypeOK, WorkTypes
  <2>3. CASE UNCHANGED <<delivery, fresh>>
    BY <1>5, <2>2, <2>3 DEF FreshSent
  <2>4. CASE /\ delivery[a][c] = "none"
             /\ delivery' = [delivery EXCEPT ![a][c] = result[w]]
             /\ fresh' = fresh \cup {<<a, c>>}
    <3>1. ASSUME NEW d \in FreshSent', d # <<a, c>> PROVE d \in FreshSent
      <4>1. PICK b \in Alerts, e \in Channels : d = <<b, e>>
        BY DEF FreshSent, TypeOK, DeliveryTypes
      <4>2. delivery'[b][e] = delivery[b][e]
        BY <2>4, <3>1, <4>1 DEF TypeOK, DeliveryTypes
      <4>3. QED
        BY <2>4, <3>1, <4>1, <4>2 DEF FreshSent
    <3>2. CASE result[w] = "sent"
      <4>1. FreshSent' \subseteq FreshSent \cup {<<a, c>>} /\ w \in Flying
        BY <2>2, <3>1, <3>2 DEF Flying
      <4>2. f2 <= f + 1 /\ y2 + 1 <= y
        BY <1>1, <2>2, <4>1, OneMore, OneLess DEF f, f2, y, y2
      <4>3. QED
        BY <1>1, <1>2, <1>3, <4>2
    <3>3. CASE result[w] # "sent"
      <4>1. <<a, c>> \notin FreshSent'
        BY <2>4, <3>3 DEF FreshSent, TypeOK, DeliveryTypes
      <4>2. QED
        BY <1>5, <2>2, <3>1, <4>1
    <3>4. QED
      BY <3>2, <3>3
  <2>5. QED
    BY <1>8, <2>1, <2>3, <2>4 DEF Persist
<1>9. CASE Restart
  <2>1. FreshSent' = FreshSent /\ Flying' = {}
    BY <1>9 DEF Restart, FreshSent, Flying
  <2>2. QED
    BY <1>5, <2>1
<1>10. CASE UNCHANGED <<delivery, sends, wk, job, result>> /\ fresh' \subseteq fresh
  BY <1>5, <1>10 DEF FreshSent, Flying
<1>11. QED
  BY <1>6, <1>7, <1>8, <1>9, <1>10, DeliveryActors

(* The hourly limit counts the rows before a message is sent, and the row is   *)
(* written after it: the messages sent within an hour exceed the limit by at   *)
(* most the deliveries the other workers had under way.                        *)
THEOREM LimitOvershoot == Spec => []DeliveryLimitOvershoot
<1>1. Init => LimitInv
  <2> SUFFICES ASSUME Init PROVE LimitInv
    OBVIOUS
  <2>1. FreshSent = {} /\ Flying = {}
    BY DEF Init, FreshSent, Flying
  <2>2. Cardinality(FreshSent) = 0 /\ Cardinality(Flying) = 0
    BY <2>1, FS_EmptySet
  <2>3. QED
    BY <2>2, FlyingFinite, EscalationConstants DEF LimitInv
<1>2. TypeOK /\ LimitInv => DeliveryLimitOvershoot
  <2> SUFFICES ASSUME TypeOK, LimitInv PROVE DeliveryLimitOvershoot
    OBVIOUS
  <2>1. Cardinality(FreshSent) <= MaxPerHour + Cardinality(Workers) - 1
    BY FreshFinite, FlyingFinite, EscalationConstants DEF LimitInv
  <2>2. QED
    BY <2>1 DEF DeliveryLimitOvershoot, FreshSent
<1>3. Spec => []LimitInv
  BY <1>1, LimitNext, TypeCorrect, TypeNext, PTL DEF Spec
<1>4. QED
  BY <1>2, <1>3, TypeCorrect, PTL
-----------------------------------------------------------------------------
(* A channel gets an alert once for each worker.                           *)

\* The workers about to send an alert to a channel, and those about to store that they tried.
Sending(a, c) == {w \in Workers : wk[w] = "send" /\ job[w].alert = a /\ job[w].channel = c}
Tried(a, c) == {w \in Workers : wk[w] = "persist" /\ job[w].alert = a /\ job[w].channel = c}

\* What failures may have cost so far.
Losses == Cardinality(Workers) * faults

\* Before the row is there, every message has its worker still about to store it, or was lost;
\* afterwards nobody else begins.
SendsInv ==
  \A a \in Alerts, c \in Channels :
    /\ delivery[a][c] = "none" => sends[a][c] <= Cardinality(Tried(a, c)) + Losses
    /\ sends[a][c] + Cardinality(Sending(a, c)) <= Cardinality(Workers) + Losses

LEMMA Apart ==
  ASSUME NEW S, NEW T, S \subseteq Workers, T \subseteq Workers, S \cap T = {}
  PROVE  /\ IsFiniteSet(S) /\ Cardinality(S) \in Nat /\ IsFiniteSet(T) /\ Cardinality(T) \in Nat
         /\ Cardinality(Workers) \in Nat /\ Cardinality(S) + Cardinality(T) <= Cardinality(Workers)
<1>1. /\ IsFiniteSet(S) /\ Cardinality(S) \in Nat /\ IsFiniteSet(T) /\ Cardinality(T) \in Nat
      /\ Cardinality(Workers) \in Nat
  BY EscalationConstants, FS_Subset, FS_CardinalityType
<1>2. Cardinality(S \cap T) = 0
  BY FS_EmptySet
<1>3. Cardinality(S \cup T) = Cardinality(S) + Cardinality(T) - Cardinality(S \cap T)
  BY <1>1, FS_Union
<1>4. Cardinality(S \cup T) <= Cardinality(Workers)
  BY EscalationConstants, FS_Subset
<1>5. QED
  BY <1>1, <1>2, <1>3, <1>4

LEMMA SendsFinite ==
  ASSUME NEW a, NEW c
  PROVE  /\ IsFiniteSet(Sending(a, c)) /\ Cardinality(Sending(a, c)) \in Nat
         /\ IsFiniteSet(Tried(a, c)) /\ Cardinality(Tried(a, c)) \in Nat
         /\ Cardinality(Workers) \in Nat
         /\ Cardinality(Sending(a, c)) + Cardinality(Tried(a, c)) <= Cardinality(Workers)
<1>1. Sending(a, c) \subseteq Workers /\ Tried(a, c) \subseteq Workers /\ Sending(a, c) \cap Tried(a, c) = {}
  BY DEF Sending, Tried
<1>2. QED
  BY <1>1, Apart

\* A failure costs at most what all workers had under way.
LEMMA LossesGrow ==
  ASSUME NEW n \in Nat, NEW k \in Nat
  PROVE  n * k \in Nat /\ n * (k + 1) = n * k + n
OBVIOUS

LEMMA SendsNext == TypeOK /\ TypeOK' /\ SendsInv /\ [Next]_vars => SendsInv'
<1> SUFFICES ASSUME TypeOK, TypeOK', SendsInv, [Next]_vars, NEW a \in Alerts, NEW c \in Channels
             PROVE  /\ delivery'[a][c] = "none" => sends'[a][c] <= Cardinality(Tried(a, c)') + Losses'
                    /\ sends'[a][c] + Cardinality(Sending(a, c)') <= Cardinality(Workers) + Losses'
  BY DEF SendsInv
<1> DEFINE p == Cardinality(Sending(a, c))
           p2 == Cardinality(Sending(a, c)')
           t == Cardinality(Tried(a, c))
           t2 == Cardinality(Tried(a, c)')
           n == Cardinality(Workers)
           x == sends[a][c]
           x2 == sends'[a][c]
<1>1. /\ p \in Nat /\ t \in Nat /\ n \in Nat /\ p + t <= n
      /\ IsFiniteSet(Sending(a, c)) /\ IsFiniteSet(Tried(a, c))
  BY SendsFinite
<1>2. /\ p2 \in Nat /\ t2 \in Nat /\ p2 + t2 <= n
      /\ IsFiniteSet(Sending(a, c)') /\ IsFiniteSet(Tried(a, c)')
  <2>1. /\ Sending(a, c)' \subseteq Workers /\ Tried(a, c)' \subseteq Workers
        /\ Sending(a, c)' \cap Tried(a, c)' = {}
    BY DEF Sending, Tried
  <2>2. QED
    BY <2>1, Apart
<1>3. /\ x \in Nat /\ x2 \in Nat /\ faults \in Nat /\ faults' \in Nat
  BY EscalationConstants DEF TypeOK, DeliveryTypes
<1>4. Losses \in Nat /\ (faults' = faults => Losses' = Losses) /\ (faults' = faults + 1 => Losses' = Losses + n)
  BY <1>1, <1>3, LossesGrow DEF Losses
<1>5. /\ delivery[a][c] = "none" => x <= t + Losses
      /\ x + p <= n + Losses
  BY DEF SendsInv
<1> HIDE DEF p, p2, t, t2, n, x, x2
<1>6. SUFFICES /\ delivery'[a][c] = "none" => x2 <= t2 + Losses'
               /\ x2 + p2 <= n + Losses'
  BY DEF p2, t2, n, x2
\* Nobody else begins to send, and whoever tried still is about to say so, or its row is there.
<1>7. CASE /\ x2 = x /\ faults' = faults /\ Sending(a, c)' \subseteq Sending(a, c)
           /\ delivery'[a][c] = "none" => delivery[a][c] = "none" /\ Tried(a, c) \subseteq Tried(a, c)'
  <2>1. p2 <= p
    BY <1>1, <1>7, NoMore DEF p, p2
  <2>2. Tried(a, c) \subseteq Tried(a, c)' => t <= t2
    BY <1>2, NoMore DEF t, t2
  <2>3. QED
    BY <1>1, <1>2, <1>3, <1>4, <1>5, <1>7, <2>1, <2>2
\* A failure puts all workers' losses on the bill.
<1>8. CASE /\ x2 = x /\ faults' = faults + 1 /\ Sending(a, c)' \subseteq Sending(a, c)
           /\ delivery'[a][c] = delivery[a][c]
  <2>1. p2 <= p
    BY <1>1, <1>8, NoMore DEF p, p2
  <2>2. QED
    BY <1>1, <1>2, <1>3, <1>4, <1>5, <1>8, <2>1
<1>9. ASSUME NEW w \in Workers, NEW j \in Jobs, Take(w, j)
      PROVE  /\ delivery'[a][c] = "none" => x2 <= t2 + Losses'
             /\ x2 + p2 <= n + Losses'
  <2>1. UNCHANGED <<delivery, sends, faults>> /\ wk[w] = "idle"
    BY <1>9 DEF Take, deliveryVars
  <2>2. \A v \in Workers \ {w} : wk'[v] = wk[v] /\ job'[v] = job[v]
    BY <1>9 DEF Take, Begin, workVars, TypeOK, WorkTypes
  <2>3. Tried(a, c) \subseteq Tried(a, c)'
    BY <2>1, <2>2 DEF Tried
  <2>4. CASE delivery[a][c] # "none"
    <3>1. Sending(a, c)' \subseteq Sending(a, c)
      <4>1. wk'[w] # "send" \/ job'[w].alert # a \/ job'[w].channel # c
        BY <1>9, <2>4 DEF Take, Begin, workVars, TypeOK, WorkTypes
      <4>2. QED
        BY <2>2, <4>1 DEF Sending
    <3>2. QED
      BY <1>7, <2>1, <2>3, <3>1 DEF x, x2
  <2>5. CASE delivery[a][c] = "none"
    <3>1. t <= t2
      BY <1>2, <2>3, NoMore DEF t, t2
    <3>2. x2 = x /\ Losses' = Losses
      BY <1>4, <2>1 DEF x, x2
    <3>3. QED
      BY <1>1, <1>2, <1>3, <1>4, <1>5, <2>5, <3>1, <3>2
  <2>6. QED
    BY <2>4, <2>5
<1>10. ASSUME NEW w \in Workers, SendAccepted(w)
       PROVE  /\ delivery'[a][c] = "none" => x2 <= t2 + Losses'
              /\ x2 + p2 <= n + Losses'
  <2>1. /\ UNCHANGED <<delivery, job, faults>> /\ wk[w] = "send" /\ wk' = [wk EXCEPT ![w] = "persist"]
        /\ sends' = [sends EXCEPT ![job[w].alert][job[w].channel] = @ + 1]
    BY <1>10 DEF SendAccepted
  <2>2. Losses' = Losses
    BY <1>4, <2>1
  <2>3. Tried(a, c) \subseteq Tried(a, c)'
    BY <2>1 DEF Tried, TypeOK, WorkTypes
  <2>4. CASE job[w].alert = a /\ job[w].channel = c
    <3>1. w \in Sending(a, c) /\ Sending(a, c)' \subseteq Sending(a, c) \ {w}
      BY <2>1, <2>4 DEF Sending, TypeOK, WorkTypes
    <3>2. w \in Tried(a, c)' /\ Tried(a, c) \subseteq Tried(a, c)' \ {w}
      BY <2>1, <2>3, <2>4 DEF Tried, TypeOK, WorkTypes
    <3>3. p2 + 1 <= p /\ t + 1 <= t2
      BY <1>1, <1>2, <3>1, <3>2, OneLess DEF p, p2, t, t2
    <3>4. x2 = x + 1
      BY <2>1, <2>4 DEF x, x2, TypeOK, DeliveryTypes
    <3>5. QED
      BY <1>1, <1>2, <1>3, <1>4, <1>5, <2>1, <2>2, <3>3, <3>4
  <2>5. CASE ~(job[w].alert = a /\ job[w].channel = c)
    <3>1. x2 = x
      BY <2>1, <2>5, JobType DEF x, x2, TypeOK, DeliveryTypes
    <3>2. Sending(a, c)' \subseteq Sending(a, c)
      BY <2>1 DEF Sending, TypeOK, WorkTypes
    <3>3. QED
      BY <1>7, <2>1, <2>3, <3>1, <3>2
  <2>6. QED
    BY <2>4, <2>5
<1>11. ASSUME NEW w \in Workers, SendFailed(w)
       PROVE  /\ delivery'[a][c] = "none" => x2 <= t2 + Losses'
              /\ x2 + p2 <= n + Losses'
  <2>1. /\ UNCHANGED <<delivery, job, faults, sends>> /\ wk[w] = "send" /\ wk' = [wk EXCEPT ![w] = "persist"]
    BY <1>11 DEF SendFailed
  <2>2. Tried(a, c) \subseteq Tried(a, c)' /\ Sending(a, c)' \subseteq Sending(a, c)
    BY <2>1 DEF Tried, Sending, TypeOK, WorkTypes
  <2>3. QED
    BY <1>7, <2>1, <2>2 DEF x, x2
<1>12. ASSUME NEW w \in Workers, Persist(w)
       PROVE  /\ delivery'[a][c] = "none" => x2 <= t2 + Losses'
              /\ x2 + p2 <= n + Losses'
  <2>1. UNCHANGED <<sends, faults>> /\ wk[w] = "persist" /\ result[w] # "none"
    BY <1>12 DEF Persist, TypeOK, WorkTypes
  <2>2. \A v \in Workers \ {w} : wk'[v] = wk[v] /\ job'[v] = job[v]
    BY <1>12 DEF Persist, Finish, TypeOK, WorkTypes
  <2>3. wk'[w] = "idle"
    BY <1>12 DEF Persist, Finish, TypeOK, WorkTypes
  <2>4. Sending(a, c)' \subseteq Sending(a, c)
    BY <2>2, <2>3 DEF Sending
  <2>5. CASE job[w].alert = a /\ job[w].channel = c
    <3>1. delivery'[a][c] # "none"
      <4>1. CASE delivery[a][c] # "none"
        BY <1>12, <2>5, <4>1 DEF Persist
      <4>2. CASE delivery[a][c] = "none"
        <5>1. delivery' = [delivery EXCEPT ![a][c] = result[w]]
          BY <1>12, <2>5, <4>2 DEF Persist
        <5>2. QED
          BY <2>1, <5>1 DEF TypeOK, DeliveryTypes
      <4>3. QED
        BY <4>1, <4>2
    <3>2. QED
      BY <1>7, <2>1, <2>4, <3>1 DEF x, x2
  <2>6. CASE ~(job[w].alert = a /\ job[w].channel = c)
    <3>1. Tried(a, c) \subseteq Tried(a, c)'
      BY <2>2, <2>6 DEF Tried
    <3>2. delivery'[a][c] = delivery[a][c]
      <4>1. PICK b \in Alerts, e \in Channels : b = job[w].alert /\ e = job[w].channel
        BY JobType
      <4>2. delivery' = delivery \/ delivery' = [delivery EXCEPT ![b][e] = result[w]]
        BY <1>12, <4>1 DEF Persist
      <4>3. delivery \in [Alerts -> [Channels -> {"none", "sent", "failed"}]] /\ (b # a \/ e # c)
        BY <2>6, <4>1 DEF TypeOK, DeliveryTypes
      <4>4. [delivery EXCEPT ![b][e] = result[w]][a][c] = delivery[a][c]
        BY <4>3
      <4>5. QED
        BY <4>2, <4>4
    <3>3. QED
      BY <1>7, <2>1, <2>4, <3>1, <3>2 DEF x, x2
  <2>7. QED
    BY <2>5, <2>6
<1>13. ASSUME NEW w \in Workers, JobFails(w)
       PROVE  /\ delivery'[a][c] = "none" => x2 <= t2 + Losses'
              /\ x2 + p2 <= n + Losses'
  <2>1. /\ UNCHANGED <<delivery, sends>> /\ faults' = faults + 1
        /\ wk' = [wk EXCEPT ![w] = "idle"] /\ job' = [job EXCEPT ![w] = SomeJob]
    BY <1>13 DEF JobFails, Finish
  <2>2. Sending(a, c)' \subseteq Sending(a, c)
    BY <2>1 DEF Sending, TypeOK, WorkTypes
  <2>3. QED
    BY <1>8, <2>1, <2>2 DEF x, x2
<1>14. CASE Restart
  <2>1. /\ UNCHANGED <<delivery, sends>> /\ faults' = faults + 1 /\ Sending(a, c)' = {}
    BY <1>14 DEF Restart, Sending
  <2>2. QED
    BY <1>8, <2>1 DEF x, x2
<1>15. CASE UNCHANGED <<delivery, sends, wk, job, result>> /\ (faults' = faults \/ faults' = faults + 1)
  <2>1. Sending(a, c)' = Sending(a, c) /\ Tried(a, c)' = Tried(a, c)
    BY <1>15 DEF Sending, Tried
  <2>2. QED
    BY <1>7, <1>8, <1>15, <2>1 DEF x, x2
<1>16. QED
  BY <1>9, <1>10, <1>11, <1>12, <1>13, <1>14, <1>15, DeliveryActors

(* A channel gets an alert at most once for each worker, and as often again   *)
(* for each failure: the delivery row is read before the message is sent and  *)
(* written after, and once it is there no worker begins.                      *)
THEOREM OncePerWorker == Spec => []DeliveredPerWorker
<1>1. Init => SendsInv
  <2> SUFFICES ASSUME Init, NEW a \in Alerts, NEW c \in Channels
               PROVE  sends[a][c] <= Cardinality(Tried(a, c)) + Losses
                      /\ sends[a][c] + Cardinality(Sending(a, c)) <= Cardinality(Workers) + Losses
    BY DEF SendsInv
  <2>1. sends[a][c] = 0 /\ faults = 0
    BY DEF Init
  <2>2. Losses = 0
    BY <2>1, SendsFinite DEF Losses
  <2>3. QED
    BY <2>1, <2>2, SendsFinite
<1>2. TypeOK /\ SendsInv => DeliveredPerWorker
  <2> SUFFICES ASSUME TypeOK, SendsInv, NEW a \in Alerts, NEW c \in Channels
               PROVE  sends[a][c] <= Cardinality(Workers) * (1 + faults)
    BY DEF DeliveredPerWorker
  <2>1. sends[a][c] \in Nat /\ faults \in Nat /\ Cardinality(Workers) \in Nat /\ Cardinality(Sending(a, c)) \in Nat
    BY SendsFinite, EscalationConstants DEF TypeOK, DeliveryTypes
  <2>2. Losses \in Nat /\ Cardinality(Workers) * (1 + faults) = Losses + Cardinality(Workers)
    BY <2>1, LossesGrow DEF Losses
  <2>3. sends[a][c] + Cardinality(Sending(a, c)) <= Cardinality(Workers) + Losses
    BY DEF SendsInv
  <2>4. QED
    BY <2>1, <2>2, <2>3
<1>3. Spec => []SendsInv
  BY <1>1, SendsNext, TypeCorrect, TypeNext, PTL DEF Spec
<1>4. QED
  BY <1>2, <1>3, TypeCorrect, PTL
=============================================================================
