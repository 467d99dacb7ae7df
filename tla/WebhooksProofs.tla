--------------------------- MODULE WebhooksProofs ---------------------------
(* Proofs about Webhooks, for any number of endpoints, deliverers, events and faults. *)
EXTENDS Webhooks, FiniteSetTheorems, TLAPS

Labels == {"idle", "post", "reset", "count", "disable", "throw"} \cup Stages

\* A dispatch that is about to count or record its failure has failed, and one that is about to
\* disable its endpoint has counted enough failures.
Counting(e) == {d \in Deliverers : dl[d] = "count" /\ at[d] = e}

BreakInv ==
  /\ \A e \in Endpoints : failures[e] + Cardinality(Counting(e)) <= failed[e]
  /\ \A d \in Deliverers : dl[d] = "disable" => failed[at[d]] >= DisableAt

\* A call that is past looking for a recent alert has found the threshold crossed.
SpikeInv ==
  /\ \A d \in Deliverers : dl[d] \in {"mitigate", "create"} => spiked
  /\ \A e \in Endpoints : calls["mitigate"][e] > 0 \/ calls["create"][e] > 0 => spiked

\* Each failed dispatch is still to be recorded by the service, or by the handler of the failed job,
\* or it was recorded: twice at most.
Noting == {d \in Deliverers : dl[d] \in {"count", "disable", "rule"}}
Throwing == {d \in Deliverers : dl[d] \notin {"idle", "post", "reset"}}
Records == Failures(log) + Cardinality(Noting) + Cardinality(Throwing) + Cardinality(Each(calls["rule"]))

RecordInv == Records <= 2 * Cardinality(Each(failed))

\* A call that looks for a recent alert has found the threshold crossed, too.
CrossedInv ==
  \/ 2 * Cardinality(Each(failed)) >= Threshold
  \/ /\ ~spiked
     /\ \A d \in Deliverers : dl[d] # "recent"
     /\ \A e \in Endpoints : calls["recent"][e] = 0

-----------------------------------------------------------------------------
(* Counting.                                                               *)

\* The deliverers at some place, before (C) and after (D) a step of d.
LEMMA OneMoves ==
  ASSUME NEW d \in Deliverers, NEW C \in SUBSET Deliverers, NEW D \in SUBSET Deliverers,
         D \ {d} = C \ {d}
  PROVE  /\ Cardinality(C) \in Nat /\ Cardinality(D) \in Nat
         /\ d \notin D => Cardinality(D) <= Cardinality(C)
         /\ d \in C /\ d \notin D => Cardinality(D) = Cardinality(C) - 1
         /\ d \notin C /\ d \in D => Cardinality(D) = Cardinality(C) + 1
         /\ (d \in C <=> d \in D) => Cardinality(D) = Cardinality(C)
<1>0. IsFiniteSet(C) /\ Cardinality(C) \in Nat /\ IsFiniteSet(D) /\ Cardinality(D) \in Nat
  BY WebhookConstants, FS_Subset, FS_CardinalityType
<1>1. CASE d \in C /\ d \notin D
  <2>1. D = C \ {d}
    BY <1>1
  <2>2. QED
    BY <1>0, <1>1, <2>1, FS_RemoveElement
<1>2. CASE d \notin C /\ d \in D
  <2>1. D = C \cup {d}
    BY <1>2
  <2>2. QED
    BY <1>0, <1>2, <2>1, FS_AddElement
<1>3. CASE d \in C <=> d \in D
  <2>1. D = C
    BY <1>3
  <2>2. QED
    BY <1>0, <1>3, <2>1
<1>4. QED
  BY <1>1, <1>2, <1>3

\* What is counted by endpoint is finite.
LEMMA EachFinite ==
  ASSUME NEW c \in [Endpoints -> Nat]
  PROVE  IsFiniteSet(Each(c)) /\ Cardinality(Each(c)) \in Nat
<1> DEFINE T == {{e} \X (1..c[e]) : e \in Endpoints}
<1>1. ASSUME NEW e \in Endpoints PROVE IsFiniteSet({e} \X (1..c[e]))
  <2>1. IsFiniteSet(1..c[e])
    BY FS_Interval
  <2>2. IsFiniteSet({e})
    BY FS_Singleton
  <2>3. QED
    BY <2>1, <2>2, FS_Product
<1>2. IsFiniteSet(T)
  <2> DEFINE f == [e \in Endpoints |-> {e} \X (1..c[e])]
  <2>1. f \in Surjection(Endpoints, T)
    BY DEF Surjection
  <2>2. QED
    <3> HIDE DEF f, T
    <3>1. QED
      BY <2>1, WebhookConstants, FS_Surjection
<1>3. IsFiniteSet(UNION T)
  <2>1. \A x \in T : IsFiniteSet(x)
    BY <1>1
  <2> HIDE DEF T
  <2>2. QED
    BY <1>2, <2>1, FS_UNION
<1>4. QED
  BY <1>3, FS_CardinalityType DEF Each

LEMMA EachIs ==
  ASSUME NEW c \in [Endpoints -> Nat]
  PROVE  /\ \A x \in Each(c) : x[1] \in Endpoints /\ x[2] \in 1..c[x[1]] /\ x = <<x[1], x[2]>>
         /\ \A e \in Endpoints, n \in Nat : n \in 1..c[e] => <<e, n>> \in Each(c)
<1>1. ASSUME NEW x \in Each(c)
      PROVE  x[1] \in Endpoints /\ x[2] \in 1..c[x[1]] /\ x = <<x[1], x[2]>>
  <2>1. PICK e \in Endpoints : x \in {e} \X (1..c[e])
    BY DEF Each
  <2>2. QED
    BY <2>1
<1>2. ASSUME NEW e \in Endpoints, NEW n \in Nat, n \in 1..c[e] PROVE <<e, n>> \in Each(c)
  <2>1. <<e, n>> \in {e} \X (1..c[e])
    BY <1>2
  <2>2. QED
    BY <2>1 DEF Each
<1>3. QED
  BY <1>1, <1>2

\* One more, or one less, at one endpoint.
LEMMA EachMore ==
  ASSUME NEW b \in [Endpoints -> Nat], NEW c \in [Endpoints -> Nat], NEW e \in Endpoints,
         c = [b EXCEPT ![e] = b[e] + 1]
  PROVE  Cardinality(Each(c)) = Cardinality(Each(b)) + 1
<1> DEFINE x == <<e, b[e] + 1>>
<1>1. IsFiniteSet(Each(b)) /\ Cardinality(Each(b)) \in Nat
  BY EachFinite
<1>2. x \notin Each(b)
  <2>1. x[1] = e /\ x[2] = b[e] + 1 /\ b[e] \in Nat
    OBVIOUS
  <2>2. x[2] \notin 1..b[x[1]]
    BY <2>1
  <2>3. QED
    BY <2>2, EachIs
<1>3. Each(c) = Each(b) \cup {x}
  <2>1. \A g \in Endpoints \ {e} : c[g] = b[g]
    OBVIOUS
  <2>2. c[e] = b[e] + 1 /\ b[e] \in Nat
    OBVIOUS
  <2>3. ASSUME NEW y \in Each(c) PROVE y \in Each(b) \cup {x}
    <3>1. y[1] \in Endpoints /\ y[2] \in 1..c[y[1]] /\ y = <<y[1], y[2]>>
      BY EachIs
    <3>2. CASE y[1] = e /\ y[2] = b[e] + 1
      BY <3>1, <3>2
    <3>3. CASE ~(y[1] = e /\ y[2] = b[e] + 1)
      <4>1. y[2] \in 1..b[y[1]]
        BY <2>1, <2>2, <3>1, <3>3
      <4>2. <<y[1], y[2]>> \in Each(b)
        BY <3>1, <4>1, EachIs
      <4>3. QED
        BY <3>1, <4>2
    <3>4. QED
      BY <3>2, <3>3
  <2>4. ASSUME NEW y \in Each(b) PROVE y \in Each(c)
    <3>1. y[1] \in Endpoints /\ y[2] \in 1..b[y[1]] /\ y = <<y[1], y[2]>>
      BY EachIs
    <3>2. y[2] \in 1..c[y[1]] /\ y[2] \in Nat
      BY <2>1, <2>2, <3>1
    <3>3. <<y[1], y[2]>> \in Each(c)
      BY <3>1, <3>2, EachIs
    <3>4. QED
      BY <3>1, <3>3
  <2>5. x \in Each(c)
    <3>1. b[e] + 1 \in 1..c[e] /\ b[e] + 1 \in Nat
      BY <2>2
    <3>2. QED
      BY <3>1, EachIs
  <2>6. QED
    BY <2>3, <2>4, <2>5
<1>4. QED
  BY <1>1, <1>2, <1>3, FS_AddElement

LEMMA EachNone ==
  ASSUME NEW c \in [Endpoints -> Nat], \A e \in Endpoints : c[e] = 0
  PROVE  Cardinality(Each(c)) = 0
<1>1. \A n : n \notin 1..0
  OBVIOUS
<1>2. ASSUME NEW x \in Each(c) PROVE FALSE
  <2>1. x[1] \in Endpoints /\ x[2] \in 1..c[x[1]]
    BY EachIs
  <2>2. QED
    BY <1>1, <2>1
<1>3. Each(c) = {}
  BY <1>2
<1>4. QED
  BY <1>3, FS_EmptySet

\* What is counted in a log.
LEMMA EntriesCounted ==
  ASSUME NEW l \in Seq({"failure", "alert"}), NEW x
  PROVE  /\ IsFiniteSet({i \in 1..Len(l) : l[i] = x})
         /\ Entries(l, x) \in Nat
<1>1. IsFiniteSet(1..Len(l))
  BY FS_Interval
<1>2. {i \in 1..Len(l) : l[i] = x} \in SUBSET (1..Len(l))
  OBVIOUS
<1>3. QED
  BY <1>1, <1>2, FS_Subset, FS_CardinalityType DEF Entries

LEMMA EntriesAppend ==
  ASSUME NEW l \in Seq({"failure", "alert"}), NEW x, NEW y \in {"failure", "alert"}
  PROVE  Entries(Append(l, y), x) = IF x = y THEN Entries(l, x) + 1 ELSE Entries(l, x)
<1> DEFINE S == {i \in 1..Len(l) : l[i] = x}
           T == {i \in 1..Len(Append(l, y)) : Append(l, y)[i] = x}
<1>1. /\ Len(l) \in Nat /\ Len(Append(l, y)) = Len(l) + 1
      /\ Append(l, y)[Len(l) + 1] = y
      /\ \A i \in 1..Len(l) : Append(l, y)[i] = l[i]
  OBVIOUS
<1>2. IsFiniteSet(S) /\ Len(l) + 1 \notin S
  <2>1. IsFiniteSet(S)
    BY EntriesCounted
  <2>2. Len(l) + 1 \notin S
    BY <1>1
  <2>3. QED
    BY <2>1, <2>2
<1>3. T = IF x = y THEN S \cup {Len(l) + 1} ELSE S
  BY <1>1
<1>4. QED
  <2> HIDE DEF S, T
  <2>1. CASE x = y
    <3>1. Cardinality(T) = Cardinality(S) + 1
      BY <1>2, <1>3, <2>1, FS_AddElement
    <3>2. QED
      BY <2>1, <3>1 DEF Entries, S, T
  <2>2. CASE x # y
    BY <1>3, <2>2 DEF Entries, S, T
  <2>3. QED
    BY <2>1, <2>2

LEMMA EntriesTail ==
  ASSUME NEW l \in Seq({"failure", "alert"}), l # <<>>, NEW x
  PROVE  Entries(Tail(l), x) <= Entries(l, x)
<1> DEFINE S == {i \in 1..Len(l) : l[i] = x}
           T == {i \in 1..Len(Tail(l)) : Tail(l)[i] = x}
           f == [i \in T |-> i + 1]
<1>1. /\ Len(l) \in Nat /\ Len(Tail(l)) = Len(l) - 1
      /\ \A i \in 1..Len(Tail(l)) : Tail(l)[i] = l[i + 1]
  OBVIOUS
<1>2. ASSUME NEW i \in T PROVE i \in Nat /\ i + 1 \in S
  BY <1>1
<1>3. f \in Injection(T, S)
  BY <1>2 DEF Injection, IsInjective
<1>4. IsFiniteSet(S)
  BY EntriesCounted
<1>5. Cardinality(T) <= Cardinality(S)
  <2> HIDE DEF S, T, f
  <2>1. QED
    BY <1>3, <1>4, FS_Injection
<1>6. QED
  BY <1>5 DEF Entries

LEMMA AlertsKept ==
  ASSUME NEW n \in Nat
  PROVE  /\ [i \in 1..n |-> "alert"] \in Seq({"failure", "alert"})
         /\ Failures([i \in 1..n |-> "alert"]) = 0
         /\ Stored([i \in 1..n |-> "alert"]) = n
         /\ HasAlert([i \in 1..n |-> "alert"]) <=> n > 0
<1> DEFINE l == [i \in 1..n |-> "alert"]
<1>1. l \in Seq({"failure", "alert"}) /\ Len(l) = n /\ \A i \in 1..n : l[i] = "alert"
  OBVIOUS
<1>2. {i \in 1..Len(l) : l[i] = "failure"} = {} /\ {i \in 1..Len(l) : l[i] = "alert"} = 1..n
  BY <1>1
<1>3. Failures(l) = 0
  BY <1>2, FS_EmptySet DEF Failures, Entries
<1>4. Stored(l) = n
  <2>1. Cardinality(1..n) = n
    BY FS_Interval
  <2>2. QED
    BY <1>2, <2>1 DEF Stored, Entries
<1>5. HasAlert(l) <=> n > 0
  BY <1>1 DEF HasAlert
<1>6. QED
  BY <1>1, <1>3, <1>4, <1>5

-----------------------------------------------------------------------------
(* Types.                                                                  *)

LEMMA TypeStep == TypeOK /\ [Next]_vars => TypeOK'
<1> SUFFICES ASSUME TypeOK, [Next]_vars PROVE TypeOK'
  OBVIOUS
<1> DEFINE Counts == [Endpoints -> Nat]
           Standing == [Endpoints -> {"active", "off", "gone"}]
           Calling == [Stages -> Counts]
           Logs == Seq({"failure", "alert"})
           Placed == [Deliverers -> Labels]
           Aimed == [Deliverers -> Endpoints]
           Trying == [Deliverers -> 1..Attempts]
           Replays == [Deliverers -> BOOLEAN]
<1>t. /\ endpoint \in Standing /\ failures \in Counts /\ collected \in Counts /\ queue \in Counts
      /\ dl \in Placed /\ at \in Aimed /\ try \in Trying /\ replay \in Replays
      /\ calls \in Calling /\ log \in Logs /\ failed \in Counts /\ spiked \in BOOLEAN
      /\ events \in 0..MaxEvents /\ faults \in 0..MaxFaults
  BY DEF TypeOK, Labels
<1>s. /\ endpoint' \in Standing /\ failures' \in Counts /\ collected' \in Counts /\ queue' \in Counts
      /\ dl' \in Placed /\ at' \in Aimed /\ try' \in Trying /\ replay' \in Replays
      /\ calls' \in Calling /\ log' \in Logs /\ failed' \in Counts /\ spiked' \in BOOLEAN
      /\ events' \in 0..MaxEvents /\ faults' \in 0..MaxFaults
      => TypeOK'
  BY DEF TypeOK, Labels
<1>m. ASSUME NEW c \in Counts, NEW e \in Endpoints, NEW n \in Nat PROVE [c EXCEPT ![e] = n] \in Counts
  OBVIOUS
<1>n. ASSUME NEW c \in Counts, NEW e \in Endpoints PROVE c[e] \in Nat
  OBVIOUS
<1>e. ASSUME NEW e \in Endpoints, NEW x \in {"active", "off", "gone"}
      PROVE  [endpoint EXCEPT ![e] = x] \in Standing
  BY <1>t
<1>g. ASSUME NEW d \in Deliverers, NEW x \in Labels, GoOn(d, x)
      PROVE  dl' \in Placed /\ at' \in Aimed /\ try' \in Trying /\ replay' \in Replays
  BY <1>t, <1>g DEF GoOn
<1>a. \A d \in Deliverers : at[d] \in Endpoints
  BY <1>t
<1>i. ASSUME NEW s \in Stages, NEW e \in Endpoints, NEW n \in Nat PROVE [calls EXCEPT ![s][e] = n] \in Calling
  BY <1>t
<1>c. ASSUME NEW s \in Stages, NEW e \in Endpoints PROVE calls[s][e] \in Nat
  BY <1>t
<1>b. ASSUME NEW d \in Deliverers, NEW e \in Endpoints, NEW byHand \in BOOLEAN, Begin(d, e, byHand)
      PROVE  dl' \in Placed /\ at' \in Aimed /\ try' \in Trying /\ replay' \in Replays
  BY <1>t, <1>b, WebhookConstants DEF Begin, Labels
<1>f. ASSUME NewEvent PROVE events' \in 0..MaxEvents
  BY <1>t, <1>f, WebhookConstants DEF NewEvent
<1>h. ASSUME Fault PROVE faults' \in 0..MaxFaults
  BY <1>t, <1>h, WebhookConstants DEF Fault
<1>l. /\ Stages \subseteq Labels /\ {"idle", "post", "reset", "count", "disable", "throw"} \subseteq Labels
      /\ "rule" \in Stages
  BY DEF Labels, Stages
<1>r. ASSUME NEW d \in Deliverers, Again(d) PROVE try' \in Trying
  <2>1. try[d] + 1 \in 1..Attempts
    BY <1>t, <1>r, WebhookConstants DEF Again
  <2>2. QED
    BY <1>t, <1>r, <2>1 DEF Again
<1>z. [e \in Endpoints |-> 0] \in Counts /\ [s \in Stages |-> [e \in Endpoints |-> 0]] \in Calling
  OBVIOUS
<1>q. Restart => dl' \in Placed /\ queue' \in Counts /\ log' \in Logs
  <2>1. ASSUME NEW e \in Endpoints
        PROVE  Cardinality({d \in Deliverers : dl[d] # "idle" /\ ~replay[d] /\ at[d] = e}) \in Nat
    BY WebhookConstants, FS_Subset, FS_CardinalityType
  <2>2. Restart => queue' \in Counts
    <3> DEFINE k(e) == Cardinality({d \in Deliverers : dl[d] # "idle" /\ ~replay[d] /\ at[d] = e})
    <3>1. Restart => queue' = [e \in Endpoints |-> queue[e] + k(e)]
      BY DEF Restart
    <3>2. \A e \in Endpoints : k(e) \in Nat
      BY <2>1
    <3> HIDE DEF k
    <3>3. QED
      BY <1>t, <3>1, <3>2
  <2>3. Restart => log' \in Logs
    <3>1. Stored(log) \in Nat
      BY <1>t, EntriesCounted DEF Stored
    <3>2. QED
      BY <3>1, AlertsKept DEF Restart
  <2>4. Restart => dl' \in Placed
    BY <1>l DEF Restart
  <2>5. QED
    BY <2>2, <2>3, <2>4
<1>o. ASSUME Expire PROVE log' \in Logs
  BY <1>t, <1>o DEF Expire
<1>k. Collect => collected' \in Counts
  BY <1>t DEF Collect
<1>u. ASSUME NEW s \in Stages, NEW e \in Endpoints, NEW next,
             calls' = [t \in Stages |-> [calls[t] EXCEPT ![e] =
                        IF t = s THEN @ - 1 ELSE IF t = next THEN @ + 1 ELSE @]],
             calls[s][e] > 0
      PROVE  calls' \in Calling
  <2>1. ASSUME NEW t \in Stages
        PROVE  [calls[t] EXCEPT ![e] = IF t = s THEN @ - 1 ELSE IF t = next THEN @ + 1 ELSE @] \in Counts
    <3>1. (IF t = s THEN calls[t][e] - 1 ELSE IF t = next THEN calls[t][e] + 1 ELSE calls[t][e]) \in Nat
      BY <1>t, <1>u
    <3>2. QED
      BY <1>t, <3>1
  <2>2. QED
    BY <1>u, <2>1
<1>p. ASSUME NEW s \in Stages, NEW e \in Endpoints, NEW next, Stage(s, e, next)
      PROVE  log' \in Logs /\ spiked' \in BOOLEAN /\ endpoint' \in Standing
  <2>1. Append(log, "failure") \in Logs /\ Append(log, "alert") \in Logs
    BY <1>t
  <2>2. CASE Note(e, next)
    BY <1>t, <2>1, <2>2 DEF Note
  <2>3. CASE LookBack(e, next)
    BY <1>t, <2>3 DEF LookBack
  <2>4. CASE Mitigate(e, next)
    BY <1>t, <2>4 DEF Mitigate
  <2>5. CASE CreateAlert(e, next)
    BY <1>t, <2>1, <2>5 DEF CreateAlert
  <2>6. QED
    BY <1>p, <2>2, <2>3, <2>4, <2>5 DEF Stage
<1> HIDE DEF Counts, Standing, Calling, Logs, Placed, Aimed, Trying, Replays
<1>1. CASE UNCHANGED vars
  BY <1>s, <1>t, <1>1 DEF vars, dlVars, alertVars
<1>2. CASE Collect
  BY <1>s, <1>t, <1>2, <1>f, <1>k DEF Collect, dlVars, alertVars
<1>3. CASE Expire
  BY <1>s, <1>t, <1>3, <1>o DEF Expire, dlVars
<1>4. ASSUME NEW e \in Endpoints, Enqueue(e) PROVE TypeOK'
  <2>1. collected[e] - 1 \in Nat /\ queue[e] + 1 \in Nat
    BY <1>4, <1>n, <1>t DEF Enqueue
  <2>2. QED
    BY <1>s, <1>t, <1>4, <1>m, <1>n, <2>1 DEF dlVars, alertVars, Enqueue
<1>5. ASSUME NEW e \in Endpoints, Remove(e) PROVE TypeOK'
  BY <1>s, <1>t, <1>5, <1>e DEF Remove, dlVars, alertVars
<1>6. ASSUME NEW d \in Deliverers, NEW e \in Endpoints, Retry(d, e) PROVE TypeOK'
  BY <1>s, <1>t, <1>6, <1>b, <1>f DEF Retry, alertVars
<1>7. ASSUME NEW d \in Deliverers, NEW e \in Endpoints, Take(d, e) PROVE TypeOK'
  <2>1. queue[e] - 1 \in Nat
    BY <1>7, <1>n, <1>t DEF Take
  <2>2. QED
    BY <1>s, <1>t, <1>7, <1>m, <1>b, <2>1 DEF Take, alertVars
<1>8. ASSUME NEW d \in Deliverers, Accepted(d) PROVE TypeOK'
  BY <1>s, <1>t, <1>8, <1>g, <1>l DEF Accepted, alertVars
<1>9. ASSUME NEW d \in Deliverers, Again(d) PROVE TypeOK'
  BY <1>s, <1>t, <1>9, <1>r DEF Again, alertVars
<1>10. ASSUME NEW d \in Deliverers, GiveUp(d) PROVE TypeOK'
  <2>1. failed[at[d]] + 1 \in Nat
    BY <1>10, <1>a, <1>n, <1>t
  <2>2. QED
    BY <1>s, <1>t, <1>10, <1>g, <1>l, <1>m, <1>a, <2>1 DEF GiveUp, alertVars
<1>11. ASSUME NEW d \in Deliverers, Missing(d) PROVE TypeOK'
  <2>1. failed[at[d]] + 1 \in Nat
    BY <1>11, <1>a, <1>n, <1>t
  <2>2. QED
    BY <1>s, <1>t, <1>11, <1>g, <1>l, <1>m, <1>a, <2>1 DEF Missing, alertVars
<1>12. ASSUME NEW d \in Deliverers, Reset(d) PROVE TypeOK'
  BY <1>s, <1>t, <1>12, <1>g, <1>l, <1>m, <1>a DEF Reset, alertVars
<1>13. ASSUME NEW d \in Deliverers, Count(d) PROVE TypeOK'
  <2>1. failures[at[d]] + 1 \in Nat
    BY <1>13, <1>a, <1>n, <1>t
  <2>2. QED
    BY <1>s, <1>t, <1>13, <1>g, <1>l, <1>m, <1>a, <2>1 DEF Count, alertVars
<1>14. ASSUME NEW d \in Deliverers, Disable(d) PROVE TypeOK'
  BY <1>s, <1>t, <1>14, <1>g, <1>l, <1>e, <1>a DEF Disable, alertVars
<1>15. ASSUME NEW d \in Deliverers, Record(d) PROVE TypeOK'
  <2>1. PICK next \in Stages \cup {"done"} :
          Stage(dl[d], at[d], next) /\ GoOn(d, IF next = "done" THEN "throw" ELSE next)
    BY <1>15 DEF Record
  <2>2. dl[d] \in Stages /\ UNCHANGED <<failures, collected, queue, calls, failed, events, faults>>
    BY <1>15 DEF Record
  <2>3. (IF next = "done" THEN "throw" ELSE next) \in Labels
    BY <1>l
  <2>4. dl' \in Placed /\ at' \in Aimed /\ try' \in Trying /\ replay' \in Replays
    BY <1>g, <2>1, <2>3
  <2>5. log' \in Logs /\ spiked' \in BOOLEAN /\ endpoint' \in Standing
    BY <1>a, <1>p, <2>1, <2>2
  <2>6. QED
    BY <1>s, <1>t, <2>2, <2>4, <2>5
<1>16. ASSUME NEW d \in Deliverers, Throw(d) PROVE TypeOK'
  <2>1. calls' \in Calling
    <3>1. calls["rule"][at[d]] + 1 \in Nat
      BY <1>a, <1>c, <1>l
    <3>2. [calls EXCEPT !["rule"][at[d]] = calls["rule"][at[d]] + 1] \in Calling
      BY <1>a, <1>i, <1>l, <3>1
    <3>3. QED
      BY <1>16, <1>t, <3>2 DEF Throw
  <2>2. QED
    BY <1>s, <1>t, <1>16, <1>g, <1>l, <2>1 DEF Throw, alertVars
<1>17. ASSUME NEW s \in Stages, NEW e \in Endpoints, RecordDetached(s, e) PROVE TypeOK'
  <2>1. PICK next \in Stages \cup {"done"} :
          /\ Stage(s, e, next)
          /\ calls' = [t \in Stages |-> [calls[t] EXCEPT ![e] =
                        IF t = s THEN @ - 1 ELSE IF t = next THEN @ + 1 ELSE @]]
    BY <1>17 DEF RecordDetached
  <2>2. calls[s][e] > 0 /\ UNCHANGED <<failures, collected, queue, dl, at, try, replay, failed, events, faults>>
    BY <1>17 DEF RecordDetached, dlVars
  <2>3. calls' \in Calling
    BY <1>u, <2>1, <2>2
  <2>4. log' \in Logs /\ spiked' \in BOOLEAN /\ endpoint' \in Standing
    BY <1>p, <2>1
  <2>5. QED
    BY <1>s, <1>t, <2>2, <2>3, <2>4
<1>18. ASSUME NEW d \in Deliverers, DbError(d) PROVE TypeOK'
  <2>1. failed[at[d]] + 1 \in Nat
    BY <1>18, <1>a, <1>n, <1>t
  <2>2. QED
    BY <1>s, <1>t, <1>18, <1>g, <1>l, <1>m, <1>a, <1>h, <2>1 DEF DbError, alertVars
<1>19. ASSUME NEW s \in Stages, NEW e \in Endpoints, CallFails(s, e) PROVE TypeOK'
  <2>1. calls[s][e] - 1 \in Nat
    BY <1>19, <1>c DEF CallFails
  <2>2. calls' \in Calling
    BY <1>19, <1>i, <2>1 DEF CallFails
  <2>3. QED
    BY <1>s, <1>t, <1>19, <1>h, <2>1, <2>2 DEF CallFails, dlVars
<1>20. CASE Restart
  BY <1>s, <1>t, <1>20, <1>h, <1>z, <1>q DEF Restart
<1>21. QED
  BY <1>1, <1>2, <1>3, <1>4, <1>5, <1>6, <1>7, <1>8, <1>9, <1>10, <1>11, <1>12, <1>13, <1>14, <1>15,
     <1>16, <1>17, <1>18, <1>19, <1>20 DEF Next, Deliver

(* The endpoints, the jobs, the dispatches under way, the calls that record  *)
(* failures and the log keep their types (WebhookService, recordFailure).    *)
THEOREM TypeCorrect == Spec => []TypeOK
<1>1. Init => TypeOK
  <2> SUFFICES ASSUME Init PROVE TypeOK
    OBVIOUS
  <2>1. /\ endpoint \in [Endpoints -> {"active", "off", "gone"}] /\ failures \in [Endpoints -> Nat]
        /\ collected \in [Endpoints -> Nat] /\ queue \in [Endpoints -> Nat] /\ failed \in [Endpoints -> Nat]
    BY DEF Init
  <2>2. /\ dl \in [Deliverers -> {"idle", "post", "reset", "count", "disable", "throw"} \cup Stages]
        /\ replay \in [Deliverers -> BOOLEAN]
    BY DEF Init
  <2>7. calls \in [Stages -> [Endpoints -> Nat]]
    BY DEF Init
  <2>3. at \in [Deliverers -> Endpoints] /\ try \in [Deliverers -> 1..Attempts]
    BY WebhookConstants DEF Init, SomeEndpoint
  <2>4. log \in Seq({"failure", "alert"})
    BY DEF Init
  <2>8. spiked \in BOOLEAN
    BY DEF Init
  <2>5. events \in 0..MaxEvents /\ faults \in 0..MaxFaults
    BY WebhookConstants DEF Init
  <2>6. QED
    BY <2>1, <2>2, <2>3, <2>4, <2>5, <2>7, <2>8 DEF TypeOK
<1>2. QED
  BY <1>1, TypeStep, PTL DEF Spec

-----------------------------------------------------------------------------
(* What a step does.                                                       *)

\* A step of the dispatch d.
StepOf(d) ==
  \/ \E e \in Endpoints : Retry(d, e) \/ Take(d, e)
  \/ Accepted(d) \/ Again(d) \/ GiveUp(d) \/ Missing(d) \/ Reset(d) \/ Count(d) \/ Disable(d)
  \/ Record(d) \/ Throw(d) \/ DbError(d)

\* Its kinds.  The dispatch begins or tries again; it fails; it is given up without a change; it resets
\* or counts the failures; it disables its endpoint; it throws.
Proceeds(d) ==
  /\ \/ dl[d] = "idle" /\ dl'[d] = "post"
     \/ dl[d] = "post" /\ dl'[d] \in {"post", "reset"} /\ at'[d] = at[d]
  /\ UNCHANGED <<failures, failed, calls, log, spiked, endpoint, faults>>

Fails(d) ==
  /\ dl[d] \in {"post", "reset"} /\ dl'[d] \in {"count", "throw"} /\ at'[d] = at[d]
  /\ failed' = [failed EXCEPT ![at[d]] = failed[at[d]] + 1]
  /\ UNCHANGED <<failures, calls, log, spiked, endpoint>>

Drops(d) ==
  /\ dl[d] \notin {"idle", "post", "reset", "throw"} /\ dl'[d] = "throw" /\ at'[d] = at[d]
  /\ dl[d] = "disable" => endpoint[at[d]] = "gone" \/ faults' > 0
  /\ UNCHANGED <<failures, failed, calls, log, spiked, endpoint>>

Resets(d) ==
  /\ dl[d] = "reset" /\ dl'[d] = "idle" /\ at'[d] = at[d]
  /\ failures' = [failures EXCEPT ![at[d]] = 0]
  /\ UNCHANGED <<failed, calls, log, spiked, endpoint, faults>>

Counts(d) ==
  /\ dl[d] = "count" /\ at'[d] = at[d]
  /\ dl'[d] = IF failures[at[d]] + 1 >= DisableAt THEN "disable" ELSE "rule"
  /\ failures' = [failures EXCEPT ![at[d]] = failures[at[d]] + 1]
  /\ UNCHANGED <<failed, calls, log, spiked, endpoint, faults>>

Disables(d) ==
  /\ dl[d] = "disable" /\ dl'[d] = "rule" /\ at'[d] = at[d]
  /\ endpoint' = [endpoint EXCEPT ![at[d]] = "off"]
  /\ UNCHANGED <<failures, failed, calls, log, spiked, faults>>

Throws(d) ==
  /\ dl[d] = "throw" /\ dl'[d] = "idle" /\ at'[d] = at[d]
  /\ calls' = calls \/ calls' = [calls EXCEPT !["rule"][at[d]] = calls["rule"][at[d]] + 1]
  /\ UNCHANGED <<failures, failed, log, spiked, endpoint, faults>>

Writes(d) ==
  /\ dl[d] \in Stages /\ at'[d] = at[d]
  /\ \E next \in Stages \cup {"done"} :
       /\ Stage(dl[d], at[d], next)
       /\ dl'[d] = IF next = "done" THEN "throw" ELSE next
  /\ UNCHANGED <<failures, failed, calls, faults>>

LEMMA DispatchCases ==
  ASSUME TypeOK, NEW d \in Deliverers, StepOf(d)
  PROVE  /\ at[d] \in Endpoints /\ dl[d] \in Labels /\ dl'[d] \in Labels
         /\ \A g \in Deliverers \ {d} : dl'[g] = dl[g] /\ at'[g] = at[g] /\ replay'[g] = replay[g]
         /\ \/ Proceeds(d) \/ Fails(d) \/ Drops(d) \/ Resets(d) \/ Counts(d) \/ Disables(d)
            \/ Throws(d) \/ Writes(d)
<1>1. /\ dl \in [Deliverers -> Labels] /\ at \in [Deliverers -> Endpoints] /\ replay \in [Deliverers -> BOOLEAN]
      /\ faults \in Nat
  BY WebhookConstants DEF TypeOK, Labels
<1> DEFINE Same == \A g \in Deliverers \ {d} : dl'[g] = dl[g] /\ at'[g] = at[g] /\ replay'[g] = replay[g]
           Kind == \/ Proceeds(d) \/ Fails(d) \/ Drops(d) \/ Resets(d) \/ Counts(d) \/ Disables(d)
                   \/ Throws(d) \/ Writes(d)
<1>2. ASSUME NEW x, GoOn(d, x) PROVE dl'[d] = x /\ at'[d] = at[d] /\ Same
  BY <1>1, <1>2 DEF GoOn
<1>3. Stages \subseteq Labels /\ {"idle", "post", "reset", "count", "disable", "throw"} \subseteq Labels
  BY DEF Labels
<1>4. ASSUME NEW e \in Endpoints, NEW byHand \in BOOLEAN, Begin(d, e, byHand)
      PROVE  dl[d] = "idle" /\ dl'[d] = "post" /\ Same
  BY <1>1, <1>4 DEF Begin
<1> HIDE DEF Same
<1>5. ASSUME NEW e \in Endpoints, Retry(d, e) PROVE Proceeds(d) /\ Same
  BY <1>4, <1>5 DEF Retry, Proceeds, alertVars
<1>6. ASSUME NEW e \in Endpoints, Take(d, e) PROVE Proceeds(d) /\ Same
  BY <1>4, <1>6 DEF Take, Proceeds, alertVars
<1>7. ASSUME Accepted(d) PROVE Proceeds(d) /\ Same
  BY <1>2, <1>3, <1>7 DEF Accepted, Proceeds, alertVars
<1>8. ASSUME Again(d) PROVE Proceeds(d) /\ Same
  BY <1>1, <1>3, <1>8 DEF Again, Proceeds, alertVars, Same
<1>9. ASSUME GiveUp(d) PROVE Fails(d) /\ Same
  BY <1>2, <1>3, <1>9 DEF GiveUp, Fails, alertVars
<1>10. ASSUME Missing(d) PROVE (Fails(d) \/ Drops(d)) /\ Same
  <2>1. CASE dl[d] = "reset"
    BY <1>2, <1>3, <1>10, <2>1 DEF Missing, Fails, alertVars
  <2>2. CASE dl[d] # "reset"
    BY <1>2, <1>3, <1>10, <2>2 DEF Missing, Drops, alertVars
  <2>3. QED
    BY <2>1, <2>2
<1>11. ASSUME Reset(d) PROVE Resets(d) /\ Same
  BY <1>2, <1>3, <1>11 DEF Reset, Resets, alertVars
<1>12. ASSUME Count(d) PROVE Counts(d) /\ Same
  BY <1>2, <1>3, <1>12 DEF Count, Counts, alertVars, Stages
<1>13. ASSUME Disable(d) PROVE Disables(d) /\ Same
  BY <1>2, <1>3, <1>13 DEF Disable, Disables, alertVars, Stages
<1>14. ASSUME Record(d) PROVE Writes(d) /\ Same
  <2>1. PICK next \in Stages \cup {"done"} :
          Stage(dl[d], at[d], next) /\ GoOn(d, IF next = "done" THEN "throw" ELSE next)
    BY <1>14 DEF Record
  <2>2. (IF next = "done" THEN "throw" ELSE next) \in Labels
    BY <1>3
  <2>3. dl'[d] = (IF next = "done" THEN "throw" ELSE next) /\ at'[d] = at[d] /\ Same
    BY <1>2, <2>1, <2>2
  <2>4. QED
    BY <1>3, <1>14, <2>1, <2>2, <2>3 DEF Record, Writes
<1>15. ASSUME Throw(d) PROVE Throws(d) /\ Same
  BY <1>2, <1>3, <1>15 DEF Throw, Throws
<1>16. ASSUME DbError(d) PROVE (Fails(d) \/ Drops(d)) /\ Same
  <2>1. faults' > 0
    BY <1>1, <1>16 DEF DbError, Fault
  <2>2. CASE dl[d] \in {"post", "reset"}
    BY <1>2, <1>3, <1>16, <2>2 DEF DbError, Fails, alertVars
  <2>3. CASE dl[d] \notin {"post", "reset"}
    BY <1>2, <1>3, <1>16, <2>1, <2>3 DEF DbError, Drops, alertVars
  <2>4. QED
    BY <2>2, <2>3
<1>17. at[d] \in Endpoints /\ dl[d] \in Labels
  BY <1>1
<1>18. dl'[d] \in Labels /\ Same /\ Kind
  <2>1. Same /\ Kind
    BY <1>5, <1>6, <1>7, <1>8, <1>9, <1>10, <1>11, <1>12, <1>13, <1>14, <1>15, <1>16 DEF StepOf
  <2>2. dl'[d] \in Labels
    <3>1. \A next \in Stages \cup {"done"} : (IF next = "done" THEN "throw" ELSE next) \in Labels
      BY <1>3
    <3>2. "rule" \in Labels
      BY <1>3 DEF Stages
    <3>3. QED
      BY <1>3, <2>1, <3>1, <3>2 DEF Proceeds, Fails, Drops, Resets, Counts, Disables, Throws, Writes
  <2>3. QED
    BY <2>1, <2>2
<1>19. QED
  BY <1>17, <1>18 DEF Same

\* The steps of Webhooks, those of a dispatch apart.
LEMMA Steps ==
  ASSUME TypeOK, [Next]_vars
  PROVE  \/ \E d \in Deliverers : StepOf(d)
         \/ \E s \in Stages, e \in Endpoints : RecordDetached(s, e) \/ CallFails(s, e)
         \/ Collect \/ Expire \/ Restart
         \/ \E e \in Endpoints : Enqueue(e) \/ Remove(e)
         \/ UNCHANGED vars
BY DEF Next, Deliver, StepOf

\* What a stage of recording a failure does.
LEMMA StageCases ==
  ASSUME NEW s \in Stages, NEW e \in Endpoints, NEW next \in Stages \cup {"done"}, Stage(s, e, next)
  PROVE  \/ /\ s = "rule" /\ log' = Append(log, "failure") /\ UNCHANGED <<endpoint, spiked>>
            /\ next = "done" \/ (next = "recent" /\ Failures(log) + 1 >= Threshold)
         \/ /\ s = "recent" /\ UNCHANGED <<endpoint, log>>
            /\ \/ next = "done" /\ HasAlert(log) /\ (spiked' <=> spiked)
               \/ next = "mitigate" /\ ~HasAlert(log) /\ spiked'
         \/ /\ s = "mitigate" /\ next = "create" /\ UNCHANGED <<log, spiked>>
            /\ endpoint' = [endpoint EXCEPT ![e] = IF @ = "active" THEN "off" ELSE @]
         \/ s = "create" /\ next = "done" /\ log' = Append(log, "alert") /\ UNCHANGED <<endpoint, spiked>>
<1>1. CASE s = "rule" /\ Note(e, next)
  BY <1>1 DEF Note
<1>2. CASE s = "recent" /\ LookBack(e, next)
  BY <1>2 DEF LookBack
<1>3. CASE s = "mitigate" /\ Mitigate(e, next)
  BY <1>3 DEF Mitigate
<1>4. CASE s = "create" /\ CreateAlert(e, next)
  BY <1>4 DEF CreateAlert
<1>5. QED
  BY <1>1, <1>2, <1>3, <1>4 DEF Stage

-----------------------------------------------------------------------------
(* The breaker.                                                            *)

\* Nothing activates an endpoint, and it is turned off by the breaker or by a mitigation.
LEMMA EndpointCases ==
  ASSUME TypeOK, [Next]_vars, NEW e \in Endpoints
  PROVE  /\ endpoint'[e] = "active" => endpoint[e] = "active"
         /\ endpoint'[e] = "off" =>
              \/ endpoint[e] = "off"
              \/ \E d \in Deliverers : dl[d] \in {"disable", "mitigate"} /\ at[d] = e
              \/ calls["mitigate"][e] > 0
<1>1. endpoint \in [Endpoints -> {"active", "off", "gone"}]
  BY DEF TypeOK
<1>2. ASSUME NEW d \in Deliverers, StepOf(d)
      PROVE  /\ endpoint'[e] = "active" => endpoint[e] = "active"
             /\ endpoint'[e] = "off" =>
                  endpoint[e] = "off" \/ (dl[d] \in {"disable", "mitigate"} /\ at[d] = e)
  <2>1. CASE Disables(d)
    BY <1>1, <1>2, <2>1, DispatchCases DEF Disables
  <2>2. CASE Writes(d)
    <3>1. PICK next \in Stages \cup {"done"} : Stage(dl[d], at[d], next)
      BY <2>2 DEF Writes
    <3>2. dl[d] \in Stages /\ at[d] \in Endpoints
      BY <1>2, <2>2, DispatchCases DEF Writes
    <3>3. \/ endpoint' = endpoint
          \/ /\ dl[d] = "mitigate"
             /\ endpoint' = [endpoint EXCEPT ![at[d]] = IF @ = "active" THEN "off" ELSE @]
      BY <3>1, <3>2, StageCases
    <3>4. QED
      BY <1>1, <3>2, <3>3
  <2>3. CASE endpoint' = endpoint
    BY <2>3
  <2>4. QED
    BY <1>2, <2>1, <2>2, <2>3, DispatchCases DEF Proceeds, Fails, Drops, Resets, Counts, Throws
<1>3. ASSUME NEW s \in Stages, NEW g \in Endpoints, RecordDetached(s, g)
      PROVE  /\ endpoint'[e] = "active" => endpoint[e] = "active"
             /\ endpoint'[e] = "off" => endpoint[e] = "off" \/ calls["mitigate"][e] > 0
  <2>1. PICK next \in Stages \cup {"done"} : Stage(s, g, next)
    BY <1>3 DEF RecordDetached
  <2>2. calls[s][g] > 0
    BY <1>3 DEF RecordDetached
  <2>3. \/ endpoint' = endpoint
        \/ s = "mitigate" /\ endpoint' = [endpoint EXCEPT ![g] = IF @ = "active" THEN "off" ELSE @]
    BY <2>1, StageCases
  <2>4. QED
    BY <1>1, <2>2, <2>3
<1>4. ASSUME NEW g \in Endpoints, Remove(g)
      PROVE  /\ endpoint'[e] = "active" => endpoint[e] = "active"
             /\ endpoint'[e] = "off" => endpoint[e] = "off"
  BY <1>1, <1>4 DEF Remove
<1>5. CASE endpoint' = endpoint
  BY <1>5
<1>6. QED
  BY <1>2, <1>3, <1>4, <1>5, Steps DEF CallFails, Collect, Expire, Restart, Enqueue, vars

LEMMA BreakerStep == TypeOK /\ [Next]_vars /\ BreakerTrips => BreakerTrips'
<1> SUFFICES ASSUME TypeOK, [Next]_vars, BreakerTrips, NEW e \in Endpoints,
                    failures'[e] >= DisableAt, endpoint'[e] = "active", ~(faults' > 0)
             PROVE  \E d \in Deliverers : dl'[d] = "disable" /\ at'[d] = e
  BY DEF BreakerTrips
<1>0. /\ endpoint[e] = "active" /\ faults \in Nat /\ failures \in [Endpoints -> Nat]
  BY EndpointCases, WebhookConstants DEF TypeOK
<1>1. ASSUME failures'[e] = failures[e], faults' = faults
      PROVE  \E g \in Deliverers : dl[g] = "disable" /\ at[g] = e
  BY <1>0, <1>1 DEF BreakerTrips
<1>2. ASSUME NEW d \in Deliverers, StepOf(d) PROVE \E g \in Deliverers : dl'[g] = "disable" /\ at'[g] = e
  <2>1. CASE Counts(d) /\ at[d] = e
    BY <1>0, <1>2, <2>1 DEF Counts
  <2>2. CASE Resets(d) /\ at[d] = e
    BY <1>0, <2>2, WebhookConstants DEF Resets
  <2>3. CASE ~(Counts(d) /\ at[d] = e) /\ ~(Resets(d) /\ at[d] = e)
    <3>1. failures'[e] = failures[e]
      BY <1>0, <1>2, <2>3, DispatchCases DEF Proceeds, Fails, Drops, Resets, Counts, Disables, Throws, Writes
    <3>2. faults' = faults
      <4>1. CASE DbError(d)
        BY <1>0, <4>1 DEF DbError, Fault
      <4>2. CASE ~DbError(d)
        BY <1>2, <4>2 DEF StepOf, Retry, Take, Accepted, Again, GiveUp, Missing, Reset, Count, Disable,
                          Record, Throw
      <4>3. QED
        BY <4>1, <4>2
    <3>3. PICK g \in Deliverers : dl[g] = "disable" /\ at[g] = e
      BY <1>1, <3>1, <3>2
    <3>4. CASE g # d
      BY <1>2, <3>3, <3>4, DispatchCases
    <3>5. CASE g = d
      <4>1. Disables(d) \/ Drops(d)
        BY <1>2, <3>3, <3>5, DispatchCases DEF Proceeds, Fails, Resets, Counts, Throws, Writes, Stages
      <4>2. CASE Disables(d)
        BY <1>2, <3>3, <3>5, <4>2, DispatchCases DEF Disables, TypeOK
      <4>3. CASE Drops(d)
        BY <1>0, <3>3, <3>5, <4>3 DEF Drops
      <4>4. QED
        BY <4>1, <4>2, <4>3
    <3>6. QED
      BY <3>4, <3>5
  <2>4. QED
    BY <2>1, <2>2, <2>3
<1>3. CASE UNCHANGED <<failures, dl, at, faults>>
  BY <1>1, <1>3
<1>4. CASE \E s \in Stages, g \in Endpoints : CallFails(s, g)
  BY <1>0, <1>4 DEF CallFails, Fault
<1>5. CASE Restart
  BY <1>0, <1>5 DEF Restart, Fault
<1>6. QED
  BY <1>2, <1>3, <1>4, <1>5, Steps DEF RecordDetached, Collect, Expire, Enqueue, Remove, vars, dlVars

(* The breaker trips: an endpoint whose failures have reached the limit is   *)
(* active only while the dispatch that counted the last of them is about to  *)
(* disable it (dispatchToEndpoint), for any limit and number of dispatches.  *)
THEOREM Breaker == Spec => []BreakerTrips
<1>1. Init => BreakerTrips
  BY WebhookConstants DEF Init, BreakerTrips
<1>2. QED
  BY <1>1, BreakerStep, TypeCorrect, PTL DEF Spec

-----------------------------------------------------------------------------
(* Why an endpoint is disabled.                                            *)

LEMMA FailedGrows ==
  ASSUME TypeOK, [Next]_vars
  PROVE  /\ \A e \in Endpoints : failed'[e] >= failed[e]
         /\ spiked => spiked'
<1>1. failed \in [Endpoints -> Nat]
  BY DEF TypeOK
<1>2. ASSUME NEW d \in Deliverers, StepOf(d)
      PROVE  (\A e \in Endpoints : failed'[e] >= failed[e]) /\ (spiked => spiked')
  <2>1. CASE Fails(d)
    <3>1. at[d] \in Endpoints
      BY <1>2, DispatchCases
    <3>2. QED
      BY <1>1, <2>1, <3>1 DEF Fails
  <2>2. CASE Writes(d)
    <3>1. PICK next \in Stages \cup {"done"} : Stage(dl[d], at[d], next)
      BY <2>2 DEF Writes
    <3>2. dl[d] \in Stages /\ at[d] \in Endpoints
      BY <1>2, <2>2, DispatchCases DEF Writes
    <3>3. spiked => spiked'
      BY <3>1, <3>2, StageCases
    <3>4. QED
      BY <1>1, <2>2, <3>3 DEF Writes
  <2>3. CASE UNCHANGED <<failed, spiked>>
    BY <1>1, <2>3
  <2>4. QED
    BY <1>2, <2>1, <2>2, <2>3, DispatchCases DEF Proceeds, Drops, Resets, Counts, Disables, Throws
<1>3. ASSUME NEW s \in Stages, NEW g \in Endpoints, RecordDetached(s, g)
      PROVE  (\A e \in Endpoints : failed'[e] >= failed[e]) /\ (spiked => spiked')
  <2>1. PICK next \in Stages \cup {"done"} : Stage(s, g, next)
    BY <1>3 DEF RecordDetached
  <2>2. spiked => spiked'
    BY <2>1, StageCases
  <2>3. QED
    BY <1>1, <1>3, <2>2 DEF RecordDetached
<1>4. CASE UNCHANGED <<failed, spiked>>
  BY <1>1, <1>4
<1>5. QED
  BY <1>2, <1>3, <1>4, Steps DEF CallFails, Collect, Expire, Restart, Enqueue, Remove, vars, alertVars

LEMMA BreakStep == TypeOK /\ [Next]_vars /\ BreakInv => BreakInv'
<1> SUFFICES ASSUME TypeOK, [Next]_vars, BreakInv PROVE BreakInv'
  OBVIOUS
<1>0. /\ failures \in [Endpoints -> Nat] /\ failed \in [Endpoints -> Nat]
      /\ dl \in [Deliverers -> Labels] /\ at \in [Deliverers -> Endpoints]
      /\ DisableAt \in Nat \ {0}
  BY WebhookConstants DEF TypeOK, Labels
<1>1. ASSUME NEW e \in Endpoints
      PROVE  /\ Counting(e) \in SUBSET Deliverers /\ Cardinality(Counting(e)) \in Nat
             /\ failures[e] + Cardinality(Counting(e)) <= failed[e]
  BY WebhookConstants, FS_Subset, FS_CardinalityType DEF Counting, BreakInv
<1>2. ASSUME NEW d \in Deliverers, StepOf(d) PROVE BreakInv'
  <2>1. ASSUME NEW e \in Endpoints PROVE failures'[e] + Cardinality(Counting(e)') <= failed'[e]
    <3>1. Counting(e)' \in SUBSET Deliverers /\ Counting(e)' \ {d} = Counting(e) \ {d}
      BY <1>2, DispatchCases DEF Counting
    <3>2. /\ d \in Counting(e) <=> dl[d] = "count" /\ at[d] = e
          /\ d \in Counting(e)' <=> dl'[d] = "count" /\ at'[d] = e
      BY DEF Counting
    <3>3. /\ Cardinality(Counting(e)') \in Nat
          /\ d \notin Counting(e)' => Cardinality(Counting(e)') <= Cardinality(Counting(e))
          /\ d \in Counting(e) /\ d \notin Counting(e)' =>
               Cardinality(Counting(e)') = Cardinality(Counting(e)) - 1
          /\ d \notin Counting(e) /\ d \in Counting(e)' =>
               Cardinality(Counting(e)') = Cardinality(Counting(e)) + 1
      BY <1>1, <3>1, OneMoves
    <3>4. /\ failures[e] \in Nat /\ failed[e] \in Nat /\ at[d] \in Endpoints
          /\ Cardinality(Counting(e)) \in Nat /\ failures[e] + Cardinality(Counting(e)) <= failed[e]
      BY <1>0, <1>1
    <3> DEFINE c == Cardinality(Counting(e))
               k == Cardinality(Counting(e)')
    <3> HIDE DEF c, k
    <3>5. /\ c \in Nat /\ k \in Nat /\ failures[e] + c <= failed[e]
          /\ d \notin Counting(e)' => k <= c
          /\ d \in Counting(e) /\ d \notin Counting(e)' => k = c - 1
          /\ d \notin Counting(e) /\ d \in Counting(e)' => k = c + 1
      BY <3>3, <3>4 DEF c, k
    <3>6. CASE Fails(d)
      <4>1. d \notin Counting(e)
        BY <3>2, <3>6 DEF Fails
      <4>2. failed'[e] = IF at[d] = e THEN failed[e] + 1 ELSE failed[e]
        BY <1>0, <3>4, <3>6 DEF Fails
      <4>3. failures' = failures /\ (d \in Counting(e)' => at[d] = e)
        BY <3>2, <3>6 DEF Fails
      <4>4. failures'[e] + k <= failed'[e]
        BY <3>4, <3>5, <4>1, <4>2, <4>3
      <4>5. QED
        BY <4>4 DEF k
    <3>7. CASE Counts(d)
      <4>1. d \notin Counting(e)' /\ (d \in Counting(e) <=> at[d] = e) /\ failed' = failed
        BY <3>2, <3>7 DEF Counts
      <4>2. failures'[e] = IF at[d] = e THEN failures[e] + 1 ELSE failures[e]
        BY <1>0, <3>4, <3>7 DEF Counts
      <4>3. failures'[e] + k <= failed'[e]
        BY <3>4, <3>5, <4>1, <4>2
      <4>4. QED
        BY <4>3 DEF k
    <3>8. CASE ~Fails(d) /\ ~Counts(d)
      <4>1. d \notin Counting(e)' /\ failed' = failed
        BY <1>2, <3>2, <3>8, DispatchCases, StageCases
        DEF Proceeds, Drops, Resets, Disables, Throws, Writes, Stages
      <4>2. failures'[e] <= failures[e] /\ failures'[e] \in Nat
        BY <1>0, <1>2, <3>4, <3>8, DispatchCases DEF Proceeds, Drops, Resets, Disables, Throws, Writes
      <4>3. failures'[e] + k <= failed'[e]
        BY <3>4, <3>5, <4>1, <4>2
      <4>4. QED
        BY <4>3 DEF k
    <3>9. QED
      BY <3>6, <3>7, <3>8
  <2>2. ASSUME NEW g \in Deliverers, dl'[g] = "disable" PROVE failed'[at'[g]] >= DisableAt
    <3>1. CASE dl[g] = "disable" /\ at'[g] = at[g]
      <4>1. failed[at[g]] >= DisableAt /\ at[g] \in Endpoints
        BY <1>0, <3>1 DEF BreakInv
      <4>2. failed'[at[g]] >= failed[at[g]] /\ failed[at[g]] \in Nat /\ failed'[at[g]] \in Nat
        BY <1>0, <4>1, FailedGrows, TypeStep DEF TypeOK
      <4>3. QED
        BY <1>0, <3>1, <4>1, <4>2
    <3>2. CASE ~(dl[g] = "disable" /\ at'[g] = at[g])
      <4>1. g = d
        BY <1>2, <2>2, <3>2, DispatchCases
      <4>2. Counts(d)
        <5>1. ~Writes(d)
          <6>1. ASSUME Writes(d) PROVE FALSE
            BY <2>2, <4>1, <6>1 DEF Writes, Stages
          <6>2. QED
            BY <6>1
        <5>2. QED
          BY <1>2, <2>2, <3>2, <4>1, <5>1, DispatchCases DEF Proceeds, Fails, Drops, Resets, Disables, Throws
      <4>3. failures[at[d]] + 1 >= DisableAt /\ at'[d] = at[d] /\ failed' = failed /\ d \in Counting(at[d])
        BY <2>2, <4>1, <4>2 DEF Counts, Counting
      <4>4. Cardinality(Counting(at[d])) # 0 /\ at[d] \in Endpoints
        <5>1. at[d] \in Endpoints
          BY <1>0
        <5>2. IsFiniteSet(Counting(at[d]))
          BY WebhookConstants, <1>1, <5>1, FS_Subset
        <5>3. QED
          BY <4>3, <5>1, <5>2, FS_EmptySet
      <4>5. failures[at[d]] \in Nat /\ failed[at[d]] \in Nat /\ Cardinality(Counting(at[d])) \in Nat
        BY <1>0, <1>1, <4>4
      <4>6. failures[at[d]] + Cardinality(Counting(at[d])) <= failed[at[d]]
        BY <1>1, <4>4
      <4>7. QED
        BY <1>0, <4>1, <4>3, <4>4, <4>5, <4>6
    <3>3. QED
      BY <3>1, <3>2
  <2>3. QED
    BY <2>1, <2>2 DEF BreakInv
<1>3. CASE UNCHANGED <<failures, failed, dl, at>>
  BY <1>3 DEF BreakInv, Counting
<1>4. CASE Restart
  <2>1. /\ failures' = failures /\ failed' = failed
        /\ \A d \in Deliverers : dl'[d] = "idle"
    BY <1>4 DEF Restart
  <2>2. \A e \in Endpoints : Counting(e)' = {}
    BY <2>1 DEF Counting
  <2>3. \A e \in Endpoints : Cardinality(Counting(e)') = 0
    BY <2>2, FS_EmptySet
  <2>4. \A e \in Endpoints : failures[e] \in Nat /\ failed[e] \in Nat
    BY <1>0
  <2>5. \A e \in Endpoints : failures'[e] + Cardinality(Counting(e)') <= failed'[e]
    BY <1>1, <2>1, <2>3, <2>4
  <2>6. QED
    BY <2>1, <2>5 DEF BreakInv
<1>5. QED
  BY <1>2, <1>3, <1>4, Steps DEF RecordDetached, CallFails, Collect, Expire, Enqueue, Remove, vars, dlVars

LEMMA SpikeStep == TypeOK /\ [Next]_vars /\ SpikeInv => SpikeInv'
<1> SUFFICES ASSUME TypeOK, [Next]_vars, SpikeInv PROVE SpikeInv'
  OBVIOUS
<1>0. /\ dl \in [Deliverers -> Labels] /\ at \in [Deliverers -> Endpoints]
      /\ calls \in [Stages -> [Endpoints -> Nat]]
      /\ {"rule", "recent", "mitigate", "create"} = Stages
  BY DEF TypeOK, Labels, Stages
<1>g. spiked => spiked'
  BY FailedGrows
<1>1. ASSUME NEW d \in Deliverers, StepOf(d) PROVE SpikeInv'
  <2>1. ASSUME NEW g \in Deliverers, dl'[g] \in {"mitigate", "create"} PROVE spiked'
    <3>1. CASE dl[g] \in {"mitigate", "create"}
      BY <1>g, <3>1 DEF SpikeInv
    <3>2. CASE dl[g] \notin {"mitigate", "create"}
      <4>1. g = d
        BY <1>1, <2>1, <3>2, DispatchCases
      <4>2. Writes(d)
        BY <1>1, <2>1, <4>1, DispatchCases DEF Proceeds, Fails, Drops, Resets, Counts, Disables, Throws
      <4>3. PICK next \in Stages \cup {"done"} :
              /\ Stage(dl[d], at[d], next)
              /\ dl'[d] = IF next = "done" THEN "throw" ELSE next
        BY <4>2 DEF Writes
      <4>4. dl[d] \in Stages /\ at[d] \in Endpoints
        BY <1>1, <4>2, DispatchCases DEF Writes
      <4>5. next \in {"mitigate", "create"}
        BY <2>1, <4>1, <4>3
      <4>6. QED
        BY <3>2, <4>1, <4>3, <4>4, <4>5, StageCases
    <3>3. QED
      BY <3>1, <3>2
  <2>2. ASSUME NEW e \in Endpoints, calls'["mitigate"][e] > 0 \/ calls'["create"][e] > 0 PROVE spiked'
    <3>1. calls'["mitigate"][e] = calls["mitigate"][e] /\ calls'["create"][e] = calls["create"][e]
      <4>1. CASE calls' = calls
        BY <4>1
      <4>2. CASE Throws(d)
        <5>1. at[d] \in Endpoints
          BY <1>0
        <5>2. QED
          BY <1>0, <4>2, <5>1 DEF Throws
      <4>3. QED
        BY <1>1, <4>1, <4>2, DispatchCases DEF Proceeds, Fails, Drops, Resets, Counts, Disables, Writes
    <3>2. QED
      BY <1>g, <2>2, <3>1 DEF SpikeInv
  <2>3. QED
    BY <2>1, <2>2 DEF SpikeInv
<1>2. ASSUME NEW s \in Stages, NEW g \in Endpoints, RecordDetached(s, g) PROVE SpikeInv'
  <2>1. PICK next \in Stages \cup {"done"} :
          /\ Stage(s, g, next)
          /\ calls' = [t \in Stages |-> [calls[t] EXCEPT ![g] =
                        IF t = s THEN @ - 1 ELSE IF t = next THEN @ + 1 ELSE @]]
    BY <1>2 DEF RecordDetached
  <2>2. calls[s][g] > 0 /\ UNCHANGED dlVars
    BY <1>2 DEF RecordDetached
  <2>3. CASE s = "recent" /\ next = "mitigate"
    <3>1. spiked'
      BY <2>1, <2>3, StageCases
    <3>2. QED
      BY <3>1 DEF SpikeInv
  <2>4. CASE s = "mitigate"
    <3>1. spiked'
      BY <1>g, <2>2, <2>4 DEF SpikeInv
    <3>2. QED
      BY <3>1 DEF SpikeInv
  <2>5. CASE next \notin {"mitigate", "create"}
    <3>1. ASSUME NEW e \in Endpoints, NEW t \in {"mitigate", "create"} PROVE calls'[t][e] <= calls[t][e]
      <4>1. calls'[t] = [calls[t] EXCEPT ![g] = IF t = s THEN @ - 1 ELSE @]
        BY <1>0, <2>1, <2>5
      <4>2. calls[t] \in [Endpoints -> Nat] /\ calls[t][e] \in Nat
        BY <1>0
      <4>3. QED
        BY <4>1, <4>2
    <3>2. \A e \in Endpoints : /\ calls["mitigate"][e] \in Nat /\ calls["create"][e] \in Nat
                               /\ calls'["mitigate"][e] \in Nat /\ calls'["create"][e] \in Nat
      <4>1. calls' \in [Stages -> [Endpoints -> Nat]]
        BY TypeStep DEF TypeOK
      <4>2. QED
        BY <1>0, <4>1
    <3>3. \A e \in Endpoints : calls'["mitigate"][e] > 0 \/ calls'["create"][e] > 0 =>
            calls["mitigate"][e] > 0 \/ calls["create"][e] > 0
      <4>1. ASSUME NEW e \in Endpoints
            PROVE  calls'["mitigate"][e] <= calls["mitigate"][e] /\ calls'["create"][e] <= calls["create"][e]
        BY <3>1
      <4>2. QED
        BY <3>2, <4>1
    <3>4. QED
      BY <1>g, <2>2, <3>3 DEF SpikeInv, dlVars
  <2>6. QED
    BY <2>1, <2>3, <2>4, <2>5, StageCases
<1>3. ASSUME NEW s \in Stages, NEW g \in Endpoints, CallFails(s, g) PROVE SpikeInv'
  <2>1. \A e \in Endpoints, t \in Stages : calls'[t][e] > 0 => calls[t][e] > 0
    BY <1>0, <1>3 DEF CallFails
  <2>2. UNCHANGED <<dl, spiked>>
    BY <1>3 DEF CallFails, dlVars
  <2>3. QED
    BY <1>0, <2>1, <2>2 DEF SpikeInv
<1>4. CASE Restart
  BY <1>0, <1>4 DEF Restart, SpikeInv
<1>5. CASE UNCHANGED <<dl, calls, spiked>>
  BY <1>5 DEF SpikeInv
<1>6. QED
  BY <1>1, <1>2, <1>3, <1>4, <1>5, Steps DEF Collect, Expire, Enqueue, Remove, vars, dlVars, alertVars

LEMMA CauseStep == TypeOK /\ [Next]_vars /\ BreakInv /\ SpikeInv /\ DisabledForCause => DisabledForCause'
<1> SUFFICES ASSUME TypeOK, [Next]_vars, BreakInv, SpikeInv, DisabledForCause,
                    NEW e \in Endpoints, endpoint'[e] = "off"
             PROVE  failed'[e] >= DisableAt \/ spiked'
  BY DEF DisabledForCause
<1>1. failed'[e] >= failed[e] /\ (spiked => spiked')
  BY FailedGrows
<1>2. failed[e] \in Nat /\ failed'[e] \in Nat /\ DisableAt \in Nat
  BY WebhookConstants, TypeStep DEF TypeOK
<1>3. failed[e] >= DisableAt \/ spiked
  <2>1. CASE endpoint[e] = "off"
    BY <2>1 DEF DisabledForCause
  <2>2. CASE \E d \in Deliverers : dl[d] \in {"disable", "mitigate"} /\ at[d] = e
    BY <2>2 DEF BreakInv, SpikeInv
  <2>3. CASE calls["mitigate"][e] > 0
    BY <2>3 DEF SpikeInv
  <2>4. QED
    BY <2>1, <2>2, <2>3, EndpointCases
<1>4. QED
  BY <1>1, <1>2, <1>3

(* An endpoint is disabled for its own failed dispatches, as many as the     *)
(* limit says, or because the failures of the organization's webhooks        *)
(* crossed the threshold of the alert (dispatchToEndpoint,                   *)
(* applyAutoMitigation).                                                     *)
THEOREM Cause == Spec => []DisabledForCause
<1>1. Init => BreakInv /\ SpikeInv /\ DisabledForCause
  <2> SUFFICES ASSUME Init PROVE BreakInv /\ SpikeInv /\ DisabledForCause
    OBVIOUS
  <2>1. \A e \in Endpoints : Counting(e) = {}
    BY DEF Init, Counting
  <2>2. \A e \in Endpoints : Cardinality(Counting(e)) = 0
    BY <2>1, FS_EmptySet
  <2>3. BreakInv
    BY <2>2 DEF Init, BreakInv
  <2>4. SpikeInv
    BY DEF Init, SpikeInv, Stages
  <2>5. DisabledForCause
    BY DEF Init, DisabledForCause
  <2>6. QED
    BY <2>3, <2>4, <2>5
<1>2. QED
  BY <1>1, BreakStep, SpikeStep, CauseStep, TypeCorrect, PTL DEF Spec

-----------------------------------------------------------------------------
(* Failures and alerts.                                                    *)

LEMMA EachGrows ==
  ASSUME TypeOK, [Next]_vars
  PROVE  /\ Cardinality(Each(failed)) \in Nat /\ Cardinality(Each(failed)') \in Nat
         /\ Cardinality(Each(failed)') >= Cardinality(Each(failed))
<1>1. failed \in [Endpoints -> Nat] /\ failed' \in [Endpoints -> Nat]
  BY TypeStep DEF TypeOK
<1>2. Each(failed)' = Each(failed')
  BY DEF Each
<1>3. /\ IsFiniteSet(Each(failed)) /\ IsFiniteSet(Each(failed)')
      /\ Cardinality(Each(failed)) \in Nat /\ Cardinality(Each(failed)') \in Nat
  BY <1>1, <1>2, EachFinite
<1>4. ASSUME NEW x \in Each(failed) PROVE x \in Each(failed)'
  <2>1. x[1] \in Endpoints /\ x[2] \in 1..failed[x[1]] /\ x = <<x[1], x[2]>>
    BY <1>1, EachIs
  <2>2. failed'[x[1]] >= failed[x[1]] /\ failed[x[1]] \in Nat /\ failed'[x[1]] \in Nat
    BY <1>1, <2>1, FailedGrows
  <2>3. x[2] \in Nat /\ x[2] \in 1..failed'[x[1]]
    BY <2>1, <2>2
  <2>4. <<x[1], x[2]>> \in Each(failed')
    BY <1>1, <2>1, <2>3, EachIs
  <2>5. QED
    BY <1>2, <2>1, <2>4
<1>5. Each(failed) \in SUBSET (Each(failed)')
  BY <1>4
<1>6. QED
  BY <1>3, <1>5, FS_Subset

\* What is counted, and that the counts are numbers.
LEMMA RecordsCounted ==
  ASSUME TypeOK
  PROVE  /\ Failures(log) \in Nat
         /\ Noting \in SUBSET Deliverers /\ Cardinality(Noting) \in Nat
         /\ Throwing \in SUBSET Deliverers /\ Cardinality(Throwing) \in Nat
         /\ Cardinality(Each(calls["rule"])) \in Nat
<1>1. log \in Seq({"failure", "alert"})
  BY DEF TypeOK
<1>2. Failures(log) \in Nat
  BY <1>1, EntriesCounted DEF Failures
<1>3. calls["rule"] \in [Endpoints -> Nat]
  BY DEF TypeOK, Stages
<1>4. Cardinality(Each(calls["rule"])) \in Nat
  BY <1>3, EachFinite
<1>5. Noting \in SUBSET Deliverers /\ Throwing \in SUBSET Deliverers
  BY DEF Noting, Throwing
<1>6. Cardinality(Noting) \in Nat /\ Cardinality(Throwing) \in Nat
  BY <1>5, WebhookConstants, FS_Subset, FS_CardinalityType
<1>7. QED
  BY <1>2, <1>4, <1>5, <1>6

\* What one step of the dispatch d does to the four counts.
LEMMA DispatchRecords ==
  ASSUME TypeOK, TypeOK', NEW d \in Deliverers, StepOf(d)
  PROVE  \/ /\ Failures(log') = Failures(log) /\ Cardinality(Noting') <= Cardinality(Noting)
            /\ Cardinality(Throwing') = Cardinality(Throwing) /\ calls' = calls /\ failed' = failed
         \/ /\ Failures(log') = Failures(log) /\ Cardinality(Noting') <= Cardinality(Noting) + 1
            /\ Cardinality(Throwing') = Cardinality(Throwing) + 1 /\ calls' = calls
            /\ failed' = [failed EXCEPT ![at[d]] = failed[at[d]] + 1]
         \/ /\ Failures(log') = Failures(log) /\ Cardinality(Noting') = Cardinality(Noting)
            /\ Cardinality(Throwing') = Cardinality(Throwing) - 1 /\ failed' = failed
            /\ \/ calls' = calls
               \/ calls' = [calls EXCEPT !["rule"][at[d]] = calls["rule"][at[d]] + 1]
         \/ /\ Failures(log') = Failures(log) + 1 /\ Cardinality(Noting') = Cardinality(Noting) - 1
            /\ Cardinality(Throwing') = Cardinality(Throwing) /\ calls' = calls /\ failed' = failed
<1>1. /\ Noting \in SUBSET Deliverers /\ Noting' \in SUBSET Deliverers
      /\ Throwing \in SUBSET Deliverers /\ Throwing' \in SUBSET Deliverers
  BY DEF Noting, Throwing
<1>2. Noting' \ {d} = Noting \ {d} /\ Throwing' \ {d} = Throwing \ {d}
  BY DispatchCases DEF Noting, Throwing
<1>3. /\ d \in Noting <=> dl[d] \in {"count", "disable", "rule"}
      /\ d \in Noting' <=> dl'[d] \in {"count", "disable", "rule"}
      /\ d \in Throwing <=> dl[d] \notin {"idle", "post", "reset"}
      /\ d \in Throwing' <=> dl'[d] \notin {"idle", "post", "reset"}
  BY DEF Noting, Throwing
<1> DEFINE n == Cardinality(Noting)
           m == Cardinality(Noting')
           t == Cardinality(Throwing)
           u == Cardinality(Throwing')
<1>4. /\ n \in Nat /\ m \in Nat
      /\ d \notin Noting' => m <= n
      /\ d \in Noting /\ d \notin Noting' => m = n - 1
      /\ d \notin Noting /\ d \in Noting' => m = n + 1
      /\ (d \in Noting <=> d \in Noting') => m = n
  BY <1>1, <1>2, OneMoves
<1>5. /\ t \in Nat /\ u \in Nat
      /\ d \in Throwing /\ d \notin Throwing' => u = t - 1
      /\ d \notin Throwing /\ d \in Throwing' => u = t + 1
      /\ (d \in Throwing <=> d \in Throwing') => u = t
  BY <1>1, <1>2, OneMoves
<1>6. log \in Seq({"failure", "alert"})
  BY DEF TypeOK
<1> DEFINE Fewer == /\ Failures(log') = Failures(log) /\ m <= n /\ u = t /\ calls' = calls /\ failed' = failed
           Failing == /\ Failures(log') = Failures(log) /\ m <= n + 1 /\ u = t + 1 /\ calls' = calls
                      /\ failed' = [failed EXCEPT ![at[d]] = failed[at[d]] + 1]
           Thrown == /\ Failures(log') = Failures(log) /\ m = n /\ u = t - 1 /\ failed' = failed
                     /\ \/ calls' = calls
                        \/ calls' = [calls EXCEPT !["rule"][at[d]] = calls["rule"][at[d]] + 1]
           Noted == /\ Failures(log') = Failures(log) + 1 /\ m = n - 1 /\ u = t /\ calls' = calls
                    /\ failed' = failed
<1>7. SUFFICES Fewer \/ Failing \/ Thrown \/ Noted
  OBVIOUS
<1> HIDE DEF n, m, t, u
<1>8. CASE Proceeds(d)
  <2>1. d \notin Noting /\ d \notin Noting' /\ d \notin Throwing /\ d \notin Throwing'
    BY <1>3, <1>8 DEF Proceeds
  <2>2. m = n /\ u = t
    BY <1>4, <1>5, <2>1
  <2>3. Fewer
    BY <1>4, <1>8, <2>2 DEF Proceeds
  <2>4. QED
    BY <2>3
<1>9. CASE Fails(d)
  <2>1. d \notin Noting /\ d \notin Throwing /\ d \in Throwing'
    BY <1>3, <1>9 DEF Fails
  <2>2. m <= n + 1 /\ u = t + 1
    BY <1>4, <1>5, <2>1
  <2>3. Failing
    BY <1>9, <2>2 DEF Fails
  <2>4. QED
    BY <2>3
<1>10. CASE Drops(d)
  <2>1. d \notin Noting' /\ d \in Throwing /\ d \in Throwing'
    BY <1>3, <1>10 DEF Drops
  <2>2. m <= n /\ u = t
    BY <1>4, <1>5, <2>1
  <2>3. Fewer
    BY <1>10, <2>2 DEF Drops
  <2>4. QED
    BY <2>3
<1>11. CASE Resets(d)
  <2>1. d \notin Noting /\ d \notin Noting' /\ d \notin Throwing /\ d \notin Throwing'
    BY <1>3, <1>11 DEF Resets
  <2>2. m = n /\ u = t
    BY <1>4, <1>5, <2>1
  <2>3. Fewer
    BY <1>4, <1>11, <2>2 DEF Resets
  <2>4. QED
    BY <2>3
<1>12. CASE Counts(d) \/ Disables(d)
  <2>1. d \in Noting /\ d \in Noting' /\ d \in Throwing /\ d \in Throwing'
    BY <1>3, <1>12 DEF Counts, Disables
  <2>2. m = n /\ u = t
    BY <1>4, <1>5, <2>1
  <2>3. Fewer
    BY <1>4, <1>12, <2>2 DEF Counts, Disables
  <2>4. QED
    BY <2>3
<1>13. CASE Throws(d)
  <2>1. d \notin Noting /\ d \notin Noting' /\ d \in Throwing /\ d \notin Throwing'
    BY <1>3, <1>13 DEF Throws
  <2>2. m = n /\ u = t - 1
    BY <1>4, <1>5, <2>1
  <2>3. Thrown
    BY <1>13, <2>2 DEF Throws
  <2>4. QED
    BY <2>3
<1>14. CASE Writes(d)
  <2>1. PICK next \in Stages \cup {"done"} :
          /\ Stage(dl[d], at[d], next)
          /\ dl'[d] = IF next = "done" THEN "throw" ELSE next
    BY <1>14 DEF Writes
  <2>2. dl[d] \in Stages /\ at[d] \in Endpoints /\ calls' = calls /\ failed' = failed
    BY <1>14, DispatchCases DEF Writes
  <2>3. d \in Throwing /\ d \in Throwing'
    BY <1>3, <2>1, <2>2 DEF Stages
  <2>4. u = t
    BY <1>5, <2>3
  <2>5. CASE dl[d] = "rule"
    <3>1. log' = Append(log, "failure") /\ next \in {"done", "recent"}
      BY <2>1, <2>2, <2>5, StageCases
    <3>2. Failures(log') = Failures(log) + 1
      BY <1>6, <3>1, EntriesAppend DEF Failures
    <3>3. d \in Noting /\ d \notin Noting'
      BY <1>3, <2>1, <2>5, <3>1
    <3>4. m = n - 1
      BY <1>4, <3>3
    <3>5. Noted
      BY <2>2, <2>4, <3>2, <3>4
    <3>6. QED
      BY <3>5
  <2>6. CASE dl[d] # "rule"
    <3>1. (log' = log \/ log' = Append(log, "alert")) /\ next # "rule"
      BY <2>1, <2>2, <2>6, StageCases
    <3>2. Failures(log') = Failures(log)
      BY <1>6, <3>1, EntriesAppend DEF Failures
    <3>3. d \notin Noting'
      BY <1>3, <2>1, <3>1 DEF Stages
    <3>4. m <= n
      BY <1>4, <3>3
    <3>5. Fewer
      BY <2>2, <2>4, <3>2, <3>4
    <3>6. QED
      BY <3>5
  <2>7. QED
    BY <2>5, <2>6
<1>15. QED
  BY <1>8, <1>9, <1>10, <1>11, <1>12, <1>13, <1>14, DispatchCases

\* What a step of a detached call does to them.
LEMMA DetachedRecords ==
  ASSUME TypeOK, TypeOK', NEW s \in Stages, NEW e \in Endpoints, RecordDetached(s, e)
  PROVE  /\ Noting' = Noting /\ Throwing' = Throwing /\ failed' = failed
         /\ \/ Failures(log') = Failures(log) /\ calls'["rule"] = calls["rule"]
            \/ /\ Failures(log') = Failures(log) + 1
               /\ calls["rule"] = [calls'["rule"] EXCEPT ![e] = calls'["rule"][e] + 1]
<1>1. PICK next \in Stages \cup {"done"} :
        /\ Stage(s, e, next)
        /\ calls' = [t \in Stages |-> [calls[t] EXCEPT ![e] =
                      IF t = s THEN @ - 1 ELSE IF t = next THEN @ + 1 ELSE @]]
  BY DEF RecordDetached
<1>2. calls[s][e] > 0 /\ UNCHANGED dlVars /\ failed' = failed
  BY DEF RecordDetached
<1>3. Noting' = Noting /\ Throwing' = Throwing
  BY <1>2 DEF Noting, Throwing, dlVars
<1>4. /\ log \in Seq({"failure", "alert"}) /\ "rule" \in Stages
      /\ calls["rule"] \in [Endpoints -> Nat]
  BY DEF TypeOK, Stages
<1>5. calls'["rule"] = [calls["rule"] EXCEPT ![e] =
                          IF "rule" = s THEN @ - 1 ELSE IF "rule" = next THEN @ + 1 ELSE @]
  BY <1>1, <1>4
<1>6. CASE s = "rule"
  <2>1. log' = Append(log, "failure")
    BY <1>1, <1>6, StageCases
  <2>2. Failures(log') = Failures(log) + 1
    BY <1>4, <2>1, EntriesAppend DEF Failures
  <2>3. calls'["rule"] = [calls["rule"] EXCEPT ![e] = calls["rule"][e] - 1]
    BY <1>5, <1>6
  <2>4. calls["rule"] = [calls'["rule"] EXCEPT ![e] = calls'["rule"][e] + 1]
    BY <1>4, <2>3
  <2>5. QED
    BY <1>2, <1>3, <2>2, <2>4
<1>7. CASE s # "rule"
  <2>1. (log' = log \/ log' = Append(log, "alert")) /\ next # "rule"
    BY <1>1, <1>7, StageCases
  <2>2. Failures(log') = Failures(log)
    BY <1>4, <2>1, EntriesAppend DEF Failures
  <2>3. calls'["rule"] = calls["rule"]
    BY <1>4, <1>5, <1>7, <2>1
  <2>4. QED
    BY <1>2, <1>3, <2>2, <2>3
<1>8. QED
  BY <1>6, <1>7

LEMMA RecordStep == TypeOK /\ [Next]_vars /\ RecordInv => RecordInv'
<1> SUFFICES ASSUME TypeOK, [Next]_vars, RecordInv PROVE RecordInv'
  OBVIOUS
<1>0. TypeOK'
  BY TypeStep
<1> DEFINE n == Cardinality(Noting)
           m == Cardinality(Noting')
           t == Cardinality(Throwing)
           u == Cardinality(Throwing')
           c == Cardinality(Each(calls["rule"]))
           k == Cardinality(Each(calls'["rule"]))
           f == Cardinality(Each(failed))
           g == Cardinality(Each(failed'))
<1>1. /\ Failures(log) \in Nat /\ n \in Nat /\ t \in Nat /\ c \in Nat /\ f \in Nat
      /\ Failures(log) + n + t + c <= 2 * f
  BY RecordsCounted, EachGrows DEF RecordInv, Records
<1>2. /\ Noting' = {d \in Deliverers : dl'[d] \in {"count", "disable", "rule"}}
      /\ Throwing' = {d \in Deliverers : dl'[d] \notin {"idle", "post", "reset"}}
  BY DEF Noting, Throwing
<1>3. /\ Failures(log') \in Nat /\ m \in Nat /\ u \in Nat /\ k \in Nat /\ g \in Nat
  <2>1. log' \in Seq({"failure", "alert"})
    BY <1>0 DEF TypeOK
  <2>2. calls'["rule"] \in [Endpoints -> Nat] /\ failed' \in [Endpoints -> Nat]
    BY <1>0 DEF TypeOK, Stages
  <2>3. m \in Nat /\ u \in Nat
    BY <1>2, WebhookConstants, FS_Subset, FS_CardinalityType
  <2>4. Failures(log') \in Nat
    BY <2>1, EntriesCounted DEF Failures
  <2>5. k \in Nat /\ g \in Nat
    BY <2>2, EachFinite
  <2>6. QED
    BY <2>3, <2>4, <2>5
<1>4. SUFFICES Failures(log') + m + u + k <= 2 * g
  BY DEF RecordInv, Records, Failures, Each
<1> HIDE DEF n, m, t, u, c, k, f, g
<1>5. /\ calls["rule"] \in [Endpoints -> Nat] /\ failed \in [Endpoints -> Nat]
      /\ calls \in [Stages -> [Endpoints -> Nat]]
  BY DEF TypeOK, Stages
<1>6. calls'["rule"] \in [Endpoints -> Nat] /\ failed' \in [Endpoints -> Nat]
  BY <1>0 DEF TypeOK, Stages
<1>7. ASSUME NEW d \in Deliverers, StepOf(d) PROVE Failures(log') + m + u + k <= 2 * g
  <2>0. at[d] \in Endpoints /\ (calls' = calls => k = c) /\ (failed' = failed => g = f)
    BY <1>7, DispatchCases DEF k, c, f, g
  <2>1. CASE Failures(log') = Failures(log) /\ m <= n /\ u = t /\ calls' = calls /\ failed' = failed
    BY <1>1, <1>3, <2>0, <2>1
  <2>2. CASE /\ Failures(log') = Failures(log) /\ m <= n + 1 /\ u = t + 1 /\ calls' = calls
             /\ failed' = [failed EXCEPT ![at[d]] = failed[at[d]] + 1]
    <3>1. g = f + 1
      BY <1>5, <1>6, <2>0, <2>2, EachMore DEF f, g
    <3>2. QED
      BY <1>1, <1>3, <2>0, <2>2, <3>1
  <2>3. CASE /\ Failures(log') = Failures(log) /\ m = n /\ u = t - 1 /\ failed' = failed
             /\ \/ calls' = calls
                \/ calls' = [calls EXCEPT !["rule"][at[d]] = calls["rule"][at[d]] + 1]
    <3>1. k = c \/ k = c + 1
      <4>1. CASE calls' = calls
        BY <2>0, <4>1
      <4>2. CASE calls' = [calls EXCEPT !["rule"][at[d]] = calls["rule"][at[d]] + 1]
        <5>1. calls'["rule"] = [calls["rule"] EXCEPT ![at[d]] = calls["rule"][at[d]] + 1]
          BY <1>5, <4>2 DEF Stages
        <5>2. QED
          BY <1>5, <1>6, <2>0, <5>1, EachMore DEF k, c
      <4>3. QED
        BY <2>3, <4>1, <4>2
    <3>2. QED
      BY <1>1, <1>3, <2>0, <2>3, <3>1
  <2>4. CASE Failures(log') = Failures(log) + 1 /\ m = n - 1 /\ u = t /\ calls' = calls /\ failed' = failed
    BY <1>1, <1>3, <2>0, <2>4
  <2>5. QED
    BY <1>0, <1>7, <2>1, <2>2, <2>3, <2>4, DispatchRecords DEF m, n, t, u
<1>8. ASSUME NEW s \in Stages, NEW e \in Endpoints, RecordDetached(s, e)
      PROVE  Failures(log') + m + u + k <= 2 * g
  <2>1. m = n /\ u = t /\ g = f
    BY <1>0, <1>8, DetachedRecords DEF m, n, t, u, f, g
  <2>2. CASE Failures(log') = Failures(log) /\ calls'["rule"] = calls["rule"]
    <3>1. k = c
      BY <2>2 DEF k, c
    <3>2. QED
      BY <1>1, <1>3, <2>1, <2>2, <3>1
  <2>3. CASE /\ Failures(log') = Failures(log) + 1
             /\ calls["rule"] = [calls'["rule"] EXCEPT ![e] = calls'["rule"][e] + 1]
    <3>1. c = k + 1
      BY <1>5, <1>6, <2>3, EachMore DEF k, c
    <3>2. QED
      BY <1>1, <1>3, <2>1, <2>3, <3>1
  <2>4. QED
    BY <1>0, <1>8, <2>2, <2>3, DetachedRecords
<1>9. ASSUME NEW s \in Stages, NEW e \in Endpoints, CallFails(s, e)
      PROVE  Failures(log') + m + u + k <= 2 * g
  <2>1. m = n /\ u = t /\ g = f /\ Failures(log') = Failures(log)
    BY <1>9 DEF CallFails, dlVars, Noting, Throwing, m, n, t, u, f, g
  <2>2. k <= c
    <3>1. CASE s = "rule"
      <4>1. calls["rule"] = [calls'["rule"] EXCEPT ![e] = calls'["rule"][e] + 1]
        <5>1. calls' = [calls EXCEPT !["rule"][e] = calls["rule"][e] - 1]
          BY <1>9, <3>1 DEF CallFails
        <5>2. calls'["rule"] = [calls["rule"] EXCEPT ![e] = calls["rule"][e] - 1]
          BY <1>5, <5>1 DEF Stages
        <5>3. QED
          BY <1>5, <5>2
      <4>2. c = k + 1
        BY <1>5, <1>6, <4>1, EachMore DEF k, c
      <4>3. QED
        BY <1>3, <4>2
    <3>2. CASE s # "rule"
      <4>1. calls'["rule"] = calls["rule"]
        BY <1>5, <1>9, <3>2 DEF CallFails, Stages
      <4>2. QED
        BY <1>1, <4>1 DEF k, c
    <3>3. QED
      BY <3>1, <3>2
  <2>3. QED
    BY <1>1, <1>3, <2>1, <2>2
<1>10. CASE Expire
  <2>1. m = n /\ u = t /\ g = f /\ k = c
    BY <1>10 DEF Expire, dlVars, Noting, Throwing, m, n, t, u, f, g, k, c
  <2>2. Failures(log') <= Failures(log)
    BY <1>10, EntriesTail DEF Expire, Failures, TypeOK
  <2>3. QED
    BY <1>1, <1>3, <2>1, <2>2
<1>11. CASE Restart
  <2>1. g = f
    BY <1>11 DEF Restart, f, g
  <2>2. Failures(log') = 0
    <3>1. Stored(log) \in Nat
      BY EntriesCounted DEF TypeOK, Stored
    <3>2. log' = [i \in 1..Stored(log) |-> "alert"]
      BY <1>11 DEF Restart
    <3>3. QED
      BY <3>1, <3>2, AlertsKept
  <2>3. m = 0 /\ u = 0
    <3>1. Noting' = {} /\ Throwing' = {}
      BY <1>2, <1>11 DEF Restart
    <3>2. QED
      BY <3>1, FS_EmptySet DEF m, u
  <2>4. k = 0
    <3>1. \A e \in Endpoints : calls'["rule"][e] = 0
      BY <1>11 DEF Restart, Stages
    <3>2. QED
      BY <1>6, <3>1, EachNone DEF k
  <2>5. QED
    BY <1>1, <2>1, <2>2, <2>3, <2>4
<1>12. CASE UNCHANGED <<dl, calls, log, failed>>
  <2>1. m = n /\ u = t /\ g = f /\ k = c /\ Failures(log') = Failures(log)
    BY <1>12 DEF Noting, Throwing, m, n, t, u, f, g, k, c
  <2>2. QED
    BY <1>1, <2>1
<1>13. QED
  BY <1>7, <1>8, <1>9, <1>10, <1>11, <1>12, Steps DEF Collect, Enqueue, Remove, vars, dlVars, alertVars

LEMMA CrossedStep == TypeOK /\ [Next]_vars /\ RecordInv /\ CrossedInv => CrossedInv'
<1> SUFFICES ASSUME TypeOK, [Next]_vars, RecordInv, CrossedInv PROVE CrossedInv'
  OBVIOUS
<1> DEFINE f == Cardinality(Each(failed))
           g == Cardinality(Each(failed)')
<1>1. f \in Nat /\ g \in Nat /\ g >= f /\ Threshold \in Nat
  BY EachGrows, WebhookConstants
<1>2. CASE 2 * f >= Threshold
  <2>1. 2 * g >= Threshold
    <3> HIDE DEF f, g
    <3>1. QED
      BY <1>1, <1>2
  <2>2. QED
    BY <2>1 DEF CrossedInv, Each
<1>3. CASE ~(2 * f >= Threshold)
  <2>1. ~spiked /\ (\A d \in Deliverers : dl[d] # "recent") /\ \A e \in Endpoints : calls["recent"][e] = 0
    BY <1>3 DEF CrossedInv
  <2>2. /\ Failures(log) \in Nat /\ Cardinality(Noting) \in Nat /\ Cardinality(Throwing) \in Nat
        /\ Cardinality(Each(calls["rule"])) \in Nat
        /\ Failures(log) + Cardinality(Noting) + Cardinality(Throwing)
           + Cardinality(Each(calls["rule"])) <= 2 * f
    BY RecordsCounted DEF RecordInv, Records
  <2>3. /\ dl \in [Deliverers -> Labels] /\ at \in [Deliverers -> Endpoints]
        /\ "rule" \in Stages /\ "recent" \in Stages
        /\ calls \in [Stages -> [Endpoints -> Nat]]
    BY DEF TypeOK, Labels, Stages
  <2>4. ASSUME Cardinality(Noting) # 0 \/ Cardinality(Each(calls["rule"])) # 0
        PROVE  ~(Failures(log) + 1 >= Threshold)
    <3> HIDE DEF f
    <3>1. QED
      BY <1>1, <1>3, <2>2, <2>4
  <2>5. ASSUME NEW d \in Deliverers, StepOf(d)
        PROVE  /\ ~spiked' /\ \A h \in Deliverers : dl'[h] # "recent"
               /\ \A e \in Endpoints : calls'["recent"][e] = 0
    <3>1. ~spiked' /\ dl'[d] # "recent"
      <4>1. CASE Writes(d)
        <5>1. PICK next \in Stages \cup {"done"} :
                /\ Stage(dl[d], at[d], next)
                /\ dl'[d] = IF next = "done" THEN "throw" ELSE next
          BY <4>1 DEF Writes
        <5>2. dl[d] \in Stages /\ at[d] \in Endpoints
          BY <2>3, <4>1 DEF Writes
        <5>3. CASE dl[d] = "rule"
          <6>1. Cardinality(Noting) # 0
            <7>1. d \in Noting /\ IsFiniteSet(Noting)
              BY <5>3, RecordsCounted, WebhookConstants, FS_Subset DEF Noting
            <7>2. QED
              BY <7>1, FS_EmptySet
          <6>2. next = "done" /\ spiked' = spiked
            BY <2>4, <5>1, <5>2, <5>3, <6>1, StageCases
          <6>3. QED
            BY <2>1, <5>1, <6>2
        <5>4. CASE dl[d] # "rule"
          <6>1. spiked' = spiked /\ next # "recent"
            BY <2>1, <5>1, <5>2, <5>4, StageCases
          <6>2. QED
            BY <2>1, <5>1, <6>1
        <5>5. QED
          BY <5>3, <5>4
      <4>2. CASE ~Writes(d)
        BY <2>1, <2>5, <4>2, DispatchCases DEF Proceeds, Fails, Drops, Resets, Counts, Disables, Throws
      <4>3. QED
        BY <4>1, <4>2
    <3>2. \A h \in Deliverers : dl'[h] # "recent"
      BY <2>1, <2>5, <3>1, DispatchCases
    <3>3. \A e \in Endpoints : calls'["recent"][e] = calls["recent"][e]
      <4>1. CASE calls' = calls
        BY <4>1
      <4>2. CASE Throws(d)
        <5>1. at[d] \in Endpoints
          BY <2>3
        <5>2. QED
          BY <2>3, <4>2, <5>1 DEF Throws
      <4>3. QED
        BY <2>5, <4>1, <4>2, DispatchCases DEF Proceeds, Fails, Drops, Resets, Counts, Disables, Writes
    <3>4. QED
      BY <2>1, <3>1, <3>2, <3>3
  <2>6. ASSUME NEW s \in Stages, NEW e \in Endpoints, RecordDetached(s, e)
        PROVE  /\ ~spiked' /\ \A h \in Deliverers : dl'[h] # "recent"
               /\ \A x \in Endpoints : calls'["recent"][x] = 0
    <3>1. PICK next \in Stages \cup {"done"} :
            /\ Stage(s, e, next)
            /\ calls' = [t \in Stages |-> [calls[t] EXCEPT ![e] =
                          IF t = s THEN @ - 1 ELSE IF t = next THEN @ + 1 ELSE @]]
      BY <2>6 DEF RecordDetached
    <3>2. calls[s][e] > 0 /\ dl' = dl
      BY <2>6 DEF RecordDetached, dlVars
    <3>3. s # "recent"
      BY <2>1, <3>2
    <3>4. next # "recent" /\ spiked' = spiked
      <4>1. CASE s = "rule"
        <5>1. Cardinality(Each(calls["rule"])) # 0
          <6>1. calls["rule"] \in [Endpoints -> Nat] /\ 1 \in 1..calls["rule"][e]
            BY <2>3, <3>2, <4>1
          <6>2. <<e, 1>> \in Each(calls["rule"]) /\ IsFiniteSet(Each(calls["rule"]))
            BY <6>1, EachIs, EachFinite
          <6>3. QED
            BY <6>2, FS_EmptySet
        <5>2. QED
          BY <2>4, <3>1, <4>1, <5>1, StageCases
      <4>2. CASE s # "rule"
        BY <3>1, <3>3, <4>2, StageCases
      <4>3. QED
        BY <4>1, <4>2
    <3>5. calls'["recent"] = [calls["recent"] EXCEPT ![e] =
                               IF "recent" = s THEN @ - 1 ELSE IF "recent" = next THEN @ + 1 ELSE @]
      BY <2>3, <3>1
    <3>6. \A x \in Endpoints : calls'["recent"][x] = calls["recent"][x]
      BY <2>3, <3>3, <3>4, <3>5
    <3>7. QED
      BY <2>1, <3>2, <3>4, <3>6
  <2>7. ASSUME NEW s \in Stages, NEW e \in Endpoints, CallFails(s, e)
        PROVE  /\ ~spiked' /\ \A h \in Deliverers : dl'[h] # "recent"
               /\ \A x \in Endpoints : calls'["recent"][x] = 0
    <3>1. s # "recent"
      BY <2>1, <2>7 DEF CallFails
    <3>2. calls'["recent"] = calls["recent"]
      BY <2>3, <2>7, <3>1 DEF CallFails
    <3>3. QED
      BY <2>1, <2>7, <3>2 DEF CallFails, dlVars
  <2>8. CASE Restart
    <3>1. ~spiked' /\ (\A h \in Deliverers : dl'[h] # "recent") /\ \A x \in Endpoints : calls'["recent"][x] = 0
      BY <2>1, <2>3, <2>8 DEF Restart
    <3>2. QED
      BY <3>1 DEF CrossedInv
  <2>9. CASE UNCHANGED <<dl, calls, spiked>>
    BY <2>1, <2>9 DEF CrossedInv
  <2>10. QED
    BY <2>5, <2>6, <2>7, <2>8, <2>9, Steps
    DEF CrossedInv, Collect, Expire, Enqueue, Remove, vars, dlVars, alertVars
<1>4. QED
  BY <1>2, <1>3

(* A failed dispatch is counted at most twice, by the service and by the     *)
(* handler of the failed job, so an alert takes at least half as many failed *)
(* dispatches as its threshold, for any number of endpoints, dispatches and  *)
(* restarts (recordFailure).                                                 *)
THEOREM Alerts == Spec => []AlertMeansSpike
<1>1. Init => RecordInv /\ CrossedInv
  <2> SUFFICES ASSUME Init PROVE RecordInv /\ CrossedInv
    OBVIOUS
  <2>1. log = <<>> /\ failed \in [Endpoints -> Nat] /\ calls["rule"] \in [Endpoints -> Nat]
    BY DEF Init, Stages
  <2>2. \A e \in Endpoints : failed[e] = 0 /\ calls["rule"][e] = 0
    BY DEF Init, Stages
  <2>3. Cardinality(Each(failed)) = 0 /\ Cardinality(Each(calls["rule"])) = 0
    BY <2>1, <2>2, EachNone
  <2>4. Failures(log) = 0
    <3>1. {i \in 1..Len(log) : log[i] = "failure"} = {}
      BY <2>1
    <3>2. QED
      BY <3>1, FS_EmptySet DEF Failures, Entries
  <2>5. Noting = {} /\ Throwing = {}
    BY DEF Init, Noting, Throwing
  <2>6. Cardinality(Noting) = 0 /\ Cardinality(Throwing) = 0
    BY <2>5, FS_EmptySet
  <2>7. RecordInv
    BY <2>3, <2>4, <2>6 DEF RecordInv, Records
  <2>8. CrossedInv
    BY DEF Init, CrossedInv, Stages
  <2>9. QED
    BY <2>7, <2>8
<1>2. CrossedInv => AlertMeansSpike
  BY DEF CrossedInv, AlertMeansSpike
<1>3. QED
  BY <1>1, <1>2, RecordStep, CrossedStep, TypeCorrect, PTL DEF Spec

\* While an alert event is in the window, no call goes past looking for one.
LEMMA SettledStep ==
  ASSUME TypeOK, [Next]_vars, Settled
  PROVE  Stored(log') <= Stored(log) /\ (Settled' \/ ~HasAlert(log'))
<1>0. /\ dl \in [Deliverers -> Labels] /\ at \in [Deliverers -> Endpoints]
      /\ calls \in [Stages -> [Endpoints -> Nat]]
      /\ {"rule", "recent", "mitigate", "create"} = Stages
  BY DEF TypeOK, Labels, Stages
<1>1. log \in Seq({"failure", "alert"})
  BY DEF TypeOK
<1>2. Stored(log) \in Nat
  BY <1>1, EntriesCounted DEF Stored
<1>3. /\ HasAlert(log) /\ \A d \in Deliverers : dl[d] \notin {"mitigate", "create"}
      /\ \A e \in Endpoints : calls["mitigate"][e] = 0 /\ calls["create"][e] = 0
  BY DEF Settled
<1>4. ASSUME NEW s \in Stages, NEW e \in Endpoints, NEW next \in Stages \cup {"done"}, Stage(s, e, next),
             s \notin {"mitigate", "create"}
      PROVE  Stored(log') <= Stored(log) /\ next \notin {"mitigate", "create"}
  <2>1. (log' = log \/ log' = Append(log, "failure")) /\ next \notin {"mitigate", "create"}
    BY <1>3, <1>4, StageCases
  <2>2. Stored(log') <= Stored(log)
    <3>1. Stored(Append(log, "failure")) = Stored(log)
      BY <1>1, EntriesAppend DEF Stored
    <3>2. Stored(log') = Stored(log)
      BY <2>1, <3>1
    <3>3. QED
      BY <1>2, <3>2
  <2>3. QED
    BY <2>1, <2>2
<1> DEFINE Rest == /\ \A d \in Deliverers : dl'[d] \notin {"mitigate", "create"}
                   /\ \A e \in Endpoints : calls'["mitigate"][e] = 0 /\ calls'["create"][e] = 0
<1>5. SUFFICES Stored(log') <= Stored(log) /\ Rest
  BY DEF Settled
<1>6. ASSUME NEW d \in Deliverers, StepOf(d) PROVE Stored(log') <= Stored(log) /\ Rest
  <2>1. \A e \in Endpoints : calls'["mitigate"][e] = 0 /\ calls'["create"][e] = 0
    <3>1. CASE calls' = calls
      BY <1>3, <3>1
    <3>2. CASE Throws(d)
      <4>1. at[d] \in Endpoints
        BY <1>0
      <4>2. \A e \in Endpoints : /\ calls'["mitigate"][e] = calls["mitigate"][e]
                                 /\ calls'["create"][e] = calls["create"][e]
        BY <1>0, <3>2, <4>1 DEF Throws
      <4>3. QED
        BY <1>3, <4>2
    <3>3. QED
      BY <1>6, <3>1, <3>2, DispatchCases DEF Proceeds, Fails, Drops, Resets, Counts, Disables, Writes
  <2>2. Stored(log') <= Stored(log) /\ dl'[d] \notin {"mitigate", "create"}
    <3>1. CASE Writes(d)
      <4>1. PICK next \in Stages \cup {"done"} :
              /\ Stage(dl[d], at[d], next)
              /\ dl'[d] = IF next = "done" THEN "throw" ELSE next
        BY <3>1 DEF Writes
      <4>2. dl[d] \in Stages /\ at[d] \in Endpoints /\ dl[d] \notin {"mitigate", "create"}
        BY <1>0, <1>3, <3>1 DEF Writes
      <4>3. Stored(log') <= Stored(log) /\ next \notin {"mitigate", "create"}
        BY <1>4, <4>1, <4>2
      <4>4. QED
        BY <4>1, <4>3
    <3>2. CASE ~Writes(d)
      <4>1. log' = log /\ dl'[d] \notin {"mitigate", "create"}
        BY <1>6, <3>2, DispatchCases DEF Proceeds, Fails, Drops, Resets, Counts, Disables, Throws
      <4>2. QED
        BY <1>2, <4>1
    <3>3. QED
      BY <3>1, <3>2
  <2>3. \A h \in Deliverers : dl'[h] \notin {"mitigate", "create"}
    BY <1>3, <1>6, <2>2, DispatchCases
  <2>4. QED
    BY <2>1, <2>2, <2>3
<1>7. ASSUME NEW s \in Stages, NEW e \in Endpoints, RecordDetached(s, e)
      PROVE  Stored(log') <= Stored(log) /\ Rest
  <2>1. PICK next \in Stages \cup {"done"} :
          /\ Stage(s, e, next)
          /\ calls' = [t \in Stages |-> [calls[t] EXCEPT ![e] =
                        IF t = s THEN @ - 1 ELSE IF t = next THEN @ + 1 ELSE @]]
    BY <1>7 DEF RecordDetached
  <2>2. calls[s][e] > 0 /\ dl' = dl
    BY <1>7 DEF RecordDetached, dlVars
  <2>3. s \notin {"mitigate", "create"}
    BY <1>3, <2>2
  <2>4. Stored(log') <= Stored(log) /\ next \notin {"mitigate", "create"}
    BY <1>4, <2>1, <2>3
  <2>5. ASSUME NEW t \in {"mitigate", "create"}, NEW x \in Endpoints PROVE calls'[t][x] = 0
    <3>1. calls'[t] = [calls[t] EXCEPT ![e] = @]
      BY <1>0, <2>1, <2>3, <2>4
    <3>2. calls'[t][x] = calls[t][x]
      BY <1>0, <3>1
    <3>3. QED
      BY <1>3, <3>2
  <2>6. \A x \in Endpoints : calls'["mitigate"][x] = 0 /\ calls'["create"][x] = 0
    BY <2>5
  <2>7. QED
    BY <1>3, <2>2, <2>4, <2>6
<1>8. ASSUME NEW s \in Stages, NEW e \in Endpoints, CallFails(s, e) PROVE Stored(log') <= Stored(log) /\ Rest
  <2>1. calls[s][e] > 0 /\ calls' = [calls EXCEPT ![s][e] = calls[s][e] - 1]
    BY <1>8 DEF CallFails
  <2>2. s \notin {"mitigate", "create"}
    BY <1>3, <2>1
  <2>3. calls'["mitigate"] = calls["mitigate"] /\ calls'["create"] = calls["create"]
    BY <1>0, <2>1, <2>2
  <2>4. log' = log /\ dl' = dl
    BY <1>8 DEF CallFails, dlVars
  <2>5. QED
    BY <1>2, <1>3, <2>3, <2>4
<1>9. CASE Restart
  <2>1. log' = [i \in 1..Stored(log) |-> "alert"]
    BY <1>9 DEF Restart
  <2>2. Stored(log') = Stored(log)
    BY <1>2, <2>1, AlertsKept
  <2>3. Rest
    BY <1>0, <1>9 DEF Restart
  <2>4. QED
    BY <1>2, <2>2, <2>3
<1>10. CASE Expire
  <2>1. Stored(log') <= Stored(log)
    BY <1>1, <1>10, EntriesTail DEF Expire, Stored
  <2>2. dl' = dl /\ calls' = calls
    BY <1>10 DEF Expire, dlVars
  <2>3. QED
    BY <1>3, <2>1, <2>2
<1>11. CASE UNCHANGED <<dl, calls, log>>
  BY <1>2, <1>3, <1>11
<1>12. QED
  BY <1>6, <1>7, <1>8, <1>9, <1>10, <1>11, Steps DEF Collect, Enqueue, Remove, vars, dlVars, alertVars

(* One alert for a spike: while an alert event is in the window and no call  *)
(* is past looking for one, no step stores another, and it stays so until    *)
(* the event has left the window (recordFailure).                            *)
THEOREM OncePerSpike == Spec => AlertOncePerSpike
<1>1. TypeOK /\ [Next]_vars => [Settled => /\ Stored(log') <= Stored(log)
                                           /\ Settled' \/ ~HasAlert(log')]_vars
  BY SettledStep
<1>2. QED
  BY <1>1, TypeCorrect, PTL DEF Spec, AlertOncePerSpike

-----------------------------------------------------------------------------
(* Quiet.                                                                  *)

LEMMA QuietStep ==
  ASSUME TypeOK, [Next]_vars, NEW e \in Endpoints, Quiet(e)
  PROVE  Quiet(e)'
<1>0. /\ endpoint \in [Endpoints -> {"active", "off", "gone"}]
      /\ collected \in [Endpoints -> Nat] /\ queue \in [Endpoints -> Nat]
      /\ dl \in [Deliverers -> Labels] /\ at \in [Deliverers -> Endpoints] /\ replay \in [Deliverers -> BOOLEAN]
  BY DEF TypeOK, Labels
<1>1. /\ endpoint[e] # "active" /\ collected[e] = 0 /\ queue[e] = 0
      /\ \A d \in Deliverers : at[d] = e => dl[d] = "idle" \/ replay[d]
  BY DEF Quiet
<1>2. endpoint'[e] # "active"
  BY <1>1, EndpointCases
<1>3. SUFFICES /\ collected'[e] = 0 /\ queue'[e] = 0
               /\ \A d \in Deliverers : at'[d] = e => dl'[d] = "idle" \/ replay'[d]
  BY <1>2 DEF Quiet
<1>4. ASSUME NEW d \in Deliverers, StepOf(d)
      PROVE  /\ collected'[e] = 0 /\ queue'[e] = 0
             /\ at'[d] = e => dl'[d] = "idle" \/ replay'[d]
  <2>1. ASSUME NEW g \in Endpoints, Retry(d, g)
        PROVE  /\ collected'[e] = 0 /\ queue'[e] = 0
               /\ at'[d] = e => dl'[d] = "idle" \/ replay'[d]
    <3>1. replay'[d]
      BY <1>0, <2>1 DEF Retry, Begin
    <3>2. QED
      BY <1>1, <2>1, <3>1 DEF Retry
  <2>2. ASSUME NEW g \in Endpoints, Take(d, g)
        PROVE  /\ collected'[e] = 0 /\ queue'[e] = 0
               /\ at'[d] = e => dl'[d] = "idle" \/ replay'[d]
    <3>1. g # e
      BY <1>1, <2>2 DEF Take
    <3>2. at'[d] = g
      BY <1>0, <2>2 DEF Take, Begin
    <3>3. queue'[e] = queue[e] /\ collected' = collected
      BY <1>0, <2>2, <3>1 DEF Take
    <3>4. QED
      BY <1>1, <3>1, <3>2, <3>3
  <2>3. CASE /\ at' = at /\ replay' = replay /\ UNCHANGED <<collected, queue>>
             /\ dl[d] # "idle"
    BY <1>1, <2>3
  <2>4. QED
    BY <1>4, <2>1, <2>2, <2>3
    DEF StepOf, Accepted, Again, GiveUp, Missing, Reset, Count, Disable, Record, Throw, DbError, GoOn, Stages
<1>5. ASSUME NEW d \in Deliverers, StepOf(d)
      PROVE  \A g \in Deliverers \ {d} : at'[g] = e => dl'[g] = "idle" \/ replay'[g]
  BY <1>1, <1>5, DispatchCases
<1>6. CASE Collect
  BY <1>0, <1>1, <1>6 DEF Collect, dlVars
<1>7. ASSUME NEW g \in Endpoints, Enqueue(g)
      PROVE  /\ collected'[e] = 0 /\ queue'[e] = 0
             /\ \A d \in Deliverers : at'[d] = e => dl'[d] = "idle" \/ replay'[d]
  <2>1. g # e
    BY <1>1, <1>7 DEF Enqueue
  <2>2. QED
    BY <1>0, <1>1, <1>7, <2>1 DEF Enqueue, dlVars
<1>8. CASE Restart
  <2> DEFINE S == {d \in Deliverers : dl[d] # "idle" /\ ~replay[d] /\ at[d] = e}
  <2>1. S = {}
    BY <1>1
  <2>2. Cardinality(S) = 0
    BY <2>1, FS_EmptySet
  <2>3. queue'[e] = queue[e] + Cardinality(S)
    BY <1>8 DEF Restart
  <2>4. QED
    BY <1>1, <1>8, <2>2, <2>3 DEF Restart
<1>9. CASE UNCHANGED <<collected, queue, dl, at, replay>>
  BY <1>1, <1>9
<1>10. QED
  BY <1>4, <1>5, <1>6, <1>7, <1>8, <1>9, Steps DEF RecordDetached, CallFails, Expire, Remove, vars, dlVars

(* A disabled endpoint whose jobs are done is left alone until an            *)
(* administrator retries one of its deliveries: no event, queued job or      *)
(* restart reaches it (dispatch, processDispatchJob).                        *)
THEOREM DisabledIsQuiet == Spec => DisabledStaysQuiet
<1>1. TypeOK /\ [Next]_vars => [\A e \in Endpoints : Quiet(e) => Quiet(e)']_vars
  BY QuietStep
<1>2. QED
  BY <1>1, TypeCorrect, PTL DEF Spec, DisabledStaysQuiet
=============================================================================
