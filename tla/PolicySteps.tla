---------------------------- MODULE PolicySteps ----------------------------
(***************************************************************************)
(* Editing an escalation policy while an alert of it is open (the policy's *)
(* handlers and runEscalationScanForOrg of AlertsService).  A step has no  *)
(* identity but its place in the sorted list, and the rows that say what   *)
(* was done for the alert name places; Escalation keeps the policy fixed   *)
(* and follows the deliveries instead.                                     *)
(***************************************************************************)
EXTENDS Server, Sequences, SequencesExt

CONSTANTS
  Offered,    \* the lists of steps that are sent
  MaxSteps,   \* bound on the length of a policy
  Sla,        \* the policy's minutes for the alert's severity
  Cooldown,   \* ESCALATION_COOLDOWN_MINUTES
  MaxAge,     \* bound on the alert's age
  MaxEdits,   \* bound on the edits
  MaxCuts     \* bound on the scans that are cut off

NoRoute == "misspelt"

VARIABLES
  steps,      \* the policy's steps
  age,        \* minutes since the alert was raised
  done,       \* of each place that has an alertEscalation row: [step, at]
  routed,     \* of each place: how often it was routed
  edits,      \* how often the policy was edited since the alert was raised
  cuts        \* scans that were cut off

vars == <<frame, steps, age, done, routed, edits, cuts>>

\* A step is a record of after, in minutes, route, and eligible, whether minSeverity allows the
\* alert's severity.
Sent == UNION {Range(l) : l \in Offered}
IsStep(s) == \E t \in Sent : s.after >= 1 /\ s = [t EXCEPT !.after = s.after] /\ t.route # NoRoute
StepPlaces == 1..MaxSteps

TypeOK ==
  /\ \A h \in Handlers :
       \/ frame[h] = Idle
       \/ /\ frame[h].op \in {"look", "route", "row"}
          /\ frame[h].now \in 0..MaxAge
          /\ DOMAIN frame[h].todo \subseteq StepPlaces
          /\ \A n \in DOMAIN frame[h].todo : IsStep(frame[h].todo[n])
  /\ Len(steps) <= MaxSteps /\ \A s \in Range(steps) : IsStep(s)
  /\ age \in 0..MaxAge
  /\ DOMAIN done \subseteq StepPlaces
  /\ \A n \in DOMAIN done : IsStep(done[n].step) /\ done[n].at \in 0..age
  /\ routed \in [StepPlaces -> Nat]
  /\ edits \in 0..MaxEdits /\ cuts \in 0..MaxCuts

\* normalizeEscalationSteps: unknown routes are dropped, minutes are at least one, and the rest
\* is sorted by them, steps of the same minute in the order given.
Known(list) == {i \in DOMAIN list : list[i].route # NoRoute}
After(list, i) == IF list[i].after < 1 THEN 1 ELSE list[i].after
Place(list, i) ==
  Cardinality({j \in Known(list) : \/ After(list, j) < After(list, i)
                                   \/ After(list, j) = After(list, i) /\ j <= i})
Normalized(list) ==
  [n \in 1..Cardinality(Known(list)) |->
     LET i == CHOOSE j \in Known(list) : Place(list, j) = n
     IN  [list[i] EXCEPT !.after = After(list, i)]]

\* Mutant: the steps are stored in the order given.
NormalizedUnsorted(list) ==
  LET known == SelectSeq(list, LAMBDA s : s.route # NoRoute)
  IN  [i \in DOMAIN known |-> [known[i] EXCEPT !.after = IF @ < 1 THEN 1 ELSE @]]

\* An alert is raised under some policy that was saved before.
Init ==
  /\ ServerInit
  /\ \E l \in Offered : steps = Normalized(l)
  /\ age = 0 /\ done = [n \in {} |-> 0] /\ routed = [n \in StepPlaces |-> 0]
  /\ edits = 0 /\ cuts = 0

-----------------------------------------------------------------------------

\* createEscalationPolicy, updateEscalationPolicy: the steps sent replace those there were.
Edit(list) ==
  /\ edits < MaxEdits
  /\ edits' = edits + 1
  /\ steps' = Normalized(list)
  /\ UNCHANGED <<frame, age, done, routed, cuts>>

\* runEscalationScanForOrg reads the policy and the open alerts, and numbers the steps that are
\* due, those of the test (force) among them; without any the alert is passed over ...
ScanRead(h, force) ==
  LET due == {n \in DOMAIN steps :
                steps[n].eligible /\ (force \/ (age >= steps[n].after /\ age >= Sla))}
  IN  /\ due # {}
      /\ Serve(h, [op |-> "look", now |-> age, force |-> force, todo |-> Restrict(steps, due)])
      /\ UNCHANGED <<steps, age, done, routed, edits, cuts>>

\* Where the scan stands with the steps at the places left to do: at the first of them, or past
\* the alert.
Onward(f, left) == IF left = {} THEN Idle ELSE [f EXCEPT !.op = "route", !.todo = Restrict(@, left)]

First(f) == Min(DOMAIN f.todo)

\* ... then reads what was done for the alert: after a recent attempt the alert rests, and a place
\* that has a row is passed over ...
ScanLook(h) ==
  LET f      == frame[h]
      recent == ~f.force /\ \E n \in DOMAIN done : f.now < done[n].at + Cooldown
  IN  /\ At(h, "look")
      /\ GoOn(h, Onward(f, IF recent THEN {} ELSE DOMAIN f.todo \ DOMAIN done))
      /\ UNCHANGED <<steps, age, done, routed, edits, cuts>>

\* Mutant: a place whose row names another step is not passed over.
ScanLookAtSteps(h) ==
  LET f      == frame[h]
      recent == ~f.force /\ \E n \in DOMAIN done : f.now < done[n].at + Cooldown
      left   == {m \in DOMAIN f.todo : \A n \in DOMAIN done : done[n].step # f.todo[m]}
  IN  /\ At(h, "look")
      /\ GoOn(h, Onward(f, IF recent THEN {} ELSE left))
      /\ UNCHANGED <<steps, age, done, routed, edits, cuts>>

\* ... routes the step, unless it is quiet or nobody is on call ...
ScanRoute(h, suppressed) ==
  /\ At(h, "route")
  /\ GoOn(h, [frame[h] EXCEPT !.op = "row"])
  /\ routed' = IF suppressed THEN routed ELSE [routed EXCEPT ![First(frame[h])] = @ + 1]
  /\ UNCHANGED <<steps, age, done, edits, cuts>>

\* ... and records it; the error of the unique index, when the place has a row, is dropped.
ScanRow(h) ==
  LET f     == frame[h]
      place == First(f)
  IN  /\ At(h, "row")
      /\ done' = IF place \in DOMAIN done THEN done
                 ELSE [n \in DOMAIN done \cup {place} |->
                         IF n = place THEN [step |-> f.todo[place], at |-> age] ELSE done[n]]
      /\ GoOn(h, Onward(f, DOMAIN f.todo \ {place}))
      /\ UNCHANGED <<steps, age, routed, edits, cuts>>

MinutePasses ==
  /\ age < MaxAge
  /\ age' = age + 1
  /\ UNCHANGED <<frame, steps, done, routed, edits, cuts>>

\* A restart or a failing call ends a scan between two of its steps.
CutOff(h) ==
  /\ cuts < MaxCuts
  /\ Drop(h)
  /\ cuts' = cuts + 1
  /\ UNCHANGED <<steps, age, done, routed, edits>>

Next ==
  \/ \E l \in Offered : Edit(l)
  \/ \E h \in Handlers :
       \/ \E force \in BOOLEAN : ScanRead(h, force)
       \/ ScanLook(h) \/ ScanRow(h) \/ CutOff(h)
       \/ \E suppressed \in BOOLEAN : ScanRoute(h, suppressed)
  \/ MinutePasses

Spec == Init /\ [][Next]_vars

-----------------------------------------------------------------------------
(* Properties.                                                             *)

(* However the policy is edited while the alert is open, no place in it is *)
(* routed more often than there are scans that overlap or are cut off: a   *)
(* new step at a place that was done is taken as done, never sent again.   *)
PlaceRoutingsBounded ==
  \A n \in StepPlaces : routed[n] <= Cardinality(Handlers) + cuts

(* While the policy stays as it was when the alert was raised, the rows    *)
(* name the steps at their places, and a place is recorded only when all   *)
(* that come before it and apply to the alert are: the order of the steps, *)
(* the numbering by place and the order of the scan's writes agree.        *)
UneditedRowsInOrder ==
  edits = 0 =>
    \A n \in DOMAIN done :
      /\ n \in DOMAIN steps /\ done[n].step = steps[n]
      /\ \A m \in 1..(n - 1) : steps[m].eligible => m \in DOMAIN done
=============================================================================
