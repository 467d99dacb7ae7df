------------------------------- MODULE Uptime -------------------------------
(***************************************************************************)
(* The status of a component of the status page (status.service.ts).  A    *)
(* scan checks the component, stores the check, and derives the status     *)
(* from the last five checks, the status the check forces and an open      *)
(* critical incident, each read after the other.  Two scans may be under   *)
(* way: the job queue and an administrator start them.                     *)
(***************************************************************************)
EXTENDS Server, Sequences

CONSTANTS
  Window,      \* checks looked at: 5
  Major,       \* failures among them that make MAJOR_OUTAGE: 5
  Degraded     \* failures among them that make DEGRADED: 3

VARIABLES
  checks,      \* the last checks, the newest first
  forced,      \* whether the last check forces DEGRADED (the AI component, switched off)
  critical,    \* whether an open critical incident names the component
  status,      \* StatusComponent.status
  seen,        \* whether the last scan found a critical incident
  disturbed    \* whether a scan overlapped this one, or was cut short

vars == <<frame, checks, forced, critical, status, seen, disturbed>>

Statuses == {"OPERATIONAL", "DEGRADED", "MAJOR_OUTAGE"}

UpToWindow == UNION {[1..n -> BOOLEAN] : n \in 0..Window}

TypeOK ==
  /\ frame \in [Handlers -> {Idle} \cup [op : {"recompute"}, forced : BOOLEAN]
                            \cup [op : {"incident", "write"}, status : Statuses]]
  /\ checks \in UpToWindow
  /\ forced \in BOOLEAN /\ critical \in BOOLEAN /\ seen \in BOOLEAN /\ disturbed \in BOOLEAN
  /\ status \in Statuses

Init ==
  /\ ServerInit
  /\ checks = <<>> /\ forced = FALSE /\ critical = FALSE
  /\ status = "OPERATIONAL" /\ seen = FALSE /\ disturbed = FALSE

Failures(s) == Cardinality({i \in DOMAIN s : ~s[i]})

\* Mutant: the newest check is left out of the count.
FromOlderChecks(force) ==
  LET failures == Cardinality({i \in DOMAIN checks \ {1} : ~checks[i]})
  IN IF failures >= Major THEN "MAJOR_OUTAGE"
     ELSE IF failures >= Degraded \/ force THEN "DEGRADED" ELSE "OPERATIONAL"

\* What the stored checks say, made worse by what the check forces.
FromChecks(force) ==
  LET failures == Failures(checks)
  IN IF failures >= Major THEN "MAJOR_OUTAGE"
     ELSE IF failures >= Degraded \/ force THEN "DEGRADED" ELSE "OPERATIONAL"

Push(ok) == [i \in 1..(IF Len(checks) < Window THEN Len(checks) + 1 ELSE Window) |->
               IF i = 1 THEN ok ELSE checks[i - 1]]

\* runUptimeScan, checkComponent: the component is checked and the check stored ...
Check(h, ok, force) ==
  /\ Serve(h, [op |-> "recompute", forced |-> force])
  /\ checks' = Push(ok)
  /\ forced' = force
  /\ disturbed' = (\E g \in Handlers : frame[g] # Idle)
  /\ UNCHANGED <<critical, status, seen>>

\* ... recomputeStatus reads the last five ...
RecomputeRead(h) ==
  /\ At(h, "recompute")
  /\ GoOn(h, [op |-> "incident", status |-> FromChecks(frame[h].forced)])
  /\ UNCHANGED <<checks, forced, critical, status, seen, disturbed>>

\* ... looks for a critical incident ...
IncidentLookUp(h) ==
  /\ At(h, "incident")
  /\ GoOn(h, [op |-> "write", status |-> IF critical THEN "MAJOR_OUTAGE" ELSE frame[h].status])
  /\ seen' = critical
  /\ UNCHANGED <<checks, forced, critical, status, disturbed>>

\* ... and writes the status it came to.
StatusWrite(h) ==
  /\ At(h, "write")
  /\ status' = frame[h].status
  /\ Finish(h)
  /\ UNCHANGED <<checks, forced, critical, seen, disturbed>>

\* A critical incident that names the component is raised or resolved, in Incidents; nothing
\* recomputes the status then.
IncidentChanges ==
  /\ critical' = ~critical
  /\ UNCHANGED <<frame, checks, forced, status, seen, disturbed>>

Lost(h) ==
  /\ Drop(h)
  /\ disturbed' = TRUE
  /\ UNCHANGED <<checks, forced, critical, status, seen>>

Next ==
  \/ IncidentChanges
  \/ \E h \in Handlers :
       \/ \E ok, force \in BOOLEAN : Check(h, ok, force)
       \/ RecomputeRead(h) \/ IncidentLookUp(h) \/ StatusWrite(h) \/ Lost(h)

Spec == Init /\ [][Next]_vars

-----------------------------------------------------------------------------
(* Properties.                                                             *)

(* After a scan that nothing overlapped, the status is what the last five  *)
(* checks and the incident it found make it: it is not worse than its      *)
(* checks without an incident, and it recovers as soon as fewer than three *)
(* of them failed (recomputeStatus).                                       *)
StatusFollowsChecks ==
  (~disturbed /\ \A h \in Handlers : frame[h] = Idle) =>
    /\ (status = "MAJOR_OUTAGE") <=> (seen \/ Failures(checks) >= Major)
    /\ (status = "OPERATIONAL") <=> (~seen /\ Failures(checks) < Degraded /\ ~forced)
=============================================================================
