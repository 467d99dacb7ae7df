-------------------------------- MODULE Jobs --------------------------------
(***************************************************************************)
(* Scheduled jobs (scheduler/scheduler.service.ts, jobs/job.service.ts,    *)
(* jobs/workers.ts): the repeatable job of one schedule, registered anew   *)
(* whenever a worker process starts; a tick of it, which queues a job for  *)
(* each organization; and the dead letters of failed attempts.  BullMQ and *)
(* its stalled-job check are modelled from their use.                      *)
(*                                                                         *)
(* Processes deployed at different times may have different cron patterns. *)
(* Reloading lists the registered patterns, removes them one by one and    *)
(* adds the process's own.                                                 *)
(***************************************************************************)
EXTENDS Server

CONSTANTS
  Patterns,      \* cron patterns of the deployments
  Orgs,          \* organizations, 1..n in the order of their creation
  MaxAttempts,   \* attempts of a job
  MaxStalls      \* how often BullMQ takes a job from a worker that died

NotSet == "unset"

VARIABLES
  registered,   \* patterns under which the schedule repeats
  current,      \* pattern of the last reload that finished
  mixed,        \* whether the last reload overlapped another or was cut off
  tick,         \* state of a tick of the schedule
  attempts,     \* attempts begun
  stalls,       \* attempts that died with their worker
  enqueued,     \* jobs queued for each organization
  letters,      \* dead letters of the tick that wait in the dlq queue
  recorded      \* rows in failedJob

scheduleVars == <<registered, current, mixed>>
tickVars == <<tick, attempts, stalls, enqueued, letters, recorded>>
vars == <<frame, scheduleVars, tickVars>>

TypeOK ==
  /\ frame \in [Handlers -> {Idle}
       \cup [op : {"list"}, pattern : Patterns]
       \cup [op : {"remove"}, pattern : Patterns, found : SUBSET Patterns]
       \cup [op : {"tick"}, org : Orgs \cup {Cardinality(Orgs) + 1}]
       \cup [op : {"record"}]]
  /\ registered \subseteq Patterns
  /\ current \in Patterns \cup {NotSet}
  /\ mixed \in BOOLEAN
  /\ tick \in {"due", "waiting", "active", "completed", "failed"}
  /\ attempts \in 0..(MaxAttempts + MaxStalls)
  /\ stalls \in 0..MaxStalls
  /\ enqueued \in [Orgs -> Nat]
  /\ letters \in Nat /\ recorded \in Nat

Init ==
  /\ ServerInit
  /\ registered = {} /\ current = NotSet /\ mixed = FALSE
  /\ tick = "due" /\ attempts = 0 /\ stalls = 0
  /\ enqueued = [o \in Orgs |-> 0]
  /\ letters = 0 /\ recorded = 0

-----------------------------------------------------------------------------
(* Registration.                                                           *)

Reloading == Serving("list") \cup Serving("remove")

\* start or reload, in a process with the given pattern ...
ReloadBegin(h, p) ==
  /\ Serve(h, [op |-> "list", pattern |-> p])
  /\ mixed' = (Reloading # {})
  /\ UNCHANGED <<registered, current, tickVars>>

\* ... lists the repeatable jobs of the queue ...
ReloadList(h) ==
  /\ At(h, "list")
  /\ GoOn(h, [op |-> "remove", pattern |-> frame[h].pattern, found |-> registered])
  /\ UNCHANGED <<scheduleVars, tickVars>>

\* ... removes each of them ...
ReloadRemove(h) ==
  /\ At(h, "remove")
  /\ \E p \in frame[h].found :
       /\ registered' = registered \ {p}
       /\ GoOn(h, [frame[h] EXCEPT !.found = @ \ {p}])
  /\ UNCHANGED <<current, mixed, tickVars>>

\* Mutant: the process's pattern is added without removing what was found.
ReloadAddOnly(h) ==
  /\ At(h, "remove")
  /\ registered' = registered \cup {frame[h].pattern}
  /\ current' = frame[h].pattern
  /\ Finish(h)
  /\ UNCHANGED <<mixed, tickVars>>

\* ... and adds its own.
ReloadAdd(h) ==
  /\ At(h, "remove")
  /\ frame[h].found = {}
  /\ registered' = registered \cup {frame[h].pattern}
  /\ current' = frame[h].pattern
  /\ Finish(h)
  /\ UNCHANGED <<mixed, tickVars>>

-----------------------------------------------------------------------------
(* A tick.                                                                 *)

\* The cron pattern comes round, and BullMQ adds the job.
Fire ==
  /\ tick = "due"
  /\ registered # {}
  /\ tick' = "waiting"
  /\ UNCHANGED <<frame, scheduleVars, attempts, stalls, enqueued, letters, recorded>>

\* A worker takes the job; handleScheduledTick lists the organizations ...
TickBegin(h) ==
  /\ tick = "waiting"
  /\ tick' = "active"
  /\ attempts' = attempts + 1
  /\ Serve(h, [op |-> "tick", org |-> 1])
  /\ UNCHANGED <<scheduleVars, stalls, enqueued, letters, recorded>>

\* ... and queues a job for one after the other.
TickEnqueue(h) ==
  /\ At(h, "tick")
  /\ frame[h].org \in Orgs
  /\ enqueued' = [enqueued EXCEPT ![frame[h].org] = @ + 1]
  /\ GoOn(h, [frame[h] EXCEPT !.org = @ + 1])
  /\ UNCHANGED <<scheduleVars, tick, attempts, stalls, letters, recorded>>

TickComplete(h) ==
  /\ At(h, "tick")
  /\ frame[h].org \notin Orgs
  /\ tick' = "completed"
  /\ Finish(h)
  /\ UNCHANGED <<scheduleVars, attempts, stalls, enqueued, letters, recorded>>

\* Mutant: the attempts are not counted down.
TickFailsForever(h) ==
  /\ At(h, "tick")
  /\ tick' = "waiting"
  /\ letters' = letters + 1
  /\ Finish(h)
  /\ UNCHANGED <<scheduleVars, attempts, stalls, enqueued, recorded>>

\* An enqueue throws: the attempt fails, the failed handler sends a dead letter, and BullMQ
\* tries the whole job again while attempts are left.
TickFails(h) ==
  /\ At(h, "tick")
  /\ tick' = IF attempts - stalls < MaxAttempts THEN "waiting" ELSE "failed"
  /\ letters' = letters + 1
  /\ Finish(h)
  /\ UNCHANGED <<scheduleVars, attempts, stalls, enqueued, recorded>>

-----------------------------------------------------------------------------
(* Dead letters.                                                           *)

\* The dlq worker takes a letter ...
LetterBegin(h) ==
  /\ letters > 0
  /\ letters' = letters - 1
  /\ Serve(h, [op |-> "record"])
  /\ UNCHANGED <<scheduleVars, tick, attempts, stalls, enqueued, recorded>>

\* ... and stores a row; the job has one attempt.
LetterRecord(h) ==
  /\ At(h, "record")
  /\ recorded' = recorded + 1
  /\ Finish(h)
  /\ UNCHANGED <<scheduleVars, tick, attempts, stalls, enqueued, letters>>

\* A worker dies; its tick is found stalled and waits again, MaxStalls times, and so does its
\* letter; its reload is lost.
Lost(h) ==
  /\ Drop(h)
  /\ mixed' = (mixed \/ h \in Reloading)
  /\ IF At(h, "tick")
     THEN IF stalls < MaxStalls THEN stalls' = stalls + 1 /\ tick' = "waiting"
          ELSE UNCHANGED stalls /\ tick' = "failed"
     ELSE UNCHANGED <<stalls, tick>>
  /\ letters' = IF At(h, "record") THEN letters + 1 ELSE letters
  /\ UNCHANGED <<registered, current, attempts, enqueued, recorded>>

Next ==
  \/ Fire
  \/ \E h \in Handlers :
       \/ \E p \in Patterns : ReloadBegin(h, p)
       \/ ReloadList(h) \/ ReloadRemove(h) \/ ReloadAdd(h)
       \/ TickBegin(h) \/ TickEnqueue(h) \/ TickComplete(h) \/ TickFails(h)
       \/ LetterBegin(h) \/ LetterRecord(h) \/ Lost(h)

Spec == Init /\ [][Next]_vars

-----------------------------------------------------------------------------
(* Properties.                                                             *)

(* Deployments that start one after the other leave the schedule with one  *)
(* pattern, that of the last (SchedulerService.reload).                    *)
RegisteredOnce ==
  ~mixed /\ Reloading = {} /\ current # NotSet => registered = {current}

(* A tick queues a job for an organization at most once an attempt, and it *)
(* completes only when each organization has one (handleScheduledTick).    *)
TicksReachEveryOrg ==
  /\ \A o \in Orgs : enqueued[o] <= MaxAttempts + MaxStalls
  /\ tick = "completed" => \A o \in Orgs : enqueued[o] > 0

(* There is at most one dead letter for each failed attempt, up to the last*)
(* (the failed handler of startJobWorkers).                                *)
LettersBounded == letters + recorded + Cardinality(Serving("record")) <= MaxAttempts
=============================================================================
