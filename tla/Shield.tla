------------------------------- MODULE Shield -------------------------------
(***************************************************************************)
(* Security events (shield/shield.service.ts): a spike of failed logins of *)
(* one address, counted in a bucket in memory, and many deactivations by   *)
(* one administrator, counted in the activity log.                         *)
(*                                                                         *)
(* A handler holds on to the bucket it took out of the map while it stores *)
(* the event, and puts it back afterwards, even if a successful login has  *)
(* removed it meanwhile.                                                   *)
(***************************************************************************)
EXTENDS Server

CONSTANTS
  SpikeAt,      \* failed logins that make a spike
  MaxFails,     \* bound on the failed logins counted
  MaxBuckets,   \* bound on the buckets made
  BulkAbove,    \* deactivations that may happen without an event
  MaxDeactivations

Buckets == 1..MaxBuckets

VARIABLES
  bucket,     \* of each bucket: failed logins in its window and whether it has a lastEventAt
  inMap,      \* the bucket of the address in failedLoginBuckets, 0 for none
  made,       \* buckets made so far
  spikes,     \* FAILED_LOGIN_SPIKE events stored in this window
  logged,     \* deactivations in the activity log
  bulk,       \* BULK_USER_DEACTIVATION events
  cut,        \* whether a request that was to look for bulk deactivation was cut off
  resolved    \* how often resolvedAt was written

loginVars == <<bucket, inMap, made, spikes>>
bulkVars == <<logged, bulk, cut, resolved>>
vars == <<frame, loginVars, bulkVars>>

TypeOK ==
  /\ frame \in [Handlers -> {Idle} \cup [op : {"spike"}, bucket : Buckets]
       \cup [op : {"count", "resolve"}]
       \cup [op : {"look"}, seen : 0..MaxDeactivations] \cup [op : {"bulk"}]]
  /\ bucket \in [Buckets -> [fails : 0..MaxFails, warned : BOOLEAN]]
  /\ inMap \in 0..MaxBuckets /\ made \in 0..MaxBuckets
  /\ spikes \in Nat
  /\ logged \in 0..MaxDeactivations
  /\ bulk \in Nat
  /\ cut \in BOOLEAN
  /\ resolved \in Nat

Init ==
  /\ ServerInit
  /\ bucket = [b \in Buckets |-> [fails |-> 0, warned |-> FALSE]]
  /\ inMap = 0 /\ made = 0 /\ spikes = 0
  /\ logged = 0 /\ bulk = 0 /\ cut = FALSE /\ resolved = 0

-----------------------------------------------------------------------------
(* Failed logins.                                                          *)

\* A handler that counted a failure in b goes on with the event, or with putting b back.
Counted(h, b, warns) ==
  IF warns
  THEN Serve(h, [op |-> "spike", bucket |-> b]) /\ UNCHANGED inMap
  ELSE frame[h] = Idle /\ inMap' = b /\ UNCHANGED frame

\* Mutant: a bucket that has had its event is not told from one that has not.
FailWarnsAgain(h) ==
  /\ LET b == IF inMap = 0 THEN made + 1 ELSE inMap
     IN  /\ b \in Buckets
         /\ bucket[b].fails < MaxFails
         /\ bucket' = [bucket EXCEPT ![b].fails = @ + 1]
         /\ made' = IF inMap = 0 THEN b ELSE made
         /\ Counted(h, b, bucket'[b].fails >= SpikeAt)
  /\ UNCHANGED <<spikes, bulkVars>>

\* registerFailedLoginAttempt takes the bucket, or a new one, and counts without an await;
\* at a spike it stores an event unless the bucket has had one in this window ...
Fail(h) ==
  /\ LET b == IF inMap = 0 THEN made + 1 ELSE inMap
     IN  /\ b \in Buckets
         /\ bucket[b].fails < MaxFails
         /\ bucket' = [bucket EXCEPT ![b].fails = @ + 1]
         /\ made' = IF inMap = 0 THEN b ELSE made
         /\ Counted(h, b, bucket'[b].fails >= SpikeAt /\ ~bucket[b].warned)
  /\ UNCHANGED <<spikes, bulkVars>>

\* ... marks the bucket when the event is stored, and puts it into the map.
SpikeStored(h) ==
  /\ At(h, "spike")
  /\ spikes' = spikes + 1
  /\ bucket' = [bucket EXCEPT ![frame[h].bucket].warned = TRUE]
  /\ inMap' = frame[h].bucket
  /\ Finish(h)
  /\ UNCHANGED <<made, bulkVars>>

\* clearFailedLoginAttempts, after a successful login.
Clear ==
  /\ inMap # 0
  /\ inMap' = 0
  /\ UNCHANGED <<frame, bucket, made, spikes, bulkVars>>

\* Ten minutes without a failure; storing an event takes less.
WindowPasses ==
  /\ Serving("spike") = {}
  /\ inMap # 0
  /\ bucket' = [b \in Buckets |-> [fails |-> 0, warned |-> FALSE]]
  /\ spikes' = 0
  /\ made' = inMap
  /\ UNCHANGED <<frame, inMap, bulkVars>>

-----------------------------------------------------------------------------
(* Bulk deactivation, and the events.                                      *)

\* deactivate has written the user and the activity log ...
DeactivationLogged(h) ==
  /\ logged < MaxDeactivations
  /\ logged' = logged + 1
  /\ Serve(h, [op |-> "count"])
  /\ UNCHANGED <<loginVars, bulk, cut, resolved>>

\* ... detectBulkUserDeactivation counts the log rows ...
BulkCount(h) ==
  /\ At(h, "count")
  /\ GoOn(h, [op |-> "look", seen |-> logged])
  /\ UNCHANGED <<loginVars, bulkVars>>

\* ... looks for an event ...
BulkLook(h) ==
  /\ At(h, "look")
  /\ IF frame[h].seen > BulkAbove /\ bulk = 0 THEN GoOn(h, [op |-> "bulk"]) ELSE Finish(h)
  /\ UNCHANGED <<loginVars, bulkVars>>

\* ... and stores one if there is none.
BulkStored(h) ==
  /\ At(h, "bulk")
  /\ bulk' = bulk + 1
  /\ Finish(h)
  /\ UNCHANGED <<loginVars, logged, cut, resolved>>

\* resolveEvent finds an event that is not resolved ...
ResolveRead(h) ==
  /\ bulk > 0 /\ resolved = 0
  /\ Serve(h, [op |-> "resolve"])
  /\ UNCHANGED <<loginVars, bulkVars>>

\* ... and sets its resolvedAt.
ResolveWrite(h) ==
  /\ At(h, "resolve")
  /\ resolved' = resolved + 1
  /\ Finish(h)
  /\ UNCHANGED <<loginVars, logged, bulk, cut>>

Lost(h) ==
  /\ Drop(h)
  /\ cut' = (cut \/ frame[h].op \in {"count", "look", "bulk"})
  /\ UNCHANGED <<loginVars, logged, bulk, resolved>>

Next ==
  \/ Clear \/ WindowPasses
  \/ \E h \in Handlers :
       \/ Fail(h) \/ SpikeStored(h)
       \/ DeactivationLogged(h) \/ BulkCount(h) \/ BulkLook(h) \/ BulkStored(h)
       \/ ResolveRead(h) \/ ResolveWrite(h) \/ Lost(h)

Spec == Init /\ [][Next]_vars

-----------------------------------------------------------------------------
(* Properties.                                                             *)

(* A spike of failed logins makes one event in ten minutes; only attempts  *)
(* that overlap make more, one for each handler and each bucket            *)
(* (registerFailedLoginAttempt).                                           *)
SpikesBounded == spikes <= Cardinality(Handlers) * made

(* When more users than allowed were deactivated, and every request has    *)
(* ended, there is an event about it, however the deactivations overlapped,*)
(* and at most one for each handler (detectBulkUserDeactivation).          *)
BulkNoticed ==
  /\ logged > BulkAbove /\ ~cut /\ Serving("count") \cup Serving("look") \cup Serving("bulk") = {}
       => bulk > 0
  /\ bulk <= Cardinality(Handlers)
=============================================================================
