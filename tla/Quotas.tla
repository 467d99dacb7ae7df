------------------------------- MODULE Quotas -------------------------------
(***************************************************************************)
(* Limits that are checked against a count before something is done: the   *)
(* work items a plan allows (BillingService.assertWorkItemAvailable), and  *)
(* the requests an API token may make in an hour (auth/jwt-auth.guard.ts), *)
(* counted by reading the token's row and writing the count plus one.      *)
(***************************************************************************)
EXTENDS Server

CONSTANTS
  PlanLimits,   \* maxWorkItems of the plans
  MaxItems,     \* bound on the work items
  HourLimit     \* rateLimitPerHour of the token

VARIABLES
  limit,        \* maxWorkItems of the current plan
  highest,      \* the highest limit so far
  items,        \* work items of the organization
  apiToken,     \* state of the token
  requests,     \* its requestsThisHour
  passed,       \* requests with it that went on this hour
  overlapped,   \* whether two requests with it overlapped this hour
  late          \* requests that went on since it was revoked

planVars == <<limit, highest, items>>
tokenVars == <<apiToken, requests, passed, overlapped, late>>
vars == <<frame, planVars, tokenVars>>

TypeOK ==
  /\ frame \in [Handlers -> {Idle} \cup [op : {"count"}, limit : PlanLimits] \cup [op : {"insert"}]
                            \cup [op : {"request"}, next : 1..(HourLimit + 2)]]
  /\ limit \in PlanLimits /\ highest \in PlanLimits
  /\ items \in 0..MaxItems
  /\ apiToken \in {"none", "live", "revoked"}
  /\ requests \in 0..(HourLimit + 2)
  /\ passed \in Nat
  /\ overlapped \in BOOLEAN
  /\ late \in Nat

Init ==
  /\ ServerInit
  /\ limit \in PlanLimits /\ highest = limit /\ items = 0
  /\ apiToken = "none" /\ requests = 0 /\ passed = 0 /\ overlapped = FALSE /\ late = 0

-----------------------------------------------------------------------------
(* The plan.                                                               *)

\* The organization changes its plan, in Billing.
PlanChanges(l) ==
  /\ l # limit
  /\ limit' = l
  /\ highest' = IF l > highest THEN l ELSE highest
  /\ UNCHANGED <<frame, items, tokenVars>>

\* create, of a work item: assertWorkItemAvailable reads the plan ...
PlanRead(h) ==
  /\ Serve(h, [op |-> "count", limit |-> limit])
  /\ UNCHANGED <<planVars, tokenVars>>

\* Mutant: the comparison lets one more pass.
CountOffByOne(h) ==
  /\ At(h, "count")
  /\ IF items <= frame[h].limit THEN GoOn(h, [op |-> "insert"]) ELSE Finish(h)
  /\ UNCHANGED <<planVars, tokenVars>>

\* ... counts the work items ...
Count(h) ==
  /\ At(h, "count")
  /\ IF items < frame[h].limit THEN GoOn(h, [op |-> "insert"]) ELSE Finish(h)
  /\ UNCHANGED <<planVars, tokenVars>>

\* ... and, the policy and the references checked, one more is inserted.
ItemInsert(h) ==
  /\ At(h, "insert")
  /\ items < MaxItems
  /\ items' = items + 1
  /\ Finish(h)
  /\ UNCHANGED <<limit, highest, tokenVars>>

-----------------------------------------------------------------------------
(* API tokens.                                                             *)

CreateToken ==
  /\ apiToken = "none"
  /\ apiToken' = "live"
  /\ UNCHANGED <<frame, planVars, requests, passed, overlapped, late>>

\* revoke is one update of a token that is not revoked.
RevokeToken ==
  /\ apiToken = "live"
  /\ apiToken' = "revoked"
  /\ UNCHANGED <<frame, planVars, requests, passed, overlapped, late>>

\* The guard finds the token, not revoked, and its count; who overlaps it counts the same ...
TokenRead(h) ==
  /\ apiToken = "live"
  /\ Serve(h, [op |-> "request", next |-> IF requests <= HourLimit THEN requests + 1 ELSE HourLimit + 2])
  /\ overlapped' = (overlapped \/ Serving("request") # {})
  /\ UNCHANGED <<planVars, apiToken, requests, passed, late>>

\* Mutant: the count is compared before the request is added to it.
TokenWriteLenient(h) ==
  /\ At(h, "request")
  /\ requests' = frame[h].next
  /\ IF frame[h].next <= HourLimit + 1
     THEN passed' = passed + 1 /\ late' = IF apiToken = "revoked" THEN late + 1 ELSE late
     ELSE UNCHANGED <<passed, late>>
  /\ Finish(h)
  /\ UNCHANGED <<planVars, apiToken, overlapped>>

\* ... and stores the count with this request; it goes on if that is within the limit.
TokenWrite(h) ==
  /\ At(h, "request")
  /\ requests' = frame[h].next
  /\ IF frame[h].next <= HourLimit
     THEN passed' = passed + 1 /\ late' = IF apiToken = "revoked" THEN late + 1 ELSE late
     ELSE UNCHANGED <<passed, late>>
  /\ Finish(h)
  /\ UNCHANGED <<planVars, apiToken, overlapped>>

\* An hour after hourWindowStart; a request takes less.
HourPasses ==
  /\ Serving("request") = {}
  /\ requests > 0
  /\ requests' = 0 /\ passed' = 0 /\ overlapped' = FALSE
  /\ UNCHANGED <<frame, planVars, apiToken, late>>

Lost(h) ==
  /\ Drop(h)
  /\ UNCHANGED <<planVars, tokenVars>>

Next ==
  \/ \E l \in PlanLimits : PlanChanges(l)
  \/ CreateToken \/ RevokeToken \/ HourPasses
  \/ \E h \in Handlers :
       \/ PlanRead(h) \/ Count(h) \/ ItemInsert(h)
       \/ TokenRead(h) \/ TokenWrite(h) \/ Lost(h)

Spec == Init /\ [][Next]_vars

-----------------------------------------------------------------------------
(* Properties.                                                             *)

(* Requests that count at the same time exceed the highest limit the       *)
(* organization has had by less than one for each handler                  *)
(* (assertWorkItemAvailable).                                              *)
PlanLimitOvershoot == items < highest + Cardinality(Handlers)

(* Where requests with a token do not overlap, no more go on in an hour    *)
(* than its limit (JwtAuthGuard).                                          *)
HourLimitKept == ~overlapped => passed <= HourLimit

(* After a token was revoked only the requests that had found it before go *)
(* on (JwtAuthGuard, revoke).                                              *)
LateRequestsBounded == late <= Cardinality(Handlers)
=============================================================================
