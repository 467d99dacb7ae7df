----------------------------- MODULE FixActions -----------------------------
(***************************************************************************)
(* The guarded "1-click" fix actions of                                    *)
(* apps/api/src/fix-actions/fix-actions.service.ts.                        *)
(*                                                                         *)
(* A request handler is an async function: between two awaits any other    *)
(* handler may run, so every database round trip is an action of its own   *)
(* and pc[h] names the next one.  A run is one row of fix_action_runs; the *)
(* unique index on (orgId, idempotencyKey) lets one org's runs be indexed  *)
(* by their idempotency key.                                               *)
(***************************************************************************)
EXTENDS Naturals, FiniteSets

CONSTANTS
  Handlers,          \* request handlers that may be in flight together
  Keys,              \* idempotency keys (at most one run each)
  Entities,          \* what runs act on: incidents, invoices, and the one field
                     \* (assignee or due date) of a work item or invoice they set
  Values,            \* assignees or due dates an entity may carry
  Kind,              \* Keys -> template key
  EntityOf,          \* Keys -> Entities: the run's entityType and entityId
  ValueOf,           \* Keys -> Values: assigneeUserId or dueAt of the input
  NeedsConfirmation, \* keys whose template has requiresConfirmation
  RateLimit,         \* runs an org may create per hour (30 in the code)
  MaxFaults          \* bound on crashes and failed database calls

Kinds == {"SEND_INVOICE_REMINDER", "REASSIGN_WORK", "SET_DUE_DATE", "ESCALATE_INCIDENT"}

\* Templates that write a field of their entity, and templates that refuse an
\* invoice already paid or an incident already resolved.
Rewriting == {"REASSIGN_WORK", "SET_DUE_DATE"}
RefusesClosed == {"SEND_INVOICE_REMINDER", "ESCALATE_INCIDENT"}

ASSUME FixConstants ==
  /\ IsFiniteSet(Handlers)
  /\ IsFiniteSet(Keys) /\ Keys # {}
  /\ Kind \in [Keys -> Kinds]
  /\ EntityOf \in [Keys -> Entities]
  /\ ValueOf \in [Keys -> Values]
  /\ NeedsConfirmation \subseteq Keys
  /\ RateLimit \in Nat \ {0}
  /\ MaxFaults \in Nat

VARIABLES
  status,   \* the row's status, "ABSENT" before the row exists
  recent,   \* createdAt lies within the last hour
  value,    \* assignee or due date of each entity
  closed,   \* invoice PAID, incident RESOLVED or POSTMORTEM
  enabled,  \* FEATURE_FIX_ACTIONS_EXECUTION
  pc,       \* next database round trip of each handler
  arg,      \* the run a handler works on
  mode,     \* "create", "force" (forcePending) or "confirm"
  out,      \* how the handler's call returned
  auto,     \* runs created CONFIRMED: no confirmation needed, none accepted
  grants,   \* permissions given to run the template: confirmations accepted
            \* plus the one a run is born with when it needs no confirmation
  effects,  \* times the template's write really happened
  faulted,  \* runs whose handler was lost between CONFIRMED and the outcome
  faults    \* crashes and database errors so far

rows == <<status, recent>>
world == <<value, closed>>
frames == <<pc, arg, mode, out>>
ledger == <<auto, grants, effects>>
failures == <<faulted, faults>>
vars == <<status, recent, value, closed, enabled, pc, arg, mode, out, auto,
          grants, effects, faulted, faults>>

Statuses == {"ABSENT", "PENDING", "CONFIRMED", "RUNNING", "SUCCEEDED", "FAILED"}

CreatePcs == {"create_limit", "create_find", "create_insert"}
\* Between the write of CONFIRMED (or the insert of an auto-executed run) and
\* the template's own write: this handler still holds an unspent permission.
HoldingPcs == {"exec_load", "exec_check", "exec_start", "exec_entity", "exec_recent", "exec_apply"}
TryPcs == {"exec_entity", "exec_recent", "exec_apply", "exec_done", "exec_log"}
ExecPcs == HoldingPcs \cup TryPcs \cup {"exec_fail"}
ConfirmPcs == {"confirm_read", "confirm_write"}
Pcs == {"idle", "returned"} \cup CreatePcs \cup ConfirmPcs \cup ExecPcs

TypeOK ==
  /\ status \in [Keys -> Statuses]
  /\ recent \in [Keys -> BOOLEAN]
  /\ value \in [Entities -> Values]
  /\ closed \in [Entities -> BOOLEAN]
  /\ enabled \in BOOLEAN
  /\ pc \in [Handlers -> Pcs]
  /\ arg \in [Handlers -> Keys]
  /\ mode \in [Handlers -> {"create", "force", "confirm"}]
  /\ out \in [Handlers -> {"none", "ok", "error"}]
  /\ auto \subseteq Keys
  /\ grants \in [Keys -> Nat]
  /\ effects \in [Keys -> Nat]
  /\ faulted \subseteq Keys
  /\ faults \in 0..MaxFaults

\* What arg holds while a handler has no request.
SomeKey == CHOOSE k \in Keys : TRUE

Init ==
  /\ status = [k \in Keys |-> "ABSENT"]
  /\ recent = [k \in Keys |-> FALSE]
  /\ value \in [Entities -> Values]
  /\ closed = [e \in Entities |-> FALSE]
  /\ enabled \in BOOLEAN
  /\ pc = [h \in Handlers |-> "idle"]
  /\ arg = [h \in Handlers |-> SomeKey]
  /\ mode = [h \in Handlers |-> "create"]
  /\ out = [h \in Handlers |-> "none"]
  /\ auto = {}
  /\ grants = [k \in Keys |-> 0]
  /\ effects = [k \in Keys |-> 0]
  /\ faulted = {}
  /\ faults = 0

-----------------------------------------------------------------------------
(* Control flow of a handler.                                              *)

At(h, label) == pc[h] = label

Goto(h, label) ==
  /\ pc' = [pc EXCEPT ![h] = label]
  /\ UNCHANGED <<arg, mode, out>>

Return(h, result) ==
  /\ pc' = [pc EXCEPT ![h] = "returned"]
  /\ out' = [out EXCEPT ![h] = result]
  /\ UNCHANGED <<arg, mode>>

Call(h, label, k, m) ==
  /\ At(h, "idle")
  /\ pc' = [pc EXCEPT ![h] = label]
  /\ arg' = [arg EXCEPT ![h] = k]
  /\ mode' = [mode EXCEPT ![h] = m]
  /\ out' = [out EXCEPT ![h] = "none"]
  /\ UNCHANGED <<rows, world, enabled, ledger, failures>>

\* The row's status is the only thing a status update changes.
SetStatus(k, s) ==
  /\ status' = [status EXCEPT ![k] = s]
  /\ UNCHANGED recent

-----------------------------------------------------------------------------
(* createRun                                                               *)

\* POST /fix-actions/runs, or createRun called with forcePending.
StartCreate(h, k, m) == m \in {"create", "force"} /\ Call(h, "create_limit", k, m)

\* What assertRateLimit counts.
RecentRuns == {k \in Keys : recent[k]}

\* Mutant: the limit itself is let through.
CreateLimitOffByOne(h) ==
  /\ At(h, "create_limit")
  /\ IF Cardinality(RecentRuns) <= RateLimit
     THEN Goto(h, "create_find")
     ELSE Return(h, "error")
  /\ UNCHANGED <<rows, world, enabled, ledger, failures>>

\* assertRateLimit: counts the org's runs of the last hour, 409 at the limit.
CreateLimit(h) ==
  /\ At(h, "create_limit")
  /\ IF Cardinality(RecentRuns) < RateLimit
     THEN Goto(h, "create_find")
     ELSE Return(h, "error")
  /\ UNCHANGED <<rows, world, enabled, ledger, failures>>

\* Mutant: a stored run that is confirmed already is picked up and executed.
CreateFindResumes(h) ==
  /\ At(h, "create_find")
  /\ \/ status[arg[h]] = "CONFIRMED" /\ Goto(h, "exec_load")
     \/ status[arg[h]] \notin {"ABSENT", "CONFIRMED"} /\ Return(h, "ok")
     \/ status[arg[h]] = "ABSENT" /\ Goto(h, "create_insert")
  /\ UNCHANGED <<rows, world, enabled, ledger, failures>>

\* Template, role, entity and nudge checks may refuse the request; then the
\* run already stored under this idempotency key is returned as it stands.
CreateFind(h) ==
  /\ At(h, "create_find")
  /\ \/ Return(h, "error")
     \/ status[arg[h]] # "ABSENT" /\ Return(h, "ok")
     \/ status[arg[h]] = "ABSENT" /\ Goto(h, "create_insert")
  /\ UNCHANGED <<rows, world, enabled, ledger, failures>>

StartsPending(h) == mode[h] = "force" \/ arg[h] \in NeedsConfirmation

\* Mutant: an upsert, without the unique index.
CreateInsertUpserts(h) ==
  LET k == arg[h] IN
  /\ At(h, "create_insert")
  /\ status' = [status EXCEPT ![k] = IF StartsPending(h) THEN "PENDING" ELSE "CONFIRMED"]
  /\ recent' = [recent EXCEPT ![k] = TRUE]
  /\ IF StartsPending(h)
     THEN Return(h, "ok") /\ UNCHANGED ledger
     ELSE /\ auto' = auto \cup {k}
          /\ grants' = [grants EXCEPT ![k] = @ + 1]
          /\ Goto(h, "exec_load")
          /\ UNCHANGED effects
  /\ UNCHANGED <<world, enabled, failures>>

\* The insert fails on the unique index when another handler got there first.
CreateInsert(h) ==
  LET k == arg[h] IN
  /\ At(h, "create_insert")
  /\ \/ /\ status[k] # "ABSENT"
        /\ Return(h, "error")
        /\ UNCHANGED <<rows, ledger>>
     \/ /\ status[k] = "ABSENT"
        /\ StartsPending(h)
        /\ status' = [status EXCEPT ![k] = "PENDING"]
        /\ recent' = [recent EXCEPT ![k] = TRUE]
        /\ Return(h, "ok")
        /\ UNCHANGED ledger
     \/ /\ status[k] = "ABSENT"
        /\ ~StartsPending(h)
        /\ status' = [status EXCEPT ![k] = "CONFIRMED"]
        /\ recent' = [recent EXCEPT ![k] = TRUE]
        /\ auto' = auto \cup {k}
        /\ grants' = [grants EXCEPT ![k] = @ + 1]
        /\ Goto(h, "exec_load")
        /\ UNCHANGED effects
  /\ UNCHANGED <<world, enabled, failures>>

-----------------------------------------------------------------------------
(* confirmRun                                                              *)

StartConfirm(h, k) == Call(h, "confirm_read", k, "confirm")

\* Mutant: a failed run may be confirmed again.
ConfirmReadRetries(h) ==
  LET k == arg[h] IN
  /\ At(h, "confirm_read")
  /\ \/ status[k] = "SUCCEEDED" /\ Return(h, "ok")
     \/ status[k] \notin {"PENDING", "FAILED", "SUCCEEDED"} /\ Return(h, "error")
     \/ status[k] \in {"PENDING", "FAILED"} /\ Goto(h, "confirm_write")
  /\ UNCHANGED <<rows, world, enabled, ledger, failures>>

\* Reads the row and checks the caller and the status.
ConfirmRead(h) ==
  LET k == arg[h] IN
  /\ At(h, "confirm_read")
  /\ \/ Return(h, "error") \* confirm is false, or neither requester nor CEO/ADMIN
     \/ status[k] = "SUCCEEDED" /\ Return(h, "ok")
     \/ status[k] \notin {"PENDING", "SUCCEEDED"} /\ Return(h, "error")
     \/ status[k] = "PENDING" /\ Goto(h, "confirm_write")
  /\ UNCHANGED <<rows, world, enabled, ledger, failures>>

\* Writes CONFIRMED by row id, whatever the status has become meanwhile.
ConfirmWrite(h) ==
  LET k == arg[h] IN
  /\ At(h, "confirm_write")
  /\ SetStatus(k, "CONFIRMED")
  /\ grants' = [grants EXCEPT ![k] = @ + 1]
  /\ Goto(h, "exec_load")
  /\ UNCHANGED <<auto, effects, world, enabled, failures>>

-----------------------------------------------------------------------------
(* executeRunInternal                                                      *)

\* The feature flag is off: the row is marked FAILED whatever its status.
ExecDisabled(h) ==
  /\ At(h, "exec_load")
  /\ ~enabled
  /\ SetStatus(arg[h], "FAILED")
  /\ Return(h, "error")
  /\ UNCHANGED <<world, enabled, ledger, failures>>

Bypass(h) == mode[h] = "create"

Executable(h) == IF Bypass(h) THEN {"CONFIRMED", "RUNNING", "SUCCEEDED"} ELSE {"CONFIRMED"}

\* Reads the row again and refuses a status that may not be executed.
ExecLoad(h) ==
  LET s == status[arg[h]] IN
  /\ At(h, "exec_load")
  /\ enabled
  /\ \/ s \in Executable(h) /\ Goto(h, "exec_check")
     \/ s \notin Executable(h) /\ s = "SUCCEEDED" /\ Return(h, "ok")
     \/ s \notin Executable(h) /\ s # "SUCCEEDED" /\ Return(h, "error")
  /\ UNCHANGED <<rows, world, enabled, ledger, failures>>

\* A run of this key that already succeeded is returned instead of repeated.
ExecCheck(h) ==
  /\ At(h, "exec_check")
  /\ IF status[arg[h]] = "SUCCEEDED" THEN Return(h, "ok") ELSE Goto(h, "exec_start")
  /\ UNCHANGED <<rows, world, enabled, ledger, failures>>

ExecStart(h) ==
  /\ At(h, "exec_start")
  /\ SetStatus(arg[h], "RUNNING")
  /\ Goto(h, "exec_entity")
  /\ UNCHANGED <<world, enabled, ledger, failures>>

\* The template throws before it wrote anything: the entity, the assignee or
\* the recipient is missing, or the input does not pass its checks.
ExecRefuse(h) ==
  /\ At(h, "exec_entity")
  /\ Goto(h, "exec_fail")
  /\ UNCHANGED <<rows, world, enabled, ledger, failures>>

\* Mutant: a closed entity ends the run as if there were nothing left to do.
ExecEntitySkipsClosed(h) ==
  LET k == arg[h]
      e == EntityOf[k]
      unchanged == Kind[k] = "REASSIGN_WORK" /\ value[e] = ValueOf[k]
      skipped == unchanged \/ (Kind[k] \in RefusesClosed /\ closed[e])
  IN
  /\ At(h, "exec_entity")
  /\ \/ skipped /\ Goto(h, "exec_done")
     \/ ~skipped /\ Kind[k] = "SEND_INVOICE_REMINDER" /\ Goto(h, "exec_recent")
     \/ ~skipped /\ Kind[k] # "SEND_INVOICE_REMINDER" /\ Goto(h, "exec_apply")
  /\ UNCHANGED <<rows, world, enabled, ledger, failures>>

\* The template reads its entity: a paid invoice or a resolved incident is
\* refused, a work item already with the assignee is left as it is.
ExecEntity(h) ==
  LET k == arg[h]
      e == EntityOf[k]
      refused == Kind[k] \in RefusesClosed /\ closed[e]
      unchanged == Kind[k] = "REASSIGN_WORK" /\ value[e] = ValueOf[k]
  IN
  /\ At(h, "exec_entity")
  /\ \/ refused /\ Goto(h, "exec_fail")
     \/ unchanged /\ Goto(h, "exec_done")
     \/ ~refused /\ Kind[k] = "SEND_INVOICE_REMINDER" /\ Goto(h, "exec_recent")
     \/ ~refused /\ ~unchanged /\ Kind[k] # "SEND_INVOICE_REMINDER" /\ Goto(h, "exec_apply")
  /\ UNCHANGED <<rows, world, enabled, ledger, failures>>

\* Mutant: a reminder counts before it succeeded.
RecentRemindersUnsent(k) ==
  {j \in Keys : Kind[j] = Kind[k] /\ EntityOf[j] = EntityOf[k] /\ recent[j]}

\* Runs of this template on this entity created in the last hour that succeeded.
RecentReminders(k) ==
  {j \in Keys : /\ Kind[j] = Kind[k] /\ EntityOf[j] = EntityOf[k]
                /\ recent[j] /\ status[j] = "SUCCEEDED"}

\* A reminder of the last hour is reported back instead of sent again.
ExecRecent(h) ==
  /\ At(h, "exec_recent")
  /\ IF RecentReminders(arg[h]) # {} THEN Goto(h, "exec_done") ELSE Goto(h, "exec_apply")
  /\ UNCHANGED <<rows, world, enabled, ledger, failures>>

\* The template's own write: the reminder, the new assignee or due date, the
\* incident's ESCALATED timeline entry.
ExecApply(h) ==
  LET k == arg[h] IN
  /\ At(h, "exec_apply")
  /\ effects' = [effects EXCEPT ![k] = @ + 1]
  /\ value' = IF Kind[k] \in Rewriting
              THEN [value EXCEPT ![EntityOf[k]] = ValueOf[k]]
              ELSE value
  /\ Goto(h, "exec_done")
  /\ UNCHANGED <<rows, closed, enabled, auto, grants, failures>>

\* Mutant: a status no reader of the row knows.
ExecDoneMisspelt(h) ==
  /\ At(h, "exec_done")
  /\ SetStatus(arg[h], "SUCCESS")
  /\ Goto(h, "exec_log")
  /\ UNCHANGED <<world, enabled, ledger, failures>>

ExecDone(h) ==
  /\ At(h, "exec_done")
  /\ SetStatus(arg[h], "SUCCEEDED")
  /\ Goto(h, "exec_log")
  /\ UNCHANGED <<world, enabled, ledger, failures>>

\* FIX_ACTION_RUN_SUCCEEDED is logged inside the try block as well.
ExecLog(h) ==
  /\ At(h, "exec_log")
  /\ Return(h, "ok")
  /\ UNCHANGED <<rows, world, enabled, ledger, failures>>

\* Mutants: the catch block only throws on; it tries the template again.
ExecFailThrows(h) ==
  /\ At(h, "exec_fail")
  /\ Return(h, "error")
  /\ UNCHANGED <<rows, world, enabled, ledger, failures>>

ExecFailRetries(h) ==
  /\ At(h, "exec_fail")
  /\ Goto(h, "exec_entity")
  /\ UNCHANGED <<rows, world, enabled, ledger, failures>>

\* The catch block: marks the row FAILED and throws on.
ExecFail(h) ==
  /\ At(h, "exec_fail")
  /\ SetStatus(arg[h], "FAILED")
  /\ Return(h, "error")
  /\ UNCHANGED <<world, enabled, ledger, failures>>

-----------------------------------------------------------------------------
(* The surroundings.                                                       *)

\* The call returns to whoever made it.
Respond(h) ==
  /\ At(h, "returned")
  /\ pc' = [pc EXCEPT ![h] = "idle"]
  /\ arg' = [arg EXCEPT ![h] = SomeKey]
  /\ mode' = [mode EXCEPT ![h] = "create"]
  /\ out' = [out EXCEPT ![h] = "none"]
  /\ UNCHANGED <<rows, world, enabled, ledger, failures>>

\* The process dies: what is in the database stays, the handler is gone.
Crash(h) ==
  /\ pc[h] \notin {"idle", "returned"}
  /\ faults < MaxFaults
  /\ faults' = faults + 1
  /\ faulted' = IF pc[h] \in ExecPcs THEN faulted \cup {arg[h]} ELSE faulted
  /\ pc' = [pc EXCEPT ![h] = "idle"]
  /\ arg' = [arg EXCEPT ![h] = SomeKey]
  /\ mode' = [mode EXCEPT ![h] = "create"]
  /\ out' = [out EXCEPT ![h] = "none"]
  /\ UNCHANGED <<rows, world, enabled, ledger>>

\* A database call throws: inside the try block the catch block takes over,
\* anywhere else the call returns with the error.
DbError(h) ==
  /\ pc[h] \notin {"idle", "returned"}
  /\ faults < MaxFaults
  /\ faults' = faults + 1
  /\ faulted' = IF pc[h] \in ExecPcs \ TryPcs THEN faulted \cup {arg[h]} ELSE faulted
  /\ IF pc[h] \in TryPcs THEN Goto(h, "exec_fail") ELSE Return(h, "error")
  /\ UNCHANGED <<rows, world, enabled, ledger>>

\* The run's createdAt leaves the window of the last hour.
HourPasses(k) ==
  /\ recent[k]
  /\ recent' = [recent EXCEPT ![k] = FALSE]
  /\ UNCHANGED <<status, world, enabled, frames, ledger, failures>>

\* Users edit assignees and due dates, pay invoices and resolve incidents.
EditEntity(e, v) ==
  /\ \E k \in Keys : EntityOf[k] = e /\ Kind[k] \in Rewriting
  /\ value[e] # v
  /\ value' = [value EXCEPT ![e] = v]
  /\ UNCHANGED <<rows, closed, enabled, frames, ledger, failures>>

CloseEntity(e) ==
  /\ \E k \in Keys : EntityOf[k] = e /\ Kind[k] \in RefusesClosed
  /\ ~closed[e]
  /\ closed' = [closed EXCEPT ![e] = TRUE]
  /\ UNCHANGED <<rows, value, enabled, frames, ledger, failures>>

-----------------------------------------------------------------------------
(* The specification.                                                      *)

Step(h) ==
  \/ CreateLimit(h) \/ CreateFind(h) \/ CreateInsert(h)
  \/ ConfirmRead(h) \/ ConfirmWrite(h)
  \/ ExecDisabled(h) \/ ExecLoad(h) \/ ExecCheck(h) \/ ExecStart(h)
  \/ ExecRefuse(h) \/ ExecEntity(h) \/ ExecRecent(h) \/ ExecApply(h)
  \/ ExecDone(h) \/ ExecLog(h) \/ ExecFail(h)

Request(h) ==
  \/ \E k \in Keys, m \in {"create", "force"} : StartCreate(h, k, m)
  \/ \E k \in Keys : StartConfirm(h, k)

Fault(h) == Crash(h) \/ DbError(h)

Outside ==
  \/ \E k \in Keys : HourPasses(k)
  \/ \E e \in Entities : CloseEntity(e)
  \/ \E e \in Entities, v \in Values : EditEntity(e, v)

Next ==
  \/ \E h \in Handlers : Step(h) \/ Request(h) \/ Respond(h) \/ Fault(h)
  \/ Outside

Spec == Init /\ [][Next]_vars

\* An await resumes once the database answered: no handler stays at a round
\* trip for ever.  Requests, faults and the surroundings owe nothing.
Fairness == \A h \in Handlers : WF_vars(Step(h))

FairSpec == Spec /\ Fairness

-----------------------------------------------------------------------------
(* Properties.                                                             *)

Holding(k) == {h \in Handlers : arg[h] = k /\ pc[h] \in HoldingPcs}

\* The confirmation workflow: the template of a run is executed at most once
\* per permission, where a permission is an accepted confirmation or the one
\* an auto-executed run is created with; a handler about to execute holds one
\* that no other handler spends.
EffectsWithinGrants ==
  \A k \in Keys : effects[k] + Cardinality(Holding(k)) <= grants[k]

\* A run that needs no confirmation executes its template at most once, however
\* many requests, retries and crashes there are: only the handler whose insert
\* the unique index let through ever executes it, and nobody can confirm it.
AutoExecutedAtMostOnce == \A k \in auto : effects[k] <= 1

\* What SUCCEEDED tells the user: a due date was set, an incident escalated, a
\* reminder for that invoice sent, if not by this run then by one it was
\* deduplicated against, which may itself be long out of the window.
SucceededMeansDone ==
  \A k \in Keys : status[k] = "SUCCEEDED" =>
    CASE Kind[k] \in {"SET_DUE_DATE", "ESCALATE_INCIDENT"} -> effects[k] > 0
      [] Kind[k] = "SEND_INVOICE_REMINDER" ->
           \E j \in Keys : Kind[j] = Kind[k] /\ EntityOf[j] = EntityOf[k] /\ effects[j] > 0
      [] OTHER -> TRUE

\* A run rests in CONFIRMED or RUNNING only when the handler executing it was
\* lost; confirmRun then refuses it for ever, so nothing else may leave it so.
StuckOnlyByFault ==
  \A k \in Keys : status[k] \in {"CONFIRMED", "RUNNING"} =>
    \/ k \in faulted
    \/ \E h \in Handlers : arg[h] = k /\ pc[h] \in ExecPcs

\* Handlers that have passed assertRateLimit and may still add a run.
Creating == {h \in Handlers : pc[h] \in {"create_find", "create_insert"}}

\* assertRateLimit counts before the insert, so handlers that counted together
\* may overshoot the hourly limit, but never by more than one run each: the runs
\* of the hour and those still to come exceed it by less than the handlers.
RateLimitOvershoot ==
  Cardinality(RecentRuns) + Cardinality(Creating) + 1 <= RateLimit + Cardinality(Handlers)

Quiet(k) == \A h \in Handlers : arg[h] = k => pc[h] \notin ExecPcs \cup {"confirm_write"}

\* Once a run has an outcome and no handler is still working on it, the outcome
\* is final: no request, confirmation, retry or fault executes it again.
SettledStaysSettled ==
  [][\A k \in Keys :
       status[k] \in {"SUCCEEDED", "FAILED"} /\ Quiet(k)
       => status'[k] = status[k] /\ effects'[k] = effects[k] /\ Quiet(k)']_vars

\* Every confirmed run gets an outcome unless its handler is lost, whichever
\* handlers overwrite each other's status on the way.
ConfirmedSettles ==
  \A k \in Keys :
    status[k] \in {"CONFIRMED", "RUNNING"}
      ~> status[k] \in {"SUCCEEDED", "FAILED"} \/ k \in faulted

\* The idempotency update.md promises for fix actions: a run's template is
\* executed once, also when its confirmation arrives twice.
ExecutedAtMostOnce == \A k \in Keys : effects[k] <= 1

-----------------------------------------------------------------------------
(* The inductive invariant behind the safety properties.                   *)

\* Nothing is permitted before the row exists.
AbsentUngranted ==
  \A k \in Keys : status[k] = "ABSENT" => grants[k] = 0 /\ k \notin auto

\* A run that needs no confirmation was never PENDING, so its only permission
\* is the one it was created with.
AutoGrantedOnce ==
  \A k \in auto : status[k] \notin {"ABSENT", "PENDING"} /\ grants[k] = 1

\* Whoever confirms or executes a run found its row; whoever confirms it found
\* it PENDING.
WorkersFoundRow ==
  \A h \in Handlers :
    /\ pc[h] \in ExecPcs => status[arg[h]] # "ABSENT"
    /\ At(h, "confirm_write") => status[arg[h]] # "ABSENT" /\ arg[h] \notin auto

\* The handler that wrote CONFIRMED last is on its way to write RUNNING, and the
\* one that wrote RUNNING last is on its way to write the outcome.
OnItsWay(k, labels) == \E h \in Handlers : arg[h] = k /\ pc[h] \in labels

UnsettledHasWorker ==
  \A k \in Keys \ faulted :
    /\ status[k] = "CONFIRMED" => OnItsWay(k, {"exec_load", "exec_check", "exec_start"})
    /\ status[k] = "RUNNING" => OnItsWay(k, (TryPcs \ {"exec_log"}) \cup {"exec_fail"})

\* What every step of every handler preserves: the proofs of the workflow rest
\* on it, and none of its parts is inductive alone.
WorkflowInv ==
  /\ AbsentUngranted
  /\ AutoGrantedOnce
  /\ WorkersFoundRow
  /\ UnsettledHasWorker
  /\ EffectsWithinGrants

-----------------------------------------------------------------------------
(* The run ledger this component implements.                               *)

StageOf(s, g) ==
  CASE s = "ABSENT" -> "absent"
    [] s # "ABSENT" /\ g = 0 -> "awaiting"
    [] s # "ABSENT" /\ g > 0 -> "granted"

Stages == [k \in Keys |-> StageOf(status[k], grants[k])]

Ledger == INSTANCE FixLedger WITH stage <- Stages

\* Whatever the interleaving, the component behaves like the ledger: requests,
\* permissions and executions happen in the order the workflow prescribes.
ImplementsLedger == Ledger!Spec

=============================================================================
