----------------------------- MODULE Autopilot ------------------------------
(***************************************************************************)
(* apps/api/src/autopilot/autopilot.service.ts on top of the fix actions.  *)
(*                                                                         *)
(* The risk engine calls evaluateAndExecute once per risk driver; one      *)
(* policy's turn of its loop is one evaluation here, and it leaves one     *)
(* autopilot run.  The variables of FixActions are shared: an evaluation   *)
(* and an approval call createRun and confirmRun, so pc[h] is the callee's *)
(* place and apc[h] the place of the autopilot code that called it.        *)
(***************************************************************************)
EXTENDS Naturals, FiniteSets

CONSTANTS
  Handlers, Keys, Entities, Values, Kind, EntityOf, ValueOf,
  NeedsConfirmation, RateLimit, MaxFaults, \* as in FixActions
  Runs,                 \* autopilot runs the policy may create
  AutoExecute,          \* the policy's autoExecute
  MaxExecutionsPerHour, \* the policy's throttle
  Unset,                \* an entity without assignee or due date
  MaxHuman,             \* bound on what people ask of one fix run
  MaxApFaults           \* bound on the faults before one in the autopilot's code

ASSUME AutopilotConstants ==
  /\ IsFiniteSet(Runs) /\ Runs # {}
  /\ AutoExecute \in BOOLEAN
  /\ MaxExecutionsPerHour \in Nat \ {0}
  /\ Unset \in Values
  /\ MaxHuman \in Nat
  /\ MaxApFaults \in Nat

VARIABLES
  status, recent, value, closed, enabled, pc, arg, mode, out, auto, grants,
  effects, faulted, faults, \* as in FixActions
  apStatus,   \* status of each autopilot run, "ABSENT" before it exists
  apRecent,   \* createdAt lies within the last hour
  fixRun,     \* fixActionRunId: at most one key
  preview,    \* the previous value its preview recorded, if it recorded one
  killSwitch, \* KILL_SWITCH_AUTOPILOT
  apc,        \* next database round trip of the autopilot code of each handler
  job,        \* the autopilot run a handler works on
  target,     \* the idempotency key each run's evaluation asks createRun for
  gated,      \* requiresApproval, as evaluated for each run
  human,      \* executions of each fix run that people asked for
  apFaults

FA == INSTANCE FixActions

ASSUME CalleeConstants == FA!FixConstants

fixVars == <<status, recent, value, closed, enabled, pc, arg, mode, out, auto,
             grants, effects, faulted, faults>>
runRows == <<apStatus, apRecent, fixRun, preview, target, gated>>
apFrames == <<apc, job>>
vars == <<status, recent, value, closed, enabled, pc, arg, mode, out, auto, grants, effects, faulted,
          faults, apStatus, apRecent, fixRun, preview, killSwitch, apc, job, target, gated, human,
          apFaults>>

ApStatuses == {"ABSENT", "DRY_RUN", "SKIPPED", "APPROVAL_REQUIRED", "EXECUTED", "FAILED"}
EvalPcs == {"preview", "count", "create", "link", "decide", "confirm", "fail"}
Apcs == {"idle", "approve", "rollback"} \cup EvalPcs

NoRun == "none"

TypeOK ==
  /\ FA!TypeOK
  /\ apStatus \in [Runs -> ApStatuses]
  /\ apRecent \in [Runs -> BOOLEAN]
  /\ fixRun \in [Runs -> SUBSET Keys]
  /\ preview \in [Runs -> SUBSET Values]
  /\ killSwitch \in BOOLEAN
  /\ apc \in [Handlers -> Apcs]
  /\ job \in [Handlers -> Runs \cup {NoRun}]
  /\ target \in [Runs -> Keys]
  /\ gated \in [Runs -> BOOLEAN]
  /\ human \in [Keys -> Nat]
  /\ apFaults \in 0..MaxApFaults

Init ==
  /\ FA!Init
  /\ apStatus = [r \in Runs |-> "ABSENT"]
  /\ apRecent = [r \in Runs |-> FALSE]
  /\ fixRun = [r \in Runs |-> {}]
  /\ preview = [r \in Runs |-> {}]
  /\ killSwitch \in BOOLEAN
  /\ apc = [h \in Handlers |-> "idle"]
  /\ job = [h \in Handlers |-> NoRun]
  /\ target = [r \in Runs |-> FA!SomeKey]
  /\ gated = [r \in Runs |-> FALSE]
  /\ human = [k \in Keys |-> 0]
  /\ apFaults = 0

-----------------------------------------------------------------------------
(* Control flow of the autopilot code.                                     *)

Idle(h) == apc[h] = "idle" /\ pc[h] = "idle"

At(h, label) == apc[h] = label

Goto(h, label) ==
  /\ apc' = [apc EXCEPT ![h] = label]
  /\ UNCHANGED job

Leave(h) ==
  /\ apc' = [apc EXCEPT ![h] = "idle"]
  /\ job' = [job EXCEPT ![h] = NoRun]

SetRunStatus(r, s) ==
  /\ apStatus' = [apStatus EXCEPT ![r] = s]
  /\ UNCHANGED <<apRecent, fixRun, preview, target, gated>>

-----------------------------------------------------------------------------
(* evaluateAndExecute, one policy                                          *)

\* riskScore >= 85 asks for an approval whatever the policy says.
RequiresApproval(high) == high \/ ~AutoExecute

\* The run is created as a DRY_RUN.  k is the idempotency key createRun will
\* compute from the policy's template and the input built for the driver.
StartEvaluate(h, r, k, high) ==
  /\ Idle(h)
  /\ apStatus[r] = "ABSENT"
  /\ apStatus' = [apStatus EXCEPT ![r] = "DRY_RUN"]
  /\ apRecent' = [apRecent EXCEPT ![r] = TRUE]
  /\ gated' = [gated EXCEPT ![r] = RequiresApproval(high)]
  /\ apc' = [apc EXCEPT ![h] = "preview"]
  /\ job' = [job EXCEPT ![h] = r]
  /\ target' = [target EXCEPT ![r] = k]
  /\ UNCHANGED <<fixVars, fixRun, preview, killSwitch, human, apFaults>>

\* The condition does not match or the risk score is below the threshold.
EvalSkip(h) ==
  /\ At(h, "preview")
  /\ SetRunStatus(job[h], "SKIPPED")
  /\ Leave(h)
  /\ UNCHANGED <<fixVars, killSwitch, human, apFaults>>

\* What the dry run of executeTemplate reports as the previous value: nothing
\* for a work item already with the assignee.
Previous(k) ==
  IF Kind[k] \in FA!Rewriting /\ ~(Kind[k] = "REASSIGN_WORK" /\ value[EntityOf[k]] = ValueOf[k])
  THEN {value[EntityOf[k]]}
  ELSE {}

\* previewRun reads the entity; its result is stored in the run.  Nobody looks
\* at the stored preview before the run is EXECUTED, so reading and storing it
\* are one step.  The dry run throws for a closed entity, and for a template,
\* assignee or recipient that is gone.
EvalPreview(h) ==
  LET r == job[h]
      k == target[r]
  IN
  /\ At(h, "preview")
  /\ \/ /\ ~(Kind[k] \in FA!RefusesClosed /\ closed[EntityOf[k]])
        /\ preview' = [preview EXCEPT ![r] = Previous(k)]
        /\ Goto(h, "count")
     \/ /\ Goto(h, "fail")
        /\ UNCHANGED preview
  /\ UNCHANGED <<fixVars, apStatus, apRecent, fixRun, target, gated, killSwitch, human, apFaults>>

RecentlyExecuted == {r \in Runs : apRecent[r] /\ apStatus[r] = "EXECUTED"}

\* Mutant: createRun is not told to leave the run PENDING.
EvalCountUngated(h) ==
  /\ At(h, "count")
  /\ Cardinality(RecentlyExecuted) < MaxExecutionsPerHour
  /\ FA!StartCreate(h, target[job[h]], "create")
  /\ Goto(h, "create")
  /\ UNCHANGED <<runRows, killSwitch, human, apFaults>>

\* The policy's throttle, then createRun, which leaves the run PENDING when an
\* approval is needed.
EvalCount(h) ==
  /\ At(h, "count")
  /\ \/ /\ Cardinality(RecentlyExecuted) >= MaxExecutionsPerHour
        /\ SetRunStatus(job[h], "SKIPPED")
        /\ Leave(h)
        /\ UNCHANGED fixVars
     \/ /\ Cardinality(RecentlyExecuted) < MaxExecutionsPerHour
        /\ FA!StartCreate(h, target[job[h]], IF gated[job[h]] THEN "force" ELSE "create")
        /\ Goto(h, "create")
        /\ UNCHANGED runRows
  /\ UNCHANGED <<killSwitch, human, apFaults>>

\* createRun returned.
EvalCreated(h) ==
  /\ At(h, "create")
  /\ FA!Respond(h)
  /\ Goto(h, IF out[h] = "ok" THEN "link" ELSE "fail")
  /\ UNCHANGED <<runRows, killSwitch, human, apFaults>>

EvalLink(h) ==
  /\ At(h, "link")
  /\ fixRun' = [fixRun EXCEPT ![job[h]] = {target[job[h]]}]
  /\ Goto(h, "decide")
  /\ UNCHANGED <<fixVars, apStatus, apRecent, preview, target, gated, killSwitch, human, apFaults>>

\* The kill switch is consulted here, after createRun.
EvalDecide(h) ==
  LET r == job[h] IN
  /\ At(h, "decide")
  /\ \/ /\ gated[r]
        /\ SetRunStatus(r, "APPROVAL_REQUIRED")
        /\ Leave(h)
        /\ UNCHANGED fixVars
     \/ /\ ~gated[r] /\ killSwitch
        /\ SetRunStatus(r, "SKIPPED")
        /\ Leave(h)
        /\ UNCHANGED fixVars
     \/ /\ ~gated[r] /\ ~killSwitch
        /\ FA!StartConfirm(h, target[job[h]])
        /\ Goto(h, "confirm")
        /\ UNCHANGED runRows
  /\ UNCHANGED <<killSwitch, human, apFaults>>

\* Mutants: the outcome of confirmRun is not looked at; its error is thrown on.
EvalConfirmedBlindly(h) ==
  /\ At(h, "confirm")
  /\ FA!Respond(h)
  /\ SetRunStatus(job[h], "EXECUTED")
  /\ Leave(h)
  /\ UNCHANGED <<killSwitch, human, apFaults>>

EvalConfirmedThrows(h) ==
  /\ At(h, "confirm")
  /\ FA!Respond(h)
  /\ IF out[h] = "ok" THEN SetRunStatus(job[h], "EXECUTED") ELSE UNCHANGED runRows
  /\ Leave(h)
  /\ UNCHANGED <<killSwitch, human, apFaults>>

\* confirmRun returned the executed run, or threw.
EvalConfirmed(h) ==
  /\ At(h, "confirm")
  /\ FA!Respond(h)
  /\ \/ /\ out[h] = "ok"
        /\ SetRunStatus(job[h], "EXECUTED")
        /\ Leave(h)
     \/ /\ out[h] = "error"
        /\ Goto(h, "fail")
        /\ UNCHANGED runRows
  /\ UNCHANGED <<killSwitch, human, apFaults>>

\* The catch block.
EvalFail(h) ==
  /\ At(h, "fail")
  /\ SetRunStatus(job[h], "FAILED")
  /\ Leave(h)
  /\ UNCHANGED <<fixVars, killSwitch, human, apFaults>>

-----------------------------------------------------------------------------
(* approveRun and rollbackRun                                              *)

\* The run is read, and refused under the kill switch, in any status but
\* APPROVAL_REQUIRED, or without a fix run; else its fix run is confirmed.
Approve(h, r, k) ==
  /\ Idle(h)
  /\ ~killSwitch
  /\ apStatus[r] = "APPROVAL_REQUIRED"
  /\ k \in fixRun[r]
  /\ human[k] < MaxHuman
  /\ FA!StartConfirm(h, k)
  /\ apc' = [apc EXCEPT ![h] = "approve"]
  /\ job' = [job EXCEPT ![h] = r]
  /\ human' = [human EXCEPT ![k] = @ + 1]
  /\ UNCHANGED <<runRows, killSwitch, apFaults>>

\* Mutant: a status of its own for approved runs.
ApproveDoneApproved(h) ==
  /\ At(h, "approve")
  /\ FA!Respond(h)
  /\ SetRunStatus(job[h], IF out[h] = "ok" THEN "APPROVED" ELSE "FAILED")
  /\ Leave(h)
  /\ UNCHANGED <<killSwitch, human, apFaults>>

\* EXECUTED is written by run id; an error of confirmRun leaves the run as is.
ApproveDone(h) ==
  /\ At(h, "approve")
  /\ FA!Respond(h)
  /\ IF out[h] = "ok" THEN SetRunStatus(job[h], "EXECUTED") ELSE UNCHANGED runRows
  /\ Leave(h)
  /\ UNCHANGED <<killSwitch, human, apFaults>>

StartRollback(h, r) ==
  /\ Idle(h)
  /\ apStatus[r] = "EXECUTED"
  /\ \A k \in fixRun[r] : Kind[k] \in FA!Rewriting
  /\ apc' = [apc EXCEPT ![h] = "rollback"]
  /\ job' = [job EXCEPT ![h] = r]
  /\ UNCHANGED <<fixVars, runRows, killSwitch, human, apFaults>>

\* A preview without a previous value reads as null.
Restored(r) == IF preview[r] = {} THEN {Unset} ELSE preview[r]

\* Mutant: the fix run is put back to PENDING as well.
RollbackWriteReopens(h) ==
  /\ At(h, "rollback")
  /\ \E k \in fixRun[job[h]], v \in Restored(job[h]) :
       /\ Kind[k] \in FA!Rewriting
       /\ value' = [value EXCEPT ![EntityOf[k]] = v]
       /\ status' = [status EXCEPT ![k] = "PENDING"]
  /\ Leave(h)
  /\ UNCHANGED <<recent, closed, enabled, pc, arg, mode, out, auto, grants, effects, faulted, faults,
                 runRows, killSwitch, human, apFaults>>

RollbackWrite(h) ==
  /\ At(h, "rollback")
  /\ \E k \in fixRun[job[h]], v \in Restored(job[h]) :
       /\ Kind[k] \in FA!Rewriting
       /\ value' = [value EXCEPT ![EntityOf[k]] = v]
  /\ Leave(h)
  /\ UNCHANGED <<status, recent, closed, enabled, pc, arg, mode, out, auto, grants, effects, faulted,
                 faults, runRows, killSwitch, human, apFaults>>

-----------------------------------------------------------------------------
(* The surroundings.                                                       *)

\* People use the fix actions directly, too; a request counts when it executes
\* without a confirmation, and each confirmation counts.
HumanCreate(h, k) ==
  /\ Idle(h)
  /\ human[k] < MaxHuman
  /\ FA!StartCreate(h, k, "create")
  /\ human' = IF k \in NeedsConfirmation THEN human ELSE [human EXCEPT ![k] = @ + 1]
  /\ UNCHANGED <<runRows, killSwitch, apFrames, apFaults>>

HumanConfirm(h, k) ==
  /\ Idle(h)
  /\ human[k] < MaxHuman
  /\ FA!StartConfirm(h, k)
  /\ human' = [human EXCEPT ![k] = @ + 1]
  /\ UNCHANGED <<runRows, killSwitch, apFrames, apFaults>>

\* A round trip or a database error of the fix actions, in any handler.
FixStep(h) ==
  /\ FA!Step(h) \/ FA!DbError(h)
  /\ UNCHANGED <<runRows, killSwitch, apFrames, human, apFaults>>

HumanDone(h) ==
  /\ At(h, "idle")
  /\ FA!Respond(h)
  /\ UNCHANGED <<runRows, killSwitch, apFrames, human, apFaults>>

\* The process dies inside a fix action, or inside the autopilot code.
CrashInCall(h) ==
  /\ FA!Crash(h)
  /\ Leave(h)
  /\ UNCHANGED <<runRows, killSwitch, human, apFaults>>

CrashOutside(h) ==
  /\ ~At(h, "idle") /\ pc[h] = "idle"
  /\ faults + apFaults < MaxApFaults
  /\ apFaults' = apFaults + 1
  /\ Leave(h)
  /\ UNCHANGED <<fixVars, runRows, killSwitch, human>>

\* A database call of the evaluation fails: the catch block takes over, and a
\* failure of the catch block itself ends the evaluation.
EvalDbError(h) ==
  /\ apc[h] \in EvalPcs /\ pc[h] = "idle"
  /\ faults + apFaults < MaxApFaults
  /\ apFaults' = apFaults + 1
  /\ IF At(h, "fail") THEN Leave(h) ELSE Goto(h, "fail")
  /\ UNCHANGED <<fixVars, runRows, killSwitch, human>>

\* The run's createdAt leaves the window of the last hour.
ApHourPasses(r) ==
  /\ apRecent[r]
  /\ apRecent' = [apRecent EXCEPT ![r] = FALSE]
  /\ UNCHANGED <<fixVars, apStatus, fixRun, preview, target, gated, killSwitch, apFrames, human, apFaults>>

Elsewhere ==
  /\ FA!Outside
  /\ UNCHANGED <<runRows, killSwitch, apFrames, human, apFaults>>

-----------------------------------------------------------------------------
(* The specification.                                                      *)

EvalStep(h) ==
  \/ EvalSkip(h) \/ EvalPreview(h) \/ EvalCount(h) \/ EvalCreated(h) \/ EvalLink(h)
  \/ EvalDecide(h) \/ EvalConfirmed(h) \/ EvalFail(h)

Request(h) ==
  \/ \E r \in Runs, k \in Keys, high \in BOOLEAN : StartEvaluate(h, r, k, high)
  \/ \E r \in Runs, k \in Keys : Approve(h, r, k)
  \/ \E r \in Runs : StartRollback(h, r)
  \/ \E k \in Keys : HumanCreate(h, k) \/ HumanConfirm(h, k)

Finish(h) == ApproveDone(h) \/ RollbackWrite(h) \/ HumanDone(h)

Fault(h) == CrashInCall(h) \/ CrashOutside(h) \/ EvalDbError(h)

Next ==
  \/ \E h \in Handlers : EvalStep(h) \/ FixStep(h) \/ Request(h) \/ Finish(h) \/ Fault(h)
  \/ \E r \in Runs : ApHourPasses(r)
  \/ Elsewhere

Spec == Init /\ [][Next]_vars

-----------------------------------------------------------------------------
(* Properties.                                                             *)

\* The autopilot uses the fix actions as any other caller does: everything
\* shown of FixActions holds for its runs.
ImplementsFixActions == FA!Spec

\* Evaluations for which no approval was required.
Unattended(k) == {r \in Runs : apStatus[r] # "ABSENT" /\ ~gated[r] /\ target[r] = k}

\* The approval gate: each execution of a template answers a person's request or
\* approval, or an evaluation of its own that required no approval; an evaluation
\* that did require one never executes anything by itself.
ApprovalGate ==
  \A k \in Keys : effects[k] <= human[k] + Cardinality(Unattended(k))

\* An autopilot run reports EXECUTED only when the action happened: its due date
\* was set or its incident escalated, by it or by whoever shared its fix run.
ExecutedHasEffect ==
  \A r \in Runs : apStatus[r] = "EXECUTED" =>
    \E k \in fixRun[r] :
      Kind[k] \in {"SET_DUE_DATE", "ESCALATE_INCIDENT"} => effects[k] > 0

\* An evaluation always decides: a run stays a DRY_RUN only while a handler works
\* on it, or after a process died or a database call failed on the way.
UndecidedOnlyByFault ==
  \A r \in Runs : apStatus[r] = "DRY_RUN" =>
    \/ \E h \in Handlers : job[h] = r /\ apc[h] \in EvalPcs
    \/ faults + apFaults > 0

\* autopilot.e2e-spec.ts:197, "kill switch blocks execution": with the switch on
\* nothing is executed that no person asked for.
KillSwitchBlocks ==
  killSwitch => \A k \in Keys : effects[k] <= human[k]

\* A rollback undoes what the run did: where the action never ran, it leaves the
\* entity alone.
RollbackUndoes ==
  [][\A h \in Handlers : RollbackWrite(h) =>
       \/ value' = value
       \/ \E k \in fixRun[job[h]] : effects[k] > 0]_vars
=============================================================================
