-------------------------- MODULE AutopilotProofs ---------------------------
(***************************************************************************)
(* The autopilot uses the fix actions as any other caller does, so every   *)
(* theorem of FixActionsProofs holds for the runs it creates and confirms. *)
(***************************************************************************)
EXTENDS Autopilot, FiniteSetTheorems, TLAPS

FP == INSTANCE FixActionsProofs

\* The part of the types that a rollback relies on.
EntitiesTyped ==
  /\ value \in [Entities -> Values]
  /\ arg \in [Handlers -> Keys]
  /\ target \in [Runs -> Keys]
  /\ apc \in [Handlers -> Apcs]
  /\ job \in [Handlers -> Runs \cup {NoRun}]
  /\ \A h \in Handlers : apc[h] # "idle" => job[h] \in Runs
  /\ fixRun \in [Runs -> SUBSET Keys]
  /\ preview \in [Runs -> SUBSET Values]

LEMMA SomeKeyType == FA!SomeKey \in Keys
BY CalleeConstants DEF FA!FixConstants, FA!SomeKey

LEMMA EntitiesInit == Init => EntitiesTyped
BY SomeKeyType DEF Init, FA!Init, EntitiesTyped, Apcs, EvalPcs, NoRun

\* The fix actions touch entities and handlers only in these ways.
LEMMA CalleeFrame ==
  ASSUME EntitiesTyped, NEW h \in Handlers, FA!Step(h) \/ FA!DbError(h)
  PROVE  /\ arg' = arg
         /\ value' = value \/ value' = [value EXCEPT ![EntityOf[arg[h]]] = ValueOf[arg[h]]]
BY DEF FA!Step, FA!CreateLimit, FA!CreateFind, FA!CreateInsert, FA!ConfirmRead, FA!ConfirmWrite,
       FA!ExecDisabled, FA!ExecLoad, FA!ExecCheck, FA!ExecStart, FA!ExecRefuse, FA!ExecEntity,
       FA!ExecRecent, FA!ExecApply, FA!ExecDone, FA!ExecLog, FA!ExecFail, FA!DbError, FA!Goto,
       FA!Return, FA!world

LEMMA EntitiesNext == EntitiesTyped /\ [Next]_vars => EntitiesTyped'
<1> SUFFICES ASSUME EntitiesTyped, [Next]_vars PROVE EntitiesTyped'
  OBVIOUS
<1> USE SomeKeyType, CalleeConstants, AutopilotConstants DEF FA!FixConstants, EntitiesTyped, fixVars,
        runRows, apFrames, Goto, Leave, At, SetRunStatus, Apcs, EvalPcs
<1>1. CASE UNCHANGED vars
  BY <1>1 DEF vars
<1>2. ASSUME NEW h \in Handlers, FixStep(h) PROVE EntitiesTyped'
  BY <1>2, CalleeFrame DEF FixStep
<1>3. ASSUME NEW h \in Handlers, EvalStep(h) PROVE EntitiesTyped'
  <2>1. job[h] \in Runs => Previous(target[job[h]]) \subseteq Values
    BY DEF Previous
  <2>2. CASE EvalPreview(h)
    BY <2>1, <2>2 DEF EvalPreview
  <2>3. CASE EvalSkip(h) \/ EvalLink(h) \/ EvalFail(h)
    BY <2>3 DEF EvalSkip, EvalLink, EvalFail
  <2>4. CASE EvalCount(h) \/ EvalDecide(h)
    BY <2>4 DEF EvalCount, EvalDecide, FA!StartCreate, FA!StartConfirm, FA!Call, FA!world
  <2>5. CASE EvalCreated(h) \/ EvalConfirmed(h)
    BY <2>5 DEF EvalCreated, EvalConfirmed, FA!Respond, FA!world
  <2>6. QED
    BY <1>3, <2>2, <2>3, <2>4, <2>5 DEF EvalStep
<1>4. ASSUME NEW h \in Handlers, Request(h) PROVE EntitiesTyped'
  BY <1>4 DEF Request, StartEvaluate, Approve, StartRollback, HumanCreate, HumanConfirm,
     FA!StartCreate, FA!StartConfirm, FA!Call, FA!world
<1>5. ASSUME NEW h \in Handlers, RollbackWrite(h) PROVE EntitiesTyped'
  BY <1>5 DEF RollbackWrite, Restored
<1>6. ASSUME NEW h \in Handlers, ApproveDone(h) \/ HumanDone(h) PROVE EntitiesTyped'
  BY <1>6 DEF ApproveDone, HumanDone, FA!Respond, FA!world
<1>7. ASSUME NEW h \in Handlers, Fault(h) PROVE EntitiesTyped'
  BY <1>7 DEF Fault, CrashInCall, CrashOutside, EvalDbError, FA!Crash, FA!world
<1>8. ASSUME NEW r \in Runs, ApHourPasses(r) PROVE EntitiesTyped'
  BY <1>8 DEF ApHourPasses
<1>9. CASE Elsewhere
  BY <1>9 DEF Elsewhere, FA!Outside, FA!HourPasses, FA!EditEntity, FA!CloseEntity, FA!frames, FA!world
<1>10. QED
  BY <1>1, <1>2, <1>3, <1>4, <1>5, <1>6, <1>7, <1>8, <1>9 DEF Next, Finish

\* A rollback is, to the fix actions, a person editing the entity.
LEMMA RollbackEdits ==
  ASSUME EntitiesTyped, NEW h \in Handlers, RollbackWrite(h)
  PROVE  UNCHANGED FA!vars \/ \E e \in Entities, v \in Values : FA!EditEntity(e, v)
<1>1. PICK k \in fixRun[job[h]], v \in Restored(job[h]) :
        Kind[k] \in FA!Rewriting /\ value' = [value EXCEPT ![EntityOf[k]] = v]
  BY DEF RollbackWrite
<1>2. k \in Keys /\ v \in Values /\ EntityOf[k] \in Entities
  BY CalleeConstants, AutopilotConstants DEF EntitiesTyped, Restored, FA!FixConstants, RollbackWrite, At
<1>3. CASE value[EntityOf[k]] = v
  <2>1. value' = value
    BY <1>1, <1>2, <1>3 DEF EntitiesTyped
  <2>2. QED
    BY <2>1 DEF RollbackWrite, FA!vars
<1>4. CASE value[EntityOf[k]] # v
  <2>1. FA!EditEntity(EntityOf[k], v)
    BY <1>1, <1>2, <1>4 DEF FA!EditEntity, RollbackWrite, FA!rows, FA!frames, FA!ledger, FA!failures
  <2>2. QED
    BY <1>2, <2>1
<1>5. QED
  BY <1>3, <1>4

LEMMA CallerStep ==
  EntitiesTyped /\ [Next]_vars => [FA!Next]_(FA!vars)
<1> SUFFICES ASSUME EntitiesTyped, [Next]_vars PROVE [FA!Next]_(FA!vars)
  OBVIOUS
<1> USE DEF fixVars, FA!vars, runRows
<1>1. CASE UNCHANGED vars
  BY <1>1 DEF vars
<1>2. ASSUME NEW h \in Handlers, FixStep(h) PROVE [FA!Next]_(FA!vars)
  BY <1>2 DEF FixStep, FA!Next, FA!Fault
<1>3. ASSUME NEW h \in Handlers, EvalStep(h) PROVE [FA!Next]_(FA!vars)
  <2>1. CASE EvalSkip(h) \/ EvalPreview(h) \/ EvalLink(h) \/ EvalFail(h)
    BY <2>1 DEF EvalSkip, EvalPreview, EvalLink, EvalFail
  <2>2. apc[h] # "idle" => target[job[h]] \in Keys
    BY DEF EntitiesTyped
  <2>3. CASE EvalCount(h)
    BY <2>2, <2>3 DEF EvalCount, At, FA!Next, FA!Request
  <2>4. CASE EvalDecide(h)
    BY <2>2, <2>4 DEF EvalDecide, At, FA!Next, FA!Request
  <2>5. CASE EvalCreated(h) \/ EvalConfirmed(h)
    BY <2>5 DEF EvalCreated, EvalConfirmed, FA!Next
  <2>6. QED
    BY <1>3, <2>1, <2>3, <2>4, <2>5 DEF EvalStep
<1>4. ASSUME NEW h \in Handlers, Request(h) PROVE [FA!Next]_(FA!vars)
  BY <1>4 DEF Request, StartEvaluate, Approve, StartRollback, HumanCreate, HumanConfirm, FA!Next,
     FA!Request
<1>5. ASSUME NEW h \in Handlers, RollbackWrite(h) PROVE [FA!Next]_(FA!vars)
  BY <1>5, RollbackEdits DEF FA!Next, FA!Outside
<1>6. ASSUME NEW h \in Handlers, ApproveDone(h) \/ HumanDone(h) PROVE [FA!Next]_(FA!vars)
  BY <1>6 DEF ApproveDone, HumanDone, FA!Next
<1>7. ASSUME NEW h \in Handlers, Fault(h) PROVE [FA!Next]_(FA!vars)
  BY <1>7 DEF Fault, CrashInCall, CrashOutside, EvalDbError, FA!Next, FA!Fault
<1>8. ASSUME NEW r \in Runs, ApHourPasses(r) PROVE [FA!Next]_(FA!vars)
  BY <1>8 DEF ApHourPasses
<1>9. CASE Elsewhere
  BY <1>9 DEF Elsewhere, FA!Next
<1>10. QED
  BY <1>1, <1>2, <1>3, <1>4, <1>5, <1>6, <1>7, <1>8, <1>9 DEF Next, Finish

(* Every behaviour of the autopilot is, for the fix actions, one of theirs:  *)
(* it creates and confirms runs through createRun and confirmRun only, and   *)
(* its rollback is an edit of the entity.                                    *)
THEOREM AutopilotIsACaller == Spec => ImplementsFixActions
<1>1. Spec => []EntitiesTyped
  BY EntitiesInit, EntitiesNext, PTL DEF Spec
<1>2. Init => FA!Init
  BY DEF Init
<1>3. QED
  BY <1>1, <1>2, CallerStep, PTL DEF Spec, ImplementsFixActions, FA!Spec

-----------------------------------------------------------------------------
(* The theorems of FixActionsProofs, brought here.                         *)

LEMMA TheirConstants == FP!FixConstants
BY CalleeConstants DEF FA!FixConstants, FP!FixConstants, FA!IsFiniteSet, FP!IsFiniteSet, FA!Kinds, FP!Kinds

LEMMA SameInit == FA!Init <=> FP!Init
BY DEF FA!Init, FP!Init, FA!SomeKey, FP!SomeKey

LEMMA SameStep == \A h \in Handlers : FA!Step(h) => FP!Step(h)
<1> SUFFICES ASSUME NEW h \in Handlers, FA!Step(h) PROVE FP!Step(h)
  OBVIOUS
<1> USE DEF FA!At, FP!At, FA!Goto, FP!Goto, FA!Return, FP!Return, FA!SetStatus, FP!SetStatus, FA!rows,
           FP!rows, FA!world, FP!world, FA!ledger, FP!ledger, FA!failures, FP!failures
<1>0. FA!Cardinality(FA!RecentRuns) = FP!Cardinality(FP!RecentRuns)
  BY DEF FA!Cardinality, FP!Cardinality, FA!RecentRuns, FP!RecentRuns, FA!IsFiniteSet, FP!IsFiniteSet
<1>1. FA!CreateLimit(h) => FP!CreateLimit(h)
  BY <1>0 DEF FA!CreateLimit, FP!CreateLimit
<1>2. FA!CreateFind(h) => FP!CreateFind(h)
  BY DEF FA!CreateFind, FP!CreateFind
<1>3. FA!CreateInsert(h) => FP!CreateInsert(h)
  BY DEF FA!CreateInsert, FP!CreateInsert, FA!StartsPending, FP!StartsPending
<1>4. FA!ConfirmRead(h) => FP!ConfirmRead(h)
  BY DEF FA!ConfirmRead, FP!ConfirmRead
<1>5. FA!ConfirmWrite(h) => FP!ConfirmWrite(h)
  BY DEF FA!ConfirmWrite, FP!ConfirmWrite
<1>6. FA!ExecDisabled(h) => FP!ExecDisabled(h)
  BY DEF FA!ExecDisabled, FP!ExecDisabled
<1>7. FA!ExecLoad(h) => FP!ExecLoad(h)
  BY DEF FA!ExecLoad, FP!ExecLoad, FA!Executable, FP!Executable, FA!Bypass, FP!Bypass
<1>8. FA!ExecCheck(h) => FP!ExecCheck(h)
  BY DEF FA!ExecCheck, FP!ExecCheck
<1>9. FA!ExecStart(h) => FP!ExecStart(h)
  BY DEF FA!ExecStart, FP!ExecStart
<1>10. FA!ExecRefuse(h) => FP!ExecRefuse(h)
  BY DEF FA!ExecRefuse, FP!ExecRefuse
<1>11. FA!ExecEntity(h) => FP!ExecEntity(h)
  BY DEF FA!ExecEntity, FP!ExecEntity, FA!RefusesClosed, FP!RefusesClosed
<1>12. FA!ExecRecent(h) => FP!ExecRecent(h)
  BY DEF FA!ExecRecent, FP!ExecRecent, FA!RecentReminders, FP!RecentReminders
<1>13. FA!ExecApply(h) => FP!ExecApply(h)
  BY DEF FA!ExecApply, FP!ExecApply, FA!Rewriting, FP!Rewriting
<1>14. FA!ExecDone(h) => FP!ExecDone(h)
  BY DEF FA!ExecDone, FP!ExecDone
<1>15. FA!ExecLog(h) => FP!ExecLog(h)
  BY DEF FA!ExecLog, FP!ExecLog
<1>16. FA!ExecFail(h) => FP!ExecFail(h)
  BY DEF FA!ExecFail, FP!ExecFail
<1>17. QED
  BY <1>1, <1>2, <1>3, <1>4, <1>5, <1>6, <1>7, <1>8, <1>9, <1>10, <1>11, <1>12, <1>13, <1>14, <1>15,
     <1>16 DEF FA!Step, FP!Step

LEMMA SameNext == [FA!Next]_(FA!vars) => [FP!Next]_(FP!vars)
<1> SUFFICES ASSUME [FA!Next]_(FA!vars) PROVE [FP!Next]_(FP!vars)
  OBVIOUS
<1> USE DEF FA!At, FP!At, FA!Goto, FP!Goto, FA!Return, FP!Return, FA!SetStatus, FP!SetStatus, FA!Call,
           FP!Call, FA!rows, FP!rows, FA!world, FP!world, FA!ledger, FP!ledger, FA!failures,
           FP!failures, FA!frames, FP!frames,
        FA!SomeKey, FP!SomeKey
<1>1. UNCHANGED FA!vars => UNCHANGED FP!vars
  BY DEF FA!vars, FP!vars
<1>2. \A h \in Handlers : FA!Request(h) => FP!Request(h)
  BY DEF FA!Request, FP!Request, FA!StartCreate, FP!StartCreate, FA!StartConfirm, FP!StartConfirm
<1>3. \A h \in Handlers : FA!Respond(h) => FP!Respond(h)
  BY DEF FA!Respond, FP!Respond
<1>4. \A h \in Handlers : FA!Fault(h) => FP!Fault(h)
  BY DEF FA!Fault, FP!Fault, FA!Crash, FP!Crash, FA!DbError, FP!DbError, FA!ExecPcs, FP!ExecPcs,
         FA!TryPcs, FP!TryPcs, FA!HoldingPcs, FP!HoldingPcs
<1>5. FA!Outside => FP!Outside
  BY DEF FA!Outside, FP!Outside, FA!HourPasses, FP!HourPasses, FA!EditEntity, FP!EditEntity,
         FA!CloseEntity, FP!CloseEntity, FA!Rewriting, FP!Rewriting, FA!RefusesClosed, FP!RefusesClosed
<1>6. FA!Next => FP!Next
  BY <1>2, <1>3, <1>4, <1>5, SameStep DEF FA!Next, FP!Next
<1>7. QED
  BY <1>1, <1>6

\* What is proved of the fix actions holds in every behaviour of the autopilot.
LEMMA TheirTheorems == Spec => FP!Spec
<1>1. FA!Spec => FP!Spec
  BY SameInit, SameNext, PTL DEF FA!Spec, FP!Spec
<1>2. QED
  BY <1>1, AutopilotIsACaller DEF ImplementsFixActions

-----------------------------------------------------------------------------
(* Types.                                                                  *)

\* The rows and counters of the autopilot that EntitiesTyped leaves out.
RunsTyped ==
  /\ apStatus \in [Runs -> ApStatuses]
  /\ apRecent \in [Runs -> BOOLEAN]
  /\ killSwitch \in BOOLEAN
  /\ gated \in [Runs -> BOOLEAN]
  /\ human \in [Keys -> Nat]
  /\ apFaults \in 0..MaxApFaults

LEMMA CalleeTypes == Spec => []FA!TypeOK
<1>1. FP!TypeOK => FA!TypeOK
  BY DEF FP!TypeOK, FA!TypeOK, FP!Statuses, FA!Statuses, FP!Pcs, FA!Pcs, FP!CreatePcs, FA!CreatePcs,
         FP!ConfirmPcs, FA!ConfirmPcs, FP!ExecPcs, FA!ExecPcs, FP!HoldingPcs, FA!HoldingPcs,
         FP!TryPcs, FA!TryPcs
<1>2. QED
  BY <1>1, TheirConstants, TheirTheorems, FP!TypeCorrect, PTL

LEMMA RunsNext == FA!TypeOK /\ EntitiesTyped /\ RunsTyped /\ [Next]_vars => RunsTyped'
<1> SUFFICES ASSUME FA!TypeOK, EntitiesTyped, RunsTyped, [Next]_vars PROVE RunsTyped'
  OBVIOUS
<1> USE AutopilotConstants DEF RunsTyped, ApStatuses, runRows, At, SetRunStatus
<1>0. \A h \in Handlers : apc[h] # "idle" => job[h] \in Runs
  BY DEF EntitiesTyped
<1>1. ASSUME NEW h \in Handlers, EvalStep(h) PROVE RunsTyped'
  BY <1>0, <1>1 DEF EvalStep, EvalSkip, EvalPreview, EvalCount, EvalCreated, EvalLink, EvalDecide,
                    EvalConfirmed, EvalFail
<1>2. ASSUME NEW h \in Handlers, FixStep(h) PROVE RunsTyped'
  BY <1>2 DEF FixStep
<1>3. ASSUME NEW h \in Handlers, Request(h) PROVE RunsTyped'
  <2>1. ASSUME NEW r \in Runs, NEW k \in Keys, NEW high \in BOOLEAN, StartEvaluate(h, r, k, high)
        PROVE  RunsTyped'
    BY <2>1 DEF StartEvaluate, RequiresApproval
  <2>2. ASSUME NEW r \in Runs, NEW k \in Keys, Approve(h, r, k) PROVE RunsTyped'
    BY <2>2 DEF Approve
  <2>3. ASSUME NEW r \in Runs, StartRollback(h, r) PROVE RunsTyped'
    BY <2>3 DEF StartRollback
  <2>4. ASSUME NEW k \in Keys, HumanCreate(h, k) \/ HumanConfirm(h, k) PROVE RunsTyped'
    BY <2>4 DEF HumanCreate, HumanConfirm
  <2>5. QED
    BY <1>3, <2>1, <2>2, <2>3, <2>4 DEF Request
<1>4. ASSUME NEW h \in Handlers, Finish(h) PROVE RunsTyped'
  BY <1>0, <1>4 DEF Finish, ApproveDone, RollbackWrite, HumanDone
<1>5. ASSUME NEW h \in Handlers, Fault(h) PROVE RunsTyped'
  BY <1>5 DEF Fault, CrashInCall, CrashOutside, EvalDbError, FA!TypeOK
<1>6. CASE (\E r \in Runs : ApHourPasses(r)) \/ Elsewhere \/ UNCHANGED vars
  BY <1>6 DEF ApHourPasses, Elsewhere, vars
<1>7. QED
  BY <1>1, <1>2, <1>3, <1>4, <1>5, <1>6 DEF Next

\* The state the proofs below may rely on.
LEMMA Typed == Spec => [](FA!TypeOK /\ EntitiesTyped /\ RunsTyped)
<1>1. Init => RunsTyped
  BY AutopilotConstants DEF Init, RunsTyped, ApStatuses
<1>2. QED
  BY <1>1, CalleeTypes, EntitiesInit, EntitiesNext, RunsNext, PTL DEF Spec

(* The rows, counters and places of the autopilot keep their types.        *)
THEOREM TypeCorrect == Spec => []TypeOK
<1>1. FA!TypeOK /\ EntitiesTyped /\ RunsTyped => TypeOK
  BY DEF TypeOK, EntitiesTyped, RunsTyped
<1>2. QED
  BY <1>1, Typed, PTL

-----------------------------------------------------------------------------
(* A run is decided unless there was a fault.                              *)

HandlerStep(h) == EvalStep(h) \/ FixStep(h) \/ Request(h) \/ Finish(h) \/ Fault(h)

\* A step of a handler moves no other one, and takes no fault back.
LEMMA OneHandlerMoves ==
  ASSUME FA!TypeOK, EntitiesTyped, RunsTyped, NEW h \in Handlers, HandlerStep(h)
  PROVE  /\ \A g \in Handlers \ {h} :
              /\ apc'[g] = apc[g] /\ job'[g] = job[g]
              /\ pc'[g] = pc[g] /\ arg'[g] = arg[g] /\ mode'[g] = mode[g] /\ out'[g] = out[g]
         /\ faults' >= faults /\ apFaults' >= apFaults
<1> USE DEF FA!TypeOK, EntitiesTyped, RunsTyped, fixVars, apFrames, Goto, Leave
<1>1. /\ \A g \in Handlers \ {h} : apc'[g] = apc[g] /\ job'[g] = job[g]
      /\ apFaults' >= apFaults
  BY DEF HandlerStep, EvalStep, FixStep, Request, Finish, Fault, EvalSkip, EvalPreview, EvalCount,
         EvalCreated, EvalLink, EvalDecide, EvalConfirmed, EvalFail, StartEvaluate, Approve, StartRollback,
         HumanCreate, HumanConfirm, ApproveDone, RollbackWrite, HumanDone, CrashInCall, CrashOutside, EvalDbError
<1>2. CASE UNCHANGED <<pc, arg, mode, out, faults>>
  BY <1>1, <1>2
<1>3. CASE \E k \in Keys, m \in {"create", "force", "confirm"}, p \in FA!Pcs : FA!Call(h, p, k, m)
  BY <1>1, <1>3 DEF FA!Call, FA!failures
<1>4. CASE FA!Respond(h)
  BY <1>1, <1>4 DEF FA!Respond, FA!failures
<1>5. CASE FixStep(h) \/ CrashInCall(h)
  <2>1. CASE FA!Crash(h) \/ FA!DbError(h)
    BY <1>1, <2>1 DEF FA!Crash, FA!DbError, FA!Goto, FA!Return
  <2>2. CASE FA!Step(h)
    BY <1>1, <2>2 DEF FA!Step, FA!CreateLimit, FA!CreateFind, FA!CreateInsert, FA!ConfirmRead, FA!ConfirmWrite,
       FA!ExecDisabled, FA!ExecLoad, FA!ExecCheck, FA!ExecStart, FA!ExecRefuse, FA!ExecEntity,
       FA!ExecRecent, FA!ExecApply, FA!ExecDone, FA!ExecLog, FA!ExecFail, FA!Goto, FA!Return, FA!failures
  <2>3. QED
    BY <1>5, <2>1, <2>2 DEF FixStep, CrashInCall
<1>6. QED
  <2>1. CASE EvalStep(h)
    <3>1. EvalCount(h) \/ EvalDecide(h) => target[job[h]] \in Keys
      BY DEF EvalCount, EvalDecide, At
    <3>2. QED
      BY <1>2, <1>3, <1>4, <2>1, <3>1 DEF EvalStep, EvalSkip, EvalPreview, EvalCount, EvalCreated, EvalLink,
         EvalDecide, EvalConfirmed, EvalFail, FA!StartCreate, FA!StartConfirm, FA!Pcs, FA!CreatePcs, FA!ConfirmPcs
  <2>2. CASE Request(h)
    BY <1>2, <1>3, <2>2 DEF Request, StartEvaluate, Approve, StartRollback, HumanCreate, HumanConfirm,
       FA!StartCreate, FA!StartConfirm, FA!Pcs, FA!CreatePcs, FA!ConfirmPcs
  <2>3. CASE Finish(h)
    BY <1>2, <1>4, <2>3 DEF Finish, ApproveDone, RollbackWrite, HumanDone
  <2>4. CASE FixStep(h) \/ Fault(h)
    BY <1>2, <1>5, <2>4 DEF Fault, CrashOutside, EvalDbError
  <2>5. QED
    BY <2>1, <2>2, <2>3, <2>4 DEF HandlerStep

LEMMA MoreFaults ==
  ASSUME NEW a \in Nat, NEW b \in Nat, NEW c \in Nat, NEW d \in Nat, c >= a, d >= b,
         a + b > 0 \/ c = a + 1 \/ d = b + 1
  PROVE  c + d > 0
OBVIOUS

LEMMA UndecidedStep ==
  ASSUME FA!TypeOK, EntitiesTyped, RunsTyped, UndecidedOnlyByFault, NEW h \in Handlers, HandlerStep(h),
         NEW r \in Runs, apStatus'[r] = "DRY_RUN"
  PROVE  \/ \E g \in Handlers : job'[g] = r /\ apc'[g] \in EvalPcs
         \/ faults' + apFaults' > 0
<1>0. /\ \A g \in Handlers \ {h} : apc'[g] = apc[g] /\ job'[g] = job[g]
      /\ faults' >= faults /\ apFaults' >= apFaults
      /\ faults \in Nat /\ apFaults \in Nat /\ faults' \in Nat /\ apFaults' \in Nat
  <2>1. faults \in Nat /\ apFaults \in Nat
    BY CalleeConstants, AutopilotConstants DEF FA!TypeOK, RunsTyped, FA!FixConstants
  <2>2. apFaults' \in {apFaults, apFaults + 1}
    BY DEF HandlerStep, EvalStep, FixStep, Request, Finish, Fault, EvalSkip, EvalPreview, EvalCount,
       EvalCreated, EvalLink, EvalDecide, EvalConfirmed, EvalFail, StartEvaluate, Approve, StartRollback,
       HumanCreate, HumanConfirm, ApproveDone, RollbackWrite, HumanDone, CrashInCall, CrashOutside, EvalDbError
  <2>3. faults' \in {faults, faults + 1}
    <3> USE DEF fixVars
    <3>1. CASE EvalStep(h) \/ Request(h) \/ Finish(h)
      BY <3>1 DEF EvalStep, Request, Finish, EvalSkip, EvalPreview, EvalCount, EvalCreated, EvalLink, EvalDecide,
         EvalConfirmed, EvalFail, StartEvaluate, Approve, StartRollback, HumanCreate, HumanConfirm, ApproveDone,
         RollbackWrite, HumanDone, FA!Call, FA!StartCreate, FA!StartConfirm, FA!Respond, FA!failures
    <3>2. FA!Step(h) => faults' = faults
      BY DEF FA!failures, FA!Step, FA!CreateLimit, FA!CreateFind, FA!CreateInsert, FA!ConfirmRead,
         FA!ConfirmWrite, FA!ExecDisabled, FA!ExecLoad, FA!ExecCheck, FA!ExecStart, FA!ExecRefuse, FA!ExecEntity,
         FA!ExecRecent, FA!ExecApply, FA!ExecDone, FA!ExecLog, FA!ExecFail
    <3>3. CASE FixStep(h) \/ Fault(h)
      BY <3>2, <3>3 DEF FixStep, Fault, CrashInCall, CrashOutside, EvalDbError, FA!Crash, FA!DbError
    <3>4. QED
      BY <3>1, <3>3 DEF HandlerStep
  <2>4. faults' \in Nat /\ apFaults' \in Nat
    BY <2>1, <2>2, <2>3
  <2>5. QED
    BY <2>1, <2>4, OneHandlerMoves
<1>1. CASE apStatus[r] = "DRY_RUN"
  <2>1. \/ \E g \in Handlers : job[g] = r /\ apc[g] \in EvalPcs
        \/ faults + apFaults > 0
    BY <1>1 DEF UndecidedOnlyByFault
  <2>2. CASE faults + apFaults > 0
    <3>1. /\ faults' >= faults /\ apFaults' >= apFaults
          /\ faults \in Nat /\ apFaults \in Nat /\ faults' \in Nat /\ apFaults' \in Nat
      BY <1>0
    <3>2. faults' + apFaults' > 0
      BY <2>2, <3>1, MoreFaults
    <3>3. QED
      BY <3>2
  <2>3. CASE \E g \in Handlers \ {h} : job[g] = r /\ apc[g] \in EvalPcs
    BY <1>0, <2>3
  <2>4. CASE job[h] = r /\ apc[h] \in EvalPcs
    <3>1. \/ job'[h] = r /\ apc'[h] \in EvalPcs
          \/ faults' = faults + 1 \/ apFaults' = apFaults + 1
      <4> USE DEF EntitiesTyped, RunsTyped, EvalPcs, At, Goto, Leave, SetRunStatus, runRows, apFrames
      <4>1. CASE EvalStep(h)
        BY <2>4, <4>1 DEF EvalStep, EvalSkip, EvalPreview, EvalCount, EvalCreated, EvalLink, EvalDecide,
           EvalConfirmed, EvalFail
      <4>2. CASE FixStep(h) \/ Request(h) \/ Finish(h)
        BY <2>4, <4>2 DEF FixStep, Request, Finish, StartEvaluate, Approve, StartRollback, HumanCreate, HumanConfirm,
           ApproveDone, RollbackWrite, HumanDone, Idle
      <4>3. CASE Fault(h)
        BY <2>4, <4>3 DEF Fault, CrashInCall, CrashOutside, EvalDbError, FA!Crash
      <4>4. QED
        BY <4>1, <4>2, <4>3 DEF HandlerStep
    <3>2. /\ faults' >= faults /\ apFaults' >= apFaults
          /\ faults \in Nat /\ apFaults \in Nat /\ faults' \in Nat /\ apFaults' \in Nat
      BY <1>0
    <3>3. faults' = faults + 1 \/ apFaults' = apFaults + 1 => faults' + apFaults' > 0
      BY <3>2, MoreFaults
    <3>4. QED
      BY <3>1, <3>3
  <2>5. QED
    BY <2>1, <2>2, <2>3, <2>4
<1>2. CASE apStatus[r] # "DRY_RUN"
  <2>1. \E k \in Keys, high \in BOOLEAN : StartEvaluate(h, r, k, high)
    BY <1>2 DEF RunsTyped, HandlerStep, EvalStep, FixStep, Request, Finish, Fault, EvalSkip, EvalPreview, EvalCount,
       EvalCreated, EvalLink, EvalDecide, EvalConfirmed, EvalFail, StartEvaluate, Approve, StartRollback,
       HumanCreate, HumanConfirm, ApproveDone, RollbackWrite, HumanDone, CrashInCall, CrashOutside, EvalDbError,
       SetRunStatus, runRows
  <2>2. job'[h] = r /\ apc'[h] \in EvalPcs
    BY <2>1 DEF StartEvaluate, EntitiesTyped, EvalPcs
  <2>3. QED
    BY <2>2
<1>3. QED
  BY <1>1, <1>2

(* A run stays a DRY_RUN only while its evaluation goes on, or after a      *)
(* process died or a database call failed: every branch of                  *)
(* evaluateAndExecute writes an outcome.                                     *)
THEOREM Decided == Spec => []UndecidedOnlyByFault
<1>1. Init => UndecidedOnlyByFault
  BY DEF Init, UndecidedOnlyByFault
<1>2. FA!TypeOK /\ EntitiesTyped /\ RunsTyped /\ UndecidedOnlyByFault /\ [Next]_vars
        => UndecidedOnlyByFault'
  <2> SUFFICES ASSUME FA!TypeOK, EntitiesTyped, RunsTyped, UndecidedOnlyByFault, [Next]_vars
               PROVE  UndecidedOnlyByFault'
    OBVIOUS
  <2>1. ASSUME NEW h \in Handlers, HandlerStep(h) PROVE UndecidedOnlyByFault'
    BY <2>1, UndecidedStep DEF UndecidedOnlyByFault
  <2>2. CASE (\E r \in Runs : ApHourPasses(r)) \/ Elsewhere \/ UNCHANGED vars
    <3>1. UNCHANGED <<apStatus, apc, job, faults, apFaults>>
      BY <2>2 DEF ApHourPasses, Elsewhere, vars, fixVars, runRows, apFrames, FA!Outside, FA!HourPasses,
         FA!EditEntity, FA!CloseEntity, FA!failures
    <3>2. QED
      BY <3>1 DEF UndecidedOnlyByFault
  <2>3. QED
    BY <2>1, <2>2 DEF Next, HandlerStep
<1>3. QED
  BY <1>1, <1>2, Typed, PTL DEF Spec

-----------------------------------------------------------------------------
(* What EXECUTED means.                                                    *)

\* A run is linked to the fix run its evaluation created, and whoever waits for a confirmation of
\* it waits for that one.
LinkedInv ==
  /\ \A r \in Runs : fixRun[r] \subseteq {target[r]} /\ (apStatus[r] = "ABSENT" => fixRun[r] = {})
  /\ \A h \in Handlers :
       /\ apc[h] # "idle" => apStatus[job[h]] # "ABSENT"
       /\ apc[h] \in {"decide", "confirm"} => fixRun[job[h]] = {target[job[h]]}
       /\ apc[h] \in {"confirm", "approve"} /\ pc[h] # "idle" => arg[h] \in fixRun[job[h]] /\ mode[h] = "confirm"

\* The rows of a run that is under way change only by its own evaluation.
LEMMA RowsMove ==
  ASSUME FA!TypeOK, EntitiesTyped, RunsTyped, LinkedInv, NEW h \in Handlers, HandlerStep(h), NEW r \in Runs
  PROVE  /\ apStatus[r] # "ABSENT" => target'[r] = target[r] /\ gated'[r] = gated[r] /\ apStatus'[r] # "ABSENT"
         /\ fixRun'[r] = fixRun[r] \/ (EvalLink(h) /\ job[h] = r /\ fixRun'[r] = {target[r]})
         /\ apStatus'[r] = "ABSENT" => apStatus[r] = "ABSENT"
<1> USE DEF FA!TypeOK, EntitiesTyped, RunsTyped, At, SetRunStatus, runRows
<1>1. CASE EvalStep(h)
  BY <1>1 DEF EvalStep, EvalSkip, EvalPreview, EvalCount, EvalCreated, EvalLink, EvalDecide, EvalConfirmed,
     EvalFail
<1>2. CASE FixStep(h) \/ Finish(h) \/ Fault(h)
  BY <1>2 DEF FixStep, Finish, Fault, ApproveDone, RollbackWrite, HumanDone, CrashInCall, CrashOutside,
     EvalDbError
<1>3. CASE Request(h)
  BY <1>3 DEF Request, StartEvaluate, Approve, StartRollback, HumanCreate, HumanConfirm
<1>4. QED
  BY <1>1, <1>2, <1>3 DEF HandlerStep

LEMMA LinkedStep ==
  ASSUME FA!TypeOK, EntitiesTyped, EntitiesTyped', RunsTyped, LinkedInv, NEW h \in Handlers, HandlerStep(h)
  PROVE  LinkedInv'
<1>1. ASSUME NEW r \in Runs
      PROVE  /\ fixRun'[r] \subseteq {target'[r]}
             /\ apStatus'[r] = "ABSENT" => fixRun'[r] = {}
             /\ apStatus[r] # "ABSENT" => fixRun[r] \subseteq fixRun'[r]
  <2>1. EvalLink(h) /\ job[h] = r => apStatus[r] # "ABSENT"
    BY DEF EvalLink, At, LinkedInv
  <2>2. QED
    BY <2>1, RowsMove DEF LinkedInv
<1>2. ASSUME NEW g \in Handlers \ {h}
      PROVE  /\ apc'[g] # "idle" => apStatus'[job'[g]] # "ABSENT"
             /\ apc'[g] \in {"decide", "confirm"} => fixRun'[job'[g]] = {target'[job'[g]]}
             /\ apc'[g] \in {"confirm", "approve"} /\ pc'[g] # "idle" =>
                  arg'[g] \in fixRun'[job'[g]] /\ mode'[g] = "confirm"
  <2>1. /\ apc'[g] = apc[g] /\ job'[g] = job[g] /\ pc'[g] = pc[g] /\ arg'[g] = arg[g] /\ mode'[g] = mode[g]
    BY OneHandlerMoves
  <2>2. CASE apc[g] = "idle"
    BY <2>1, <2>2
  <2>3. CASE apc[g] # "idle"
    <3>1. PICK r \in Runs : r = job[g]
      BY <2>3 DEF EntitiesTyped
    <3>2. apStatus[r] # "ABSENT" /\ target'[r] = target[r] /\ apStatus'[r] # "ABSENT"
      BY <2>3, <3>1, RowsMove DEF LinkedInv
    <3>3. QED
      BY <1>1, <2>1, <2>3, <3>1, <3>2 DEF LinkedInv
  <2>4. QED
    BY <2>2, <2>3
<1>3. /\ apc'[h] # "idle" => apStatus'[job'[h]] # "ABSENT"
      /\ apc'[h] \in {"decide", "confirm"} => fixRun'[job'[h]] = {target'[job'[h]]}
      /\ apc'[h] \in {"confirm", "approve"} /\ pc'[h] # "idle" =>
           arg'[h] \in fixRun'[job'[h]] /\ mode'[h] = "confirm"
  <2>1. CASE EvalStep(h) /\ apc'[h] # "idle"
    <3>1. PICK r \in Runs : r = job[h] /\ apc[h] # "idle"
      BY <2>1 DEF EntitiesTyped, EvalStep, EvalSkip, EvalPreview, EvalCount, EvalCreated, EvalLink, EvalDecide,
         EvalConfirmed, EvalFail, At
    <3>2. /\ job'[h] = r /\ apStatus[r] # "ABSENT" /\ target'[r] = target[r] /\ apStatus'[r] # "ABSENT"
      <4>1. job'[h] = job[h]
        BY <2>1, <3>1 DEF EvalStep, EvalSkip, EvalPreview, EvalCount, EvalCreated, EvalLink, EvalDecide,
           EvalConfirmed, EvalFail, Goto, Leave, EntitiesTyped
      <4>2. QED
        BY <3>1, <4>1, RowsMove DEF LinkedInv
    <3>3. CASE EvalDecide(h)
      <4>1. /\ apc[h] = "decide" /\ apc'[h] = "confirm" /\ fixRun' = fixRun
            /\ arg'[h] = target[r] /\ mode'[h] = "confirm"
        BY <2>1, <3>1, <3>3 DEF EvalDecide, At, Goto, Leave, SetRunStatus, runRows, FA!StartConfirm, FA!Call,
           EntitiesTyped, FA!TypeOK
      <4>2. fixRun[r] = {target[r]}
        BY <3>1, <4>1 DEF LinkedInv
      <4>3. QED
        BY <3>2, <4>1, <4>2
    <3>4. CASE EvalLink(h)
      <4>1. apc'[h] = "decide" /\ fixRun'[r] = {target[r]}
        BY <3>1, <3>4 DEF EvalLink, Goto, EntitiesTyped
      <4>2. QED
        BY <3>2, <4>1
    <3>5. CASE ~EvalDecide(h) /\ ~EvalLink(h)
      <4>1. apc'[h] \notin {"decide", "confirm", "approve"}
        BY <2>1, <3>5 DEF EvalStep, EvalSkip, EvalPreview, EvalCount, EvalCreated, EvalConfirmed, EvalFail,
           Goto, Leave, EntitiesTyped
      <4>2. QED
        BY <3>2, <4>1
    <3>6. QED
      BY <3>3, <3>4, <3>5
  <2>2. CASE FixStep(h)
    <3>1. apc' = apc /\ job' = job /\ fixRun' = fixRun /\ target' = target /\ apStatus' = apStatus
      BY <2>2 DEF FixStep, runRows, apFrames
    <3>2. arg' = arg /\ mode' = mode /\ pc[h] # "idle"
      BY <2>2, CalleeFrame DEF FixStep, FA!DbError, FA!Goto, FA!Return, FA!Step, FA!CreateLimit, FA!CreateFind,
         FA!CreateInsert, FA!ConfirmRead, FA!ConfirmWrite, FA!ExecDisabled, FA!ExecLoad, FA!ExecCheck,
         FA!ExecStart, FA!ExecRefuse, FA!ExecEntity, FA!ExecRecent, FA!ExecApply, FA!ExecDone,
         FA!ExecLog, FA!ExecFail, FA!At
    <3>3. QED
      BY <3>1, <3>2 DEF LinkedInv
  <2>3. CASE Request(h)
    <3>1. ASSUME NEW r \in Runs, NEW k \in Keys, NEW high \in BOOLEAN, StartEvaluate(h, r, k, high)
          PROVE  apc'[h] = "preview" /\ apStatus'[job'[h]] # "ABSENT"
      BY <3>1 DEF StartEvaluate, EntitiesTyped, RunsTyped
    <3>2. ASSUME NEW r \in Runs, NEW k \in Keys, Approve(h, r, k)
          PROVE  /\ apc'[h] = "approve" /\ apStatus'[job'[h]] # "ABSENT"
                 /\ arg'[h] \in fixRun'[job'[h]] /\ mode'[h] = "confirm"
      BY <3>2 DEF Approve, FA!StartConfirm, FA!Call, runRows, EntitiesTyped, FA!TypeOK
    <3>3. ASSUME NEW r \in Runs, StartRollback(h, r)
          PROVE  apc'[h] = "rollback" /\ apStatus'[job'[h]] # "ABSENT"
      BY <3>3 DEF StartRollback, runRows, EntitiesTyped
    <3>4. ASSUME NEW k \in Keys, HumanCreate(h, k) \/ HumanConfirm(h, k)
          PROVE  apc'[h] = "idle"
      BY <3>4 DEF HumanCreate, HumanConfirm, Idle, apFrames
    <3>5. QED
      BY <2>3, <3>1, <3>2, <3>3, <3>4 DEF Request
  <2>4. CASE Finish(h) \/ CrashInCall(h) \/ CrashOutside(h) \/ apc'[h] = "idle"
    <3>1. apc'[h] = "idle"
      BY <2>4 DEF Finish, ApproveDone, RollbackWrite, HumanDone, CrashInCall, CrashOutside, Leave, At, apFrames,
         EntitiesTyped
    <3>2. QED
      BY <3>1
  <2>5. CASE EvalDbError(h) /\ apc'[h] # "idle"
    <3>1. apc[h] # "idle" /\ apc'[h] = "fail" /\ job' = job /\ apStatus' = apStatus
      BY <2>5 DEF EvalDbError, Goto, Leave, EvalPcs, EntitiesTyped, runRows
    <3>2. QED
      BY <3>1 DEF LinkedInv
  <2>6. QED
    BY <2>1, <2>2, <2>3, <2>4, <2>5 DEF HandlerStep, Fault
<1>4. QED
  BY <1>1, <1>2, <1>3 DEF LinkedInv
\* No step takes an effect back.
LEMMA EffectsGrow ==
  ASSUME FA!TypeOK, EntitiesTyped, NEW h \in Handlers, HandlerStep(h), NEW k \in Keys
  PROVE  effects'[k] >= effects[k] /\ effects[k] \in Nat /\ effects'[k] \in Nat
<1>0. effects[k] \in Nat
  BY DEF FA!TypeOK
<1>1. CASE effects' = effects
  BY <1>0, <1>1
<1>2. CASE FA!ExecApply(h)
  <2>1. effects' = [effects EXCEPT ![arg[h]] = @ + 1]
    BY <1>2 DEF FA!ExecApply
  <2>2. effects'[k] = effects[k] \/ effects'[k] = effects[k] + 1
    BY <2>1 DEF FA!TypeOK
  <2>3. QED
    BY <1>0, <2>2
<1>3. FA!Step(h) => FA!ExecApply(h) \/ effects' = effects
  BY DEF FA!Step, FA!CreateLimit, FA!CreateFind, FA!CreateInsert, FA!ConfirmRead, FA!ConfirmWrite,
     FA!ExecDisabled, FA!ExecLoad, FA!ExecCheck, FA!ExecStart, FA!ExecRefuse, FA!ExecEntity, FA!ExecRecent,
     FA!ExecDone, FA!ExecLog, FA!ExecFail, FA!ledger
<1>4. FA!ExecApply(h) \/ effects' = effects
  <2> USE DEF fixVars, FA!ledger
  <2>1. CASE EvalStep(h) \/ Request(h) \/ Finish(h)
    BY <2>1 DEF EvalStep, Request, Finish, EvalSkip, EvalPreview, EvalCount, EvalCreated, EvalLink, EvalDecide,
       EvalConfirmed, EvalFail, StartEvaluate, Approve, StartRollback, HumanCreate, HumanConfirm, ApproveDone,
       RollbackWrite, HumanDone, FA!Call, FA!StartCreate, FA!StartConfirm, FA!Respond
  <2>2. CASE FixStep(h) \/ Fault(h)
    BY <1>3, <2>2 DEF FixStep, Fault, CrashInCall, CrashOutside, EvalDbError, FA!Crash, FA!DbError
  <2>3. QED
    BY <2>1, <2>2 DEF HandlerStep
<1>5. QED
  BY <1>1, <1>2, <1>4

\* EXECUTED is written when a confirmation returned without an error, and by nobody else.
LEMMA ExecutedWriters ==
  ASSUME FA!TypeOK, EntitiesTyped, RunsTyped, NEW h \in Handlers, HandlerStep(h), NEW r \in Runs,
         apStatus'[r] = "EXECUTED", apStatus[r] # "EXECUTED"
  PROVE  /\ job[h] = r /\ apc[h] \in {"confirm", "approve"} /\ pc[h] = "returned" /\ out[h] = "ok"
         /\ fixRun' = fixRun /\ effects' = effects
<1> USE DEF EntitiesTyped, RunsTyped, SetRunStatus, runRows, At
<1>1. CASE EvalStep(h)
  BY <1>1 DEF EvalStep, EvalSkip, EvalPreview, EvalCount, EvalCreated, EvalLink, EvalDecide, EvalConfirmed,
     EvalFail, FA!Respond, FA!At, FA!ledger
<1>2. CASE FixStep(h) \/ Request(h) \/ Fault(h)
  BY <1>2 DEF FixStep, Request, Fault, StartEvaluate, Approve, StartRollback, HumanCreate, HumanConfirm,
     CrashInCall, CrashOutside, EvalDbError
<1>3. CASE Finish(h)
  BY <1>3 DEF Finish, ApproveDone, RollbackWrite, HumanDone, FA!Respond, FA!At, FA!ledger
<1>4. QED
  BY <1>1, <1>2, <1>3 DEF HandlerStep

LEMMA ExecutedStep ==
  ASSUME FA!TypeOK, EntitiesTyped, RunsTyped, LinkedInv, FP!DoneInv, ExecutedHasEffect,
         NEW h \in Handlers, HandlerStep(h), NEW r \in Runs, apStatus'[r] = "EXECUTED"
  PROVE  \E k \in fixRun'[r] : Kind[k] \in {"SET_DUE_DATE", "ESCALATE_INCIDENT"} => effects'[k] > 0
<1>1. CASE apStatus[r] = "EXECUTED"
  <2>1. PICK k \in fixRun[r] : Kind[k] \in {"SET_DUE_DATE", "ESCALATE_INCIDENT"} => effects[k] > 0
    BY <1>1 DEF ExecutedHasEffect
  <2>2. k \in fixRun'[r] /\ k \in Keys
    BY RowsMove DEF LinkedInv, EntitiesTyped
  <2>3. effects[k] > 0 => effects'[k] > 0
    BY <2>2, EffectsGrow
  <2>4. QED
    BY <2>1, <2>2, <2>3
<1>2. CASE apStatus[r] # "EXECUTED"
  <2>1. /\ job[h] = r /\ apc[h] \in {"confirm", "approve"} /\ pc[h] = "returned" /\ out[h] = "ok"
        /\ fixRun' = fixRun /\ effects' = effects
    BY <1>2, ExecutedWriters
  <2>2. PICK k \in fixRun[r] : k = arg[h] /\ mode[h] = "confirm"
    BY <2>1 DEF LinkedInv
  <2>3. FP!Done(k)
    BY <2>1, <2>2 DEF FP!DoneInv, FP!Reporting
  <2>4. QED
    BY <2>1, <2>2, <2>3 DEF FP!Done
<1>3. QED
  BY <1>1, <1>2

LEMMA LinkedNext ==
  FA!TypeOK /\ EntitiesTyped /\ RunsTyped /\ LinkedInv /\ [Next]_vars => LinkedInv'
<1> SUFFICES ASSUME FA!TypeOK, EntitiesTyped, RunsTyped, LinkedInv, [Next]_vars PROVE LinkedInv'
  OBVIOUS
<1>1. ASSUME NEW h \in Handlers, HandlerStep(h) PROVE LinkedInv'
  BY <1>1, EntitiesNext, LinkedStep
<1>2. CASE (\E r \in Runs : ApHourPasses(r)) \/ Elsewhere \/ UNCHANGED vars
  <2>1. UNCHANGED <<apStatus, target, fixRun, apc, job, pc, arg, mode>>
    BY <1>2 DEF ApHourPasses, Elsewhere, vars, fixVars, runRows, apFrames, FA!Outside, FA!HourPasses,
       FA!EditEntity, FA!CloseEntity, FA!frames
  <2>2. QED
    BY <2>1 DEF LinkedInv
<1>3. QED
  BY <1>1, <1>2 DEF Next, HandlerStep

\* What the links say, and what the fix actions say of success, in every state.
LEMMA Linked == Spec => [](LinkedInv /\ FP!DoneInv)
<1>1. Init => LinkedInv
  BY DEF Init, LinkedInv, FA!Init
<1>2. Spec => []LinkedInv
  BY <1>1, LinkedNext, Typed, PTL DEF Spec
<1>3. QED
  BY <1>2, TheirConstants, TheirTheorems, FP!DoneCorrect, PTL

(* An autopilot run that says EXECUTED is linked to a fix run whose action   *)
(* happened: confirmRun returned without an error for the run it is linked   *)
(* to, in the evaluation itself or in an approval.                           *)
THEOREM ExecutedTrue == Spec => []ExecutedHasEffect
<1>1. Init => ExecutedHasEffect
  BY DEF Init, ExecutedHasEffect
<1>2. FA!TypeOK /\ EntitiesTyped /\ RunsTyped /\ LinkedInv /\ FP!DoneInv /\ ExecutedHasEffect /\ [Next]_vars
        => ExecutedHasEffect'
  <2> SUFFICES ASSUME FA!TypeOK, EntitiesTyped, RunsTyped, LinkedInv, FP!DoneInv, ExecutedHasEffect, [Next]_vars
               PROVE  ExecutedHasEffect'
    OBVIOUS
  <2>1. ASSUME NEW h \in Handlers, HandlerStep(h) PROVE ExecutedHasEffect'
    BY <2>1, ExecutedStep DEF ExecutedHasEffect
  <2>2. CASE (\E r \in Runs : ApHourPasses(r)) \/ Elsewhere \/ UNCHANGED vars
    <3>1. UNCHANGED <<apStatus, fixRun, effects>>
      BY <2>2 DEF ApHourPasses, Elsewhere, vars, fixVars, runRows, FA!Outside, FA!HourPasses,
         FA!EditEntity, FA!CloseEntity, FA!ledger
    <3>2. QED
      BY <3>1 DEF ExecutedHasEffect
  <2>3. QED
    BY <2>1, <2>2 DEF Next, HandlerStep
<1>3. QED
  BY <1>1, <1>2, Linked, Typed, PTL DEF Spec
-----------------------------------------------------------------------------
(* The approval gate.                                                      *)

\* Where an evaluation still may lead to an execution nobody else asks for.
Asking == {"preview", "count", "create", "link", "decide"}

\* A handler that may still turn one person's request, or one unattended evaluation, into a
\* permission to execute k: a confirmation, a creation that executes at once, or an evaluation
\* that needs no approval.
Ticket(h, k) ==
  \/ pc[h] \in FA!ConfirmPcs /\ arg[h] = k
  \/ pc[h] \in FA!CreatePcs /\ arg[h] = k /\ mode[h] # "force" /\ k \notin NeedsConfirmation
  \/ apc[h] \in Asking /\ ~gated[job[h]] /\ target[job[h]] = k

Tickets(k) == {h \in Handlers : Ticket(h, k)}

\* An evaluation confirms only after it asked.
ConfirmsLast == \A h \in Handlers : pc[h] \in FA!ConfirmPcs => apc[h] \notin Asking

\* An executed-at-once run was asked for; any other has a request for each permission, spent or open.
Asked(k) ==
  /\ k \in auto => human[k] + Cardinality(Unattended(k)) >= 1
  /\ k \notin auto => grants[k] + Cardinality(Tickets(k)) <= human[k] + Cardinality(Unattended(k))

GateInv == ConfirmsLast /\ \A k \in Keys : Asked(k)

LEMMA GateFinite ==
  ASSUME NEW k \in Keys
  PROVE  /\ IsFiniteSet(Tickets(k)) /\ Cardinality(Tickets(k)) \in Nat
         /\ IsFiniteSet(Unattended(k)) /\ Cardinality(Unattended(k)) \in Nat
<1>1. IsFiniteSet(Handlers)
  BY CalleeConstants DEF FA!FixConstants, FA!IsFiniteSet, IsFiniteSet
<1>2. QED
  BY <1>1, AutopilotConstants, FS_Subset, FS_CardinalityType DEF Tickets, Unattended

\* The tickets of the other handlers stay what they are.
LEMMA OtherTickets ==
  ASSUME FA!TypeOK, EntitiesTyped, RunsTyped, LinkedInv, NEW h \in Handlers, HandlerStep(h),
         NEW g \in Handlers \ {h}, NEW k \in Keys
  PROVE  Ticket(g, k)' <=> Ticket(g, k)
<1>1. /\ apc'[g] = apc[g] /\ job'[g] = job[g]
      /\ pc'[g] = pc[g] /\ arg'[g] = arg[g] /\ mode'[g] = mode[g]
  BY OneHandlerMoves
<1>2. CASE apc[g] \notin Asking
  BY <1>1, <1>2 DEF Ticket
<1>3. CASE apc[g] \in Asking
  <2>1. PICK r \in Runs : r = job[g] /\ apStatus[r] # "ABSENT"
    BY <1>3 DEF Asking, EntitiesTyped, LinkedInv
  <2>2. target'[r] = target[r] /\ gated'[r] = gated[r]
    BY <2>1, RowsMove
  <2>3. QED
    BY <1>1, <2>1, <2>2 DEF Ticket
<1>4. QED
  BY <1>2, <1>3

LEMMA EvalTickets ==
  ASSUME FA!TypeOK, EntitiesTyped, RunsTyped, LinkedInv, ConfirmsLast, NEW h \in Handlers, EvalStep(h),
         NEW k \in Keys
  PROVE  /\ Ticket(h, k)' => Ticket(h, k)
         /\ grants' = grants /\ auto' = auto /\ human' = human
         /\ pc'[h] \in FA!ConfirmPcs => apc'[h] \notin Asking
<1>0. PICK r \in Runs : r = job[h] /\ apc[h] # "idle"
  BY DEF EntitiesTyped, EvalStep, EvalSkip, EvalPreview, EvalCount, EvalCreated, EvalLink, EvalDecide,
         EvalConfirmed, EvalFail, At
<1> USE DEF EntitiesTyped, FA!TypeOK, RunsTyped, At, Goto, Leave, SetRunStatus, runRows, fixVars, Asking, Ticket,
        ConfirmsLast
<1>1. CASE EvalSkip(h) \/ EvalFail(h)
  BY <1>0, <1>1 DEF EvalSkip, EvalFail
<1>2. CASE EvalPreview(h) \/ EvalLink(h)
  BY <1>0, <1>2 DEF EvalPreview, EvalLink
<1>3. CASE EvalCount(h)
  <2>1. CASE Cardinality(RecentlyExecuted) >= MaxExecutionsPerHour /\ UNCHANGED fixVars /\ Leave(h)
    BY <1>0, <1>3, <2>1 DEF EvalCount
  <2>2. CASE /\ FA!StartCreate(h, target[job[h]], IF gated[job[h]] THEN "force" ELSE "create")
             /\ Goto(h, "create") /\ UNCHANGED runRows
    <3>1. /\ pc'[h] = "create_limit" /\ arg'[h] = target[r] /\ mode'[h] = (IF gated[r] THEN "force" ELSE "create")
          /\ apc'[h] = "create" /\ job'[h] = r /\ target' = target /\ gated' = gated
          /\ grants' = grants /\ auto' = auto /\ human' = human /\ apc[h] = "count"
      BY <1>0, <1>3, <2>2 DEF EvalCount, FA!StartCreate, FA!Call, FA!ledger
    <3>2. QED
      BY <1>0, <3>1 DEF FA!ConfirmPcs
  <2>3. QED
    BY <1>3, <2>1, <2>2 DEF EvalCount
<1>4. CASE EvalCreated(h) \/ EvalConfirmed(h)
  <2>1. pc'[h] = "idle" /\ grants' = grants /\ auto' = auto /\ human' = human
    BY <1>4 DEF EvalCreated, EvalConfirmed, FA!Respond, FA!ledger
  <2>2. apc'[h] \in Asking => apc[h] \in Asking /\ job'[h] = r /\ target' = target /\ gated' = gated
    BY <1>0, <1>4 DEF EvalCreated, EvalConfirmed
  <2>3. QED
    BY <1>0, <2>1, <2>2 DEF FA!ConfirmPcs, FA!CreatePcs
<1>5. CASE EvalDecide(h)
  <2>1. CASE UNCHANGED fixVars /\ Leave(h)
    BY <1>0, <1>5, <2>1 DEF EvalDecide
  <2>2. CASE ~gated[r] /\ FA!StartConfirm(h, target[job[h]]) /\ Goto(h, "confirm")
    <3>1. /\ pc'[h] = "confirm_read" /\ arg'[h] = target[r] /\ apc'[h] = "confirm"
          /\ grants' = grants /\ auto' = auto /\ human' = human /\ apc[h] = "decide"
      BY <1>0, <1>5, <2>2 DEF EvalDecide, FA!StartConfirm, FA!Call, FA!ledger
    <3>2. QED
      BY <1>0, <2>2, <3>1 DEF FA!CreatePcs
  <2>3. QED
    BY <1>0, <1>5, <2>1, <2>2 DEF EvalDecide
<1>6. QED
  BY <1>1, <1>2, <1>3, <1>4, <1>5 DEF EvalStep
\* A step of the fix actions turns at most one ticket into a permission.
LEMMA FixTickets ==
  ASSUME FA!TypeOK, EntitiesTyped, RunsTyped, ConfirmsLast, NEW h \in Handlers, FixStep(h), NEW k \in Keys
  PROVE  /\ pc'[h] \in FA!ConfirmPcs => apc'[h] \notin Asking
         /\ human' = human
         /\ \/ /\ Ticket(h, k)' => Ticket(h, k)
               /\ grants'[k] = grants[k] /\ (k \in auto' <=> k \in auto)
            \/ /\ Ticket(h, k) /\ ~Ticket(h, k)'
               /\ grants'[k] = grants[k] + 1 /\ (k \in auto' <=> k \in auto)
            \/ Ticket(h, k) /\ k \in auto'
<1>0. /\ arg' = arg /\ mode' = mode /\ apc' = apc /\ job' = job /\ target' = target /\ gated' = gated
      /\ human' = human
  BY CalleeFrame DEF FixStep, runRows, apFrames, FA!DbError, FA!Goto, FA!Return, FA!Step, FA!CreateLimit,
     FA!CreateFind, FA!CreateInsert, FA!ConfirmRead, FA!ConfirmWrite, FA!ExecDisabled, FA!ExecLoad,
     FA!ExecCheck, FA!ExecStart, FA!ExecRefuse, FA!ExecEntity, FA!ExecRecent, FA!ExecApply, FA!ExecDone,
     FA!ExecLog, FA!ExecFail
<1> USE DEF FA!TypeOK, FA!At, FA!Goto, FA!Return, FA!ledger, FA!ConfirmPcs, FA!CreatePcs
<1>1. CASE FA!ConfirmWrite(h)
  <2>1. /\ pc[h] = "confirm_write" /\ pc'[h] = "exec_load" /\ auto' = auto
        /\ grants' = [grants EXCEPT ![arg[h]] = @ + 1]
    BY <1>1 DEF FA!ConfirmWrite
  <2>2. apc[h] \notin Asking
    BY <2>1 DEF ConfirmsLast
  <2>3. CASE arg[h] = k
    <3>1. grants'[k] = grants[k] + 1
      BY <2>1, <2>3
    <3>2. Ticket(h, k) /\ ~Ticket(h, k)'
      BY <1>0, <2>1, <2>2, <2>3 DEF Ticket
    <3>3. QED
      BY <1>0, <2>1, <3>1, <3>2
  <2>4. CASE arg[h] # k
    <3>1. grants'[k] = grants[k]
      BY <2>1, <2>4
    <3>2. Ticket(h, k)' => Ticket(h, k)
      BY <1>0, <2>1 DEF Ticket
    <3>3. QED
      BY <1>0, <2>1, <3>1, <3>2
  <2>5. QED
    BY <2>3, <2>4
<1>2. CASE FA!CreateInsert(h)
  <2>1. pc[h] = "create_insert" /\ pc'[h] \in {"returned", "exec_load"}
    BY <1>2 DEF FA!CreateInsert
  <2>2. Ticket(h, k)' => Ticket(h, k)
    BY <1>0, <2>1 DEF Ticket
  <2>3. CASE UNCHANGED FA!ledger
    BY <1>0, <2>1, <2>2, <2>3
  <2>4. CASE /\ ~FA!StartsPending(h) /\ auto' = auto \cup {arg[h]}
             /\ grants' = [grants EXCEPT ![arg[h]] = @ + 1]
    <3>1. CASE arg[h] = k
      BY <1>0, <2>1, <2>4, <3>1 DEF Ticket, FA!StartsPending
    <3>2. CASE arg[h] # k
      <4>1. grants'[k] = grants[k] /\ (k \in auto' <=> k \in auto)
        BY <2>4, <3>2
      <4>2. QED
        BY <1>0, <2>1, <2>2, <4>1
    <3>3. QED
      BY <3>1, <3>2
  <2>5. QED
    BY <1>2, <2>3, <2>4 DEF FA!CreateInsert
<1>3. CASE ~FA!ConfirmWrite(h) /\ ~FA!CreateInsert(h)
  <2>1. grants' = grants /\ auto' = auto
    BY <1>3 DEF FixStep, FA!DbError, FA!Step, FA!CreateLimit, FA!CreateFind, FA!ConfirmRead, FA!ExecDisabled,
       FA!ExecLoad, FA!ExecCheck, FA!ExecStart, FA!ExecRefuse, FA!ExecEntity, FA!ExecRecent, FA!ExecApply,
       FA!ExecDone, FA!ExecLog, FA!ExecFail
  <2>2. /\ pc'[h] \in FA!ConfirmPcs => pc[h] \in FA!ConfirmPcs
        /\ pc'[h] \in FA!CreatePcs => pc[h] \in FA!CreatePcs
    BY <1>3 DEF FixStep, FA!DbError, FA!Step, FA!CreateLimit, FA!CreateFind, FA!ConfirmRead, FA!ExecDisabled,
       FA!ExecLoad, FA!ExecCheck, FA!ExecStart, FA!ExecRefuse, FA!ExecEntity, FA!ExecRecent, FA!ExecApply,
       FA!ExecDone, FA!ExecLog, FA!ExecFail
  <2>3. Ticket(h, k)' => Ticket(h, k)
    BY <1>0, <2>2 DEF Ticket
  <2>4. QED
    BY <1>0, <2>1, <2>2, <2>3 DEF ConfirmsLast
<1>4. QED
  BY <1>1, <1>2, <1>3

\* A ticket comes with a person's request or with an evaluation of its own.
LEMMA RequestTickets ==
  ASSUME FA!TypeOK, EntitiesTyped, RunsTyped, ConfirmsLast, NEW h \in Handlers, Request(h), NEW k \in Keys
  PROVE  /\ pc'[h] \in FA!ConfirmPcs => apc'[h] \notin Asking
         /\ grants' = grants /\ auto' = auto
         /\ \/ (Ticket(h, k)' => Ticket(h, k)) /\ human'[k] = human[k]
            \/ human'[k] = human[k] + 1
            \/ /\ human'[k] = human[k]
               /\ \E r \in Runs : r \notin Unattended(k) /\ r \in Unattended(k)'
<1> USE DEF EntitiesTyped, FA!TypeOK, RunsTyped, Idle, FA!ConfirmPcs, FA!CreatePcs, Asking
<1>1. ASSUME NEW r \in Runs, NEW j \in Keys, NEW high \in BOOLEAN, StartEvaluate(h, r, j, high)
      PROVE  /\ pc'[h] \notin FA!ConfirmPcs /\ grants' = grants /\ auto' = auto /\ human'[k] = human[k]
             /\ (Ticket(h, k)' => Ticket(h, k)) \/ (r \notin Unattended(k) /\ r \in Unattended(k)')
  <2>1. /\ pc' = pc /\ pc[h] = "idle" /\ grants' = grants /\ auto' = auto /\ human' = human
        /\ job'[h] = r /\ target'[r] = j /\ apStatus[r] = "ABSENT" /\ apStatus'[r] = "DRY_RUN"
    BY <1>1 DEF StartEvaluate, fixVars
  <2>2. Ticket(h, k)' => ~gated'[r] /\ j = k
    BY <2>1 DEF Ticket
  <2>3. ~gated'[r] /\ j = k => r \notin Unattended(k) /\ r \in Unattended(k)'
    BY <2>1 DEF Unattended
  <2>4. QED
    BY <2>1, <2>2, <2>3
<1>2. ASSUME NEW r \in Runs, NEW j \in Keys, Approve(h, r, j)
      PROVE  /\ apc'[h] \notin Asking /\ grants' = grants /\ auto' = auto
             /\ ((Ticket(h, k)' => Ticket(h, k)) /\ human'[k] = human[k]) \/ human'[k] = human[k] + 1
  <2>1. /\ arg'[h] = j /\ apc'[h] = "approve" /\ pc'[h] = "confirm_read" /\ human' = [human EXCEPT ![j] = @ + 1]
        /\ grants' = grants /\ auto' = auto
    BY <1>2 DEF Approve, FA!StartConfirm, FA!Call, FA!ledger
  <2>2. CASE j = k
    BY <2>1, <2>2
  <2>3. CASE j # k
    BY <2>1, <2>3 DEF Ticket
  <2>4. QED
    BY <2>2, <2>3
<1>3. ASSUME NEW r \in Runs, StartRollback(h, r)
      PROVE  /\ apc'[h] \notin Asking /\ grants' = grants /\ auto' = auto /\ human'[k] = human[k]
             /\ Ticket(h, k)' => Ticket(h, k)
  BY <1>3 DEF StartRollback, fixVars, runRows, Ticket
<1>4. ASSUME NEW j \in Keys, HumanConfirm(h, j)
      PROVE  /\ apc'[h] \notin Asking /\ grants' = grants /\ auto' = auto
             /\ ((Ticket(h, k)' => Ticket(h, k)) /\ human'[k] = human[k]) \/ human'[k] = human[k] + 1
  <2>1. /\ arg'[h] = j /\ apc'[h] = "idle" /\ pc'[h] = "confirm_read" /\ human' = [human EXCEPT ![j] = @ + 1]
        /\ grants' = grants /\ auto' = auto
    BY <1>4 DEF HumanConfirm, FA!StartConfirm, FA!Call, FA!ledger, apFrames
  <2>2. CASE j = k
    BY <2>1, <2>2
  <2>3. CASE j # k
    BY <2>1, <2>3 DEF Ticket
  <2>4. QED
    BY <2>2, <2>3
<1>5. ASSUME NEW j \in Keys, HumanCreate(h, j)
      PROVE  /\ apc'[h] \notin Asking /\ grants' = grants /\ auto' = auto
             /\ ((Ticket(h, k)' => Ticket(h, k)) /\ human'[k] = human[k]) \/ human'[k] = human[k] + 1
  <2>1. /\ arg'[h] = j /\ apc'[h] = "idle" /\ pc'[h] = "create_limit"
        /\ human' = (IF j \in NeedsConfirmation THEN human ELSE [human EXCEPT ![j] = @ + 1])
        /\ grants' = grants /\ auto' = auto
    BY <1>5 DEF HumanCreate, FA!StartCreate, FA!Call, FA!ledger, apFrames
  <2>2. CASE j = k /\ j \notin NeedsConfirmation
    BY <2>1, <2>2
  <2>3. CASE j # k \/ j \in NeedsConfirmation
    <3>1. human'[k] = human[k]
      BY <2>1, <2>3
    <3>2. ~Ticket(h, k)'
      BY <2>1, <2>3 DEF Ticket
    <3>3. QED
      BY <2>1, <3>1, <3>2
  <2>4. QED
    BY <2>2, <2>3
<1>6. QED
  BY <1>1, <1>2, <1>3, <1>4, <1>5 DEF Request

\* The ends of a request and the faults make no ticket.
LEMMA EndTickets ==
  ASSUME FA!TypeOK, EntitiesTyped, RunsTyped, ConfirmsLast, NEW h \in Handlers, Finish(h) \/ Fault(h),
         NEW k \in Keys
  PROVE  /\ Ticket(h, k)' => Ticket(h, k)
         /\ grants' = grants /\ auto' = auto /\ human' = human
         /\ pc'[h] \in FA!ConfirmPcs => apc'[h] \notin Asking
<1> USE DEF EntitiesTyped, FA!TypeOK, RunsTyped, FA!ConfirmPcs, FA!CreatePcs, Asking, Ticket, At, Goto, Leave
<1>1. CASE ApproveDone(h) \/ HumanDone(h)
  <2>1. /\ pc'[h] = "idle" /\ apc'[h] = "idle" /\ grants' = grants /\ auto' = auto /\ human' = human
    BY <1>1 DEF ApproveDone, HumanDone, FA!Respond, FA!ledger, apFrames
  <2>2. QED
    BY <2>1
<1>2. CASE RollbackWrite(h)
  BY <1>2 DEF RollbackWrite
<1>3. CASE CrashInCall(h)
  BY <1>3 DEF CrashInCall, FA!Crash, FA!ledger
<1>4. CASE CrashOutside(h) \/ EvalDbError(h)
  BY <1>4 DEF CrashOutside, EvalDbError, fixVars
<1>5. QED
  BY <1>1, <1>2, <1>3, <1>4 DEF Finish, Fault
\* An unattended evaluation stays one.
LEMMA UnattendedGrow ==
  ASSUME FA!TypeOK, EntitiesTyped, RunsTyped, LinkedInv, NEW h \in Handlers, HandlerStep(h), NEW k \in Keys
  PROVE  Unattended(k) \subseteq Unattended(k)'
BY RowsMove DEF Unattended

\* The account of a key after a step: requests and unattended evaluations on one side, permissions
\* and tickets on the other.
LEMMA AskedStep ==
  ASSUME FA!TypeOK, EntitiesTyped, RunsTyped, RunsTyped', LinkedInv, ConfirmsLast, NEW k \in Keys, Asked(k),
         NEW h \in Handlers, HandlerStep(h)
  PROVE  Asked(k)'
<1> DEFINE t == Cardinality(Tickets(k))
           t2 == Cardinality(Tickets(k)')
           u == Cardinality(Unattended(k))
           u2 == Cardinality(Unattended(k)')
<1>1. /\ IsFiniteSet(Tickets(k)) /\ t \in Nat /\ IsFiniteSet(Unattended(k)) /\ u \in Nat
  BY GateFinite
<1>2. /\ IsFiniteSet(Tickets(k)') /\ t2 \in Nat /\ IsFiniteSet(Unattended(k)') /\ u2 \in Nat
  <2>1. IsFiniteSet(Handlers)
    BY CalleeConstants DEF FA!FixConstants, FA!IsFiniteSet, IsFiniteSet
  <2>2. Tickets(k)' \subseteq Handlers /\ Unattended(k)' \subseteq Runs
    BY DEF Tickets, Unattended
  <2>3. QED
    BY <2>1, <2>2, AutopilotConstants, FS_Subset, FS_CardinalityType
<1>3. /\ grants[k] \in Nat /\ human[k] \in Nat /\ human'[k] \in Nat
      /\ k \in auto => human[k] + u >= 1
      /\ k \notin auto => grants[k] + t <= human[k] + u
  BY DEF FA!TypeOK, RunsTyped, Asked
<1>4. u2 >= u
  BY <1>1, <1>2, UnattendedGrow, FS_Subset
<1>5. \A g \in Handlers \ {h} : g \in Tickets(k)' <=> g \in Tickets(k)
  BY OtherTickets DEF Tickets
<1>6. h \in Tickets(k)' <=> Ticket(h, k)'
  BY DEF Tickets
<1>7. h \in Tickets(k) <=> Ticket(h, k)
  BY DEF Tickets
<1>8. Tickets(k) \subseteq Handlers /\ Tickets(k)' \subseteq Handlers
  BY DEF Tickets
<1> HIDE DEF t, t2, u, u2
<1>9. SUFFICES /\ k \in auto' => human'[k] + u2 >= 1
               /\ k \notin auto' => grants'[k] + t2 <= human'[k] + u2
  BY DEF Asked, t2, u2
<1>10. CASE /\ Ticket(h, k)' => Ticket(h, k)
            /\ grants'[k] = grants[k] /\ (k \in auto' <=> k \in auto) /\ human'[k] = human[k]
  <2>1. Tickets(k)' \subseteq Tickets(k)
    BY <1>5, <1>6, <1>7, <1>8, <1>10
  <2>2. t2 <= t
    BY <1>1, <2>1, FS_Subset DEF t, t2
  <2>3. QED
    BY <1>1, <1>2, <1>3, <1>4, <1>10, <2>2
<1>11. CASE /\ grants'[k] = grants[k] /\ (k \in auto' <=> k \in auto)
            /\ \/ human'[k] = human[k] + 1
               \/ human'[k] = human[k] /\ \E r \in Runs : r \notin Unattended(k) /\ r \in Unattended(k)'
  <2>1. Tickets(k)' \subseteq Tickets(k) \cup {h}
    BY <1>5, <1>8
  <2>2. IsFiniteSet(Tickets(k) \cup {h}) /\ Cardinality(Tickets(k) \cup {h}) \in {t, t + 1}
    BY <1>1, FS_AddElement DEF t
  <2>3. t2 <= Cardinality(Tickets(k) \cup {h})
    BY <2>1, <2>2, FS_Subset DEF t2
  <2>4. t2 <= t + 1
    BY <1>1, <1>2, <2>2, <2>3
  <2>5. CASE human'[k] = human[k] + 1
    BY <1>1, <1>2, <1>3, <1>4, <1>11, <2>4, <2>5
  <2>6. CASE human'[k] = human[k] /\ \E r \in Runs : r \notin Unattended(k) /\ r \in Unattended(k)'
    <3>1. PICK r \in Runs : r \notin Unattended(k) /\ r \in Unattended(k)'
      BY <2>6
    <3>2. Unattended(k) \cup {r} \subseteq Unattended(k)'
      BY <3>1, UnattendedGrow
    <3>3. Cardinality(Unattended(k) \cup {r}) = u + 1
      BY <1>1, <3>1, FS_AddElement DEF u
    <3>4. Cardinality(Unattended(k) \cup {r}) <= u2
      BY <1>2, <3>2, FS_Subset DEF u2
    <3>5. u2 >= u + 1
      BY <3>3, <3>4
    <3>6. QED
      BY <1>1, <1>2, <1>3, <1>11, <2>4, <2>6, <3>5
  <2>7. QED
    BY <1>11, <2>5, <2>6
<1>12. CASE /\ Ticket(h, k) /\ ~Ticket(h, k)'
            /\ grants'[k] = grants[k] + 1 /\ (k \in auto' <=> k \in auto) /\ human'[k] = human[k]
  <2>1. Tickets(k)' \subseteq Tickets(k) \ {h}
    BY <1>5, <1>6, <1>8, <1>12
  <2>2. IsFiniteSet(Tickets(k) \ {h}) /\ Cardinality(Tickets(k) \ {h}) = t - 1
    BY <1>1, <1>7, <1>12, FS_RemoveElement DEF t
  <2>3. t2 <= t - 1
    BY <2>1, <2>2, FS_Subset DEF t2
  <2>4. QED
    BY <1>1, <1>2, <1>3, <1>4, <1>12, <2>3
<1>13. CASE Ticket(h, k) /\ k \in auto' /\ human'[k] = human[k]
  <2>1. Cardinality(Tickets(k) \ {h}) = t - 1 /\ Cardinality(Tickets(k) \ {h}) \in Nat
    <3>1. IsFiniteSet(Tickets(k) \ {h}) /\ Cardinality(Tickets(k) \ {h}) = t - 1
      BY <1>1, <1>7, <1>13, FS_RemoveElement DEF t
    <3>2. QED
      BY <3>1, FS_CardinalityType
  <2>2. t >= 1
    BY <1>1, <2>1
  <2>3. human[k] + u >= 1
    BY <1>1, <1>3, <2>2
  <2>4. QED
    BY <1>1, <1>2, <1>3, <1>4, <1>13, <2>3
<1>14. QED
  <2>1. CASE EvalStep(h)
    BY <1>10, <2>1, EvalTickets
  <2>2. CASE FixStep(h)
    BY <1>10, <1>12, <1>13, <2>2, FixTickets
  <2>3. CASE Request(h)
    BY <1>10, <1>11, <2>3, RequestTickets
  <2>4. CASE Finish(h) \/ Fault(h)
    BY <1>10, <2>4, EndTickets
  <2>5. QED
    BY <2>1, <2>2, <2>3, <2>4 DEF HandlerStep

LEMMA ConfirmsLastStep ==
  ASSUME FA!TypeOK, EntitiesTyped, RunsTyped, LinkedInv, ConfirmsLast, NEW h \in Handlers, HandlerStep(h)
  PROVE  ConfirmsLast'
<1>1. PICK k : k \in Keys
  BY CalleeConstants DEF FA!FixConstants
<1>2. pc'[h] \in FA!ConfirmPcs => apc'[h] \notin Asking
  BY <1>1, EvalTickets, FixTickets, RequestTickets, EndTickets DEF HandlerStep
<1>3. \A g \in Handlers \ {h} : pc'[g] = pc[g] /\ apc'[g] = apc[g]
  BY OneHandlerMoves
<1>4. QED
  BY <1>2, <1>3 DEF ConfirmsLast

LEMMA GateNext ==
  FA!TypeOK /\ EntitiesTyped /\ RunsTyped /\ LinkedInv /\ GateInv /\ [Next]_vars => GateInv'
<1> SUFFICES ASSUME FA!TypeOK, EntitiesTyped, RunsTyped, LinkedInv, GateInv, [Next]_vars PROVE GateInv'
  OBVIOUS
<1>1. ASSUME NEW h \in Handlers, HandlerStep(h) PROVE GateInv'
  BY <1>1, RunsNext, AskedStep, ConfirmsLastStep DEF GateInv
<1>2. CASE (\E r \in Runs : ApHourPasses(r)) \/ Elsewhere \/ UNCHANGED vars
  <2>1. UNCHANGED <<apStatus, target, gated, human, apc, job, pc, arg, mode, auto, grants>>
    BY <1>2 DEF ApHourPasses, Elsewhere, vars, fixVars, runRows, apFrames, FA!Outside, FA!HourPasses,
       FA!EditEntity, FA!CloseEntity, FA!frames, FA!ledger
  <2>2. \A k \in Keys : Tickets(k)' = Tickets(k) /\ Unattended(k)' = Unattended(k)
    BY <2>1 DEF Tickets, Ticket, Unattended
  <2>3. QED
    BY <2>1, <2>2 DEF GateInv, ConfirmsLast, Asked
<1>3. QED
  BY <1>1, <1>2 DEF Next, HandlerStep

LEMMA GateInit == Init => GateInv
<1> SUFFICES ASSUME Init PROVE GateInv
  OBVIOUS
<1>1. \A h \in Handlers : pc[h] = "idle" /\ apc[h] = "idle"
  BY DEF Init, FA!Init
<1>2. ASSUME NEW k \in Keys PROVE Asked(k)
  <2>1. Tickets(k) = {}
    BY <1>1 DEF Tickets, Ticket, FA!ConfirmPcs, FA!CreatePcs, Asking
  <2>2. k \notin auto /\ grants[k] = 0 /\ human[k] = 0
    BY DEF Init, FA!Init
  <2>3. Cardinality(Tickets(k)) = 0 /\ Cardinality(Unattended(k)) \in Nat
    BY <2>1, GateFinite, FS_EmptySet
  <2>4. QED
    BY <2>2, <2>3 DEF Asked
<1>3. QED
  BY <1>1, <1>2 DEF GateInv, ConfirmsLast, FA!ConfirmPcs

(* The approval gate holds, whatever the evaluations, requests, crashes and   *)
(* errors: the executions of a template never exceed the requests of people   *)
(* and the evaluations that required no approval.                             *)
THEOREM GateHolds == Spec => []ApprovalGate
<1>1. Spec => []GateInv
  <2>1. Spec => []LinkedInv
    BY Linked, PTL
  <2>2. QED
    BY <2>1, GateInit, GateNext, Typed, PTL DEF Spec
<1>2. Spec => []FP!WorkflowInv
  BY TheirConstants, TheirTheorems, FP!WorkflowCorrect, PTL
<1>3. FA!TypeOK /\ RunsTyped /\ GateInv /\ FP!TypeOK /\ FP!WorkflowInv => ApprovalGate
  <2> SUFFICES ASSUME FA!TypeOK, RunsTyped, GateInv, FP!TypeOK, FP!WorkflowInv, NEW k \in Keys
               PROVE  effects[k] <= human[k] + Cardinality(Unattended(k))
    BY DEF ApprovalGate
  <2>1. effects[k] \in Nat /\ grants[k] \in Nat /\ human[k] \in Nat
    BY DEF FA!TypeOK, RunsTyped
  <2>2. effects[k] <= grants[k]
    <3>1. FP!Cardinality(FP!Holding(k)) \in Nat
      BY TheirConstants, FP!HoldingFinite
    <3>2. effects[k] + FP!Cardinality(FP!Holding(k)) <= grants[k]
      BY DEF FP!WorkflowInv, FP!EffectsWithinGrants
    <3>3. QED
      BY <2>1, <3>1, <3>2
  <2>3. Cardinality(Tickets(k)) \in Nat /\ Cardinality(Unattended(k)) \in Nat
    BY GateFinite
  <2>4. CASE k \in auto
    <3>1. grants[k] = 1
      BY <2>4 DEF FP!WorkflowInv, FP!AutoGrantedOnce
    <3>2. human[k] + Cardinality(Unattended(k)) >= 1
      BY <2>4 DEF GateInv, Asked
    <3>3. QED
      BY <2>1, <2>2, <2>3, <3>1, <3>2
  <2>5. CASE k \notin auto
    <3>1. grants[k] + Cardinality(Tickets(k)) <= human[k] + Cardinality(Unattended(k))
      BY <2>5 DEF GateInv, Asked
    <3>2. QED
      BY <2>1, <2>2, <2>3, <3>1
  <2>6. QED
    BY <2>4, <2>5
<1>4. Spec => []FP!TypeOK
  BY TheirConstants, TheirTheorems, FP!TypeCorrect, PTL
<1>5. QED
  BY <1>1, <1>2, <1>3, <1>4, Typed, PTL
=============================================================================
