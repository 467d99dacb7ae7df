-------------------------- MODULE FixActionsProofs --------------------------
(* Proofs about FixActions. *)
EXTENDS FixActions, FiniteSetTheorems, TLAPS

LEMMA SomeKeyType == SomeKey \in Keys
BY FixConstants DEF SomeKey

LEMMA TypeInit == Init => TypeOK
BY FixConstants, SomeKeyType DEF Init, TypeOK, Statuses, Pcs

LEMMA TypeStep ==
  ASSUME TypeOK, NEW h \in Handlers, Step(h)
  PROVE  TypeOK'
<1> USE FixConstants DEF TypeOK, Statuses, Pcs, CreatePcs, ConfirmPcs, ExecPcs, HoldingPcs, TryPcs,
        rows, world, frames, ledger, failures, At, Goto, Return, SetStatus
<1>1. CASE CreateLimit(h)
  BY <1>1 DEF CreateLimit
<1>2. CASE CreateFind(h)
  BY <1>2 DEF CreateFind
<1>3. CASE CreateInsert(h)
  <2>1. arg[h] \in Keys
    OBVIOUS
  <2>2. CASE UNCHANGED <<rows, ledger>> /\ Return(h, "error")
    BY <1>3, <2>2 DEF CreateInsert
  <2>3. CASE /\ status' = [status EXCEPT ![arg[h]] = "PENDING"]
             /\ recent' = [recent EXCEPT ![arg[h]] = TRUE]
             /\ Return(h, "ok")
             /\ UNCHANGED ledger
    BY <1>3, <2>1, <2>3 DEF CreateInsert
  <2>4. CASE /\ status' = [status EXCEPT ![arg[h]] = "CONFIRMED"]
             /\ recent' = [recent EXCEPT ![arg[h]] = TRUE]
             /\ auto' = auto \cup {arg[h]}
             /\ grants' = [grants EXCEPT ![arg[h]] = @ + 1]
             /\ Goto(h, "exec_load")
             /\ UNCHANGED effects
    BY <1>3, <2>1, <2>4 DEF CreateInsert
  <2>5. QED
    BY <1>3, <2>2, <2>3, <2>4 DEF CreateInsert
<1>4. CASE ConfirmRead(h)
  BY <1>4 DEF ConfirmRead
<1>5. CASE ConfirmWrite(h)
  BY <1>5 DEF ConfirmWrite
<1>6. CASE ExecDisabled(h)
  BY <1>6 DEF ExecDisabled
<1>7. CASE ExecLoad(h)
  BY <1>7 DEF ExecLoad
<1>8. CASE ExecCheck(h)
  BY <1>8 DEF ExecCheck
<1>9. CASE ExecStart(h)
  BY <1>9 DEF ExecStart
<1>10. CASE ExecRefuse(h)
  BY <1>10 DEF ExecRefuse
<1>11. CASE ExecEntity(h)
  BY <1>11 DEF ExecEntity
<1>12. CASE ExecRecent(h)
  BY <1>12 DEF ExecRecent
<1>13. CASE ExecApply(h)
  BY <1>13 DEF ExecApply
<1>14. CASE ExecDone(h)
  BY <1>14 DEF ExecDone
<1>15. CASE ExecLog(h)
  BY <1>15 DEF ExecLog
<1>16. CASE ExecFail(h)
  BY <1>16 DEF ExecFail
<1>17. QED
  BY <1>1, <1>2, <1>3, <1>4, <1>5, <1>6, <1>7, <1>8, <1>9, <1>10, <1>11, <1>12, <1>13, <1>14,
     <1>15, <1>16 DEF Step

LEMMA TypeNext == TypeOK /\ [Next]_vars => TypeOK'
<1> SUFFICES ASSUME TypeOK, [Next]_vars PROVE TypeOK'
  OBVIOUS
<1> USE FixConstants, SomeKeyType DEF rows, world, frames, ledger, failures
<1>1. CASE UNCHANGED vars
  BY <1>1 DEF vars, TypeOK
<1>2. ASSUME NEW h \in Handlers, Step(h) PROVE TypeOK'
  BY <1>2, TypeStep
<1>3. ASSUME NEW h \in Handlers, Request(h) PROVE TypeOK'
  BY <1>3 DEF Request, StartCreate, StartConfirm, Call, TypeOK, Pcs, CreatePcs, ConfirmPcs
<1>4. ASSUME NEW h \in Handlers, Respond(h) PROVE TypeOK'
  BY <1>4 DEF Respond, TypeOK, Pcs
<1>5. ASSUME NEW h \in Handlers, Fault(h) PROVE TypeOK'
  BY <1>5 DEF Fault, Crash, DbError, Goto, Return, TypeOK, Pcs, ExecPcs
<1>6. CASE Outside
  <2>1. ASSUME NEW k \in Keys, HourPasses(k) PROVE TypeOK'
    BY <2>1 DEF HourPasses, TypeOK
  <2>2. ASSUME NEW e \in Entities, NEW v \in Values, EditEntity(e, v) PROVE TypeOK'
    BY <2>2 DEF EditEntity, TypeOK
  <2>3. ASSUME NEW e \in Entities, CloseEntity(e) PROVE TypeOK'
    BY <2>3 DEF CloseEntity, TypeOK
  <2>4. QED
    BY <1>6, <2>1, <2>2, <2>3 DEF Outside
<1>7. QED
  BY <1>1, <1>2, <1>3, <1>4, <1>5, <1>6 DEF Next

(* Every value of every variable is of the kind the code stores there. *)
THEOREM TypeCorrect == Spec => []TypeOK
BY TypeInit, TypeNext, PTL DEF Spec

-----------------------------------------------------------------------------
(* Executions stay within the permissions given.                           *)

LEMMA HoldingFinite ==
  ASSUME TypeOK, NEW k \in Keys
  PROVE  IsFiniteSet(Holding(k)) /\ Cardinality(Holding(k)) \in Nat
BY FixConstants, FS_Subset, FS_CardinalityType DEF Holding

\* The three ways a step can move the budget of a run.
LEMMA Budget ==
  ASSUME TypeOK, TypeOK', EffectsWithinGrants, NEW k \in Keys,
         \/ /\ Holding(k)' \subseteq Holding(k)
            /\ effects'[k] = effects[k] /\ grants'[k] = grants[k]
         \/ \E h \in Holding(k) :
              /\ Holding(k)' \subseteq Holding(k) \ {h}
              /\ effects'[k] = effects[k] + 1 /\ grants'[k] = grants[k]
         \/ \E h \in Handlers :
              /\ Holding(k)' \subseteq Holding(k) \cup {h}
              /\ effects'[k] = effects[k] /\ grants'[k] = grants[k] + 1
  PROVE  effects'[k] + Cardinality(Holding(k)') <= grants'[k]
<1> DEFINE n == Cardinality(Holding(k))
           m == Cardinality(Holding(k)')
<1>1. n \in Nat /\ IsFiniteSet(Holding(k)) /\ m \in Nat /\ IsFiniteSet(Holding(k)')
  <2>1. IsFiniteSet(Holding(k)) /\ n \in Nat
    BY HoldingFinite
  <2>2. IsFiniteSet(Holding(k)') /\ m \in Nat
    <3>1. Holding(k)' \subseteq Handlers
      BY DEF Holding
    <3>2. QED
      BY <3>1, FixConstants, FS_Subset, FS_CardinalityType
  <2>3. QED
    BY <2>1, <2>2
<1>2. effects[k] + n <= grants[k] /\ effects[k] \in Nat /\ grants[k] \in Nat
  BY DEF EffectsWithinGrants, TypeOK
<1>3. CASE /\ Holding(k)' \subseteq Holding(k)
           /\ effects'[k] = effects[k] /\ grants'[k] = grants[k]
  <2>1. m <= n
    BY <1>1, <1>3, FS_Subset
  <2>2. QED
    BY <1>1, <1>2, <1>3, <2>1
<1>4. ASSUME NEW h \in Holding(k),
             Holding(k)' \subseteq Holding(k) \ {h},
             effects'[k] = effects[k] + 1, grants'[k] = grants[k]
      PROVE  effects'[k] + m <= grants'[k]
  <2>1. IsFiniteSet(Holding(k) \ {h}) /\ Cardinality(Holding(k) \ {h}) = n - 1
    BY <1>1, FS_RemoveElement
  <2>2. m <= n - 1
    BY <1>4, <2>1, FS_Subset
  <2>3. QED
    BY <1>1, <1>2, <1>4, <2>2
<1>5. ASSUME NEW h \in Handlers,
             Holding(k)' \subseteq Holding(k) \cup {h},
             effects'[k] = effects[k], grants'[k] = grants[k] + 1
      PROVE  effects'[k] + m <= grants'[k]
  <2>1. /\ IsFiniteSet(Holding(k) \cup {h})
        /\ Cardinality(Holding(k) \cup {h}) = IF h \in Holding(k) THEN n ELSE n + 1
    BY <1>1, FS_AddElement
  <2>2. m <= Cardinality(Holding(k) \cup {h}) /\ Cardinality(Holding(k) \cup {h}) \in Nat
    BY <1>5, <2>1, FS_Subset, FS_CardinalityType
  <2>3. QED
    BY <1>1, <1>2, <1>5, <2>1, <2>2
<1>6. QED
  BY <1>3, <1>4, <1>5

\* A round trip moves only the handler it belongs to.
LEMMA StepFrame ==
  ASSUME TypeOK, NEW h \in Handlers, Step(h)
  PROVE  /\ UNCHANGED <<arg, mode, closed, enabled, faulted, faults>>
         /\ \A g \in Handlers \ {h} : pc'[g] = pc[g]
BY DEF Step, CreateLimit, CreateFind, CreateInsert, ConfirmRead, ConfirmWrite, ExecDisabled,
       ExecLoad, ExecCheck, ExecStart, ExecRefuse, ExecEntity, ExecRecent, ExecApply, ExecDone,
       ExecLog, ExecFail, Goto, Return, SetStatus, TypeOK, rows, world, ledger, failures

\* Only three round trips touch the ledger or take up a permission.
LEMMA LedgerFrame ==
  ASSUME TypeOK, NEW h \in Handlers, Step(h),
         ~ConfirmWrite(h), ~ExecApply(h), ~(CreateInsert(h) /\ ~UNCHANGED ledger)
  PROVE  /\ UNCHANGED <<auto, grants, effects>>
         /\ pc'[h] \in HoldingPcs => pc[h] \in HoldingPcs
BY DEF Step, CreateLimit, CreateFind, CreateInsert, ConfirmRead, ExecDisabled,
       ExecLoad, ExecCheck, ExecStart, ExecRefuse, ExecEntity, ExecRecent, ExecDone,
       ExecLog, ExecFail, At, Goto, Return, TypeOK, ledger, HoldingPcs

LEMMA EffectsStep ==
  ASSUME TypeOK, TypeOK', EffectsWithinGrants, [Next]_vars
  PROVE  EffectsWithinGrants'
<1> SUFFICES ASSUME NEW k \in Keys
             PROVE  effects'[k] + Cardinality(Holding(k)') <= grants'[k]
  BY DEF EffectsWithinGrants
<1> DEFINE Keeps == /\ Holding(k)' \subseteq Holding(k)
                    /\ effects'[k] = effects[k] /\ grants'[k] = grants[k]
<1>1. CASE Keeps
  BY <1>1, Budget
<1>2. ASSUME NEW h \in Handlers,
             \/ ConfirmWrite(h)
             \/ CreateInsert(h) /\ ~UNCHANGED ledger
      PROVE  effects'[k] + Cardinality(Holding(k)') <= grants'[k]
  <2>1. /\ arg' = arg /\ effects' = effects
        /\ pc' = [pc EXCEPT ![h] = "exec_load"]
        /\ grants' = [grants EXCEPT ![arg[h]] = @ + 1]
    BY <1>2 DEF ConfirmWrite, CreateInsert, Goto, Return, ledger
  <2>2. CASE arg[h] = k
    <3>1. grants'[k] = grants[k] + 1 /\ effects'[k] = effects[k]
      BY <2>1, <2>2 DEF TypeOK
    <3>2. Holding(k)' \subseteq Holding(k) \cup {h}
      BY <2>1 DEF Holding, TypeOK
    <3>3. QED
      BY <3>1, <3>2, Budget
  <2>3. CASE arg[h] # k
    <3>1. Keeps
      BY <2>1, <2>3 DEF Holding, TypeOK
    <3>2. QED
      BY <3>1, Budget
  <2>4. QED
    BY <2>2, <2>3
<1>3. ASSUME NEW h \in Handlers, ExecApply(h)
      PROVE  effects'[k] + Cardinality(Holding(k)') <= grants'[k]
  <2>1. /\ arg' = arg /\ grants' = grants
        /\ pc[h] = "exec_apply" /\ pc' = [pc EXCEPT ![h] = "exec_done"]
        /\ effects' = [effects EXCEPT ![arg[h]] = @ + 1]
    BY <1>3 DEF ExecApply, Goto, At
  <2>2. CASE arg[h] = k
    <3>1. effects'[k] = effects[k] + 1 /\ grants'[k] = grants[k]
      BY <2>1, <2>2 DEF TypeOK
    <3>2. h \in Holding(k) /\ Holding(k)' \subseteq Holding(k) \ {h}
      BY <2>1, <2>2 DEF Holding, HoldingPcs, TypeOK
    <3>3. QED
      BY <3>1, <3>2, Budget
  <2>3. CASE arg[h] # k
    <3>1. Keeps
      BY <2>1, <2>3 DEF Holding, HoldingPcs, TypeOK
    <3>2. QED
      BY <3>1, Budget
  <2>4. QED
    BY <2>2, <2>3
<1>4. ASSUME NEW h \in Handlers, Step(h),
             ~ConfirmWrite(h), ~ExecApply(h), ~(CreateInsert(h) /\ ~UNCHANGED ledger)
      PROVE  Keeps
  BY <1>4, StepFrame, LedgerFrame DEF Holding
<1>5. ASSUME NEW h \in Handlers, Request(h) \/ Respond(h) \/ Fault(h)
      PROVE  Keeps
  BY <1>5 DEF Request, StartCreate, StartConfirm, Call, Respond, Fault, Crash, DbError, Goto, Return,
              TryPcs, Holding, HoldingPcs, TypeOK, ledger
<1>6. CASE Outside
  BY <1>1, <1>6 DEF Outside, HourPasses, EditEntity, CloseEntity, frames, ledger, Holding
<1>7. CASE UNCHANGED vars
  BY <1>1, <1>7 DEF vars, Holding
<1>8. QED
  BY <1>1, <1>2, <1>3, <1>4, <1>5, <1>6, <1>7 DEF Next

-----------------------------------------------------------------------------
(* The rest of the workflow invariant.                                     *)

RowsInv == AbsentUngranted /\ AutoGrantedOnce /\ WorkersFoundRow

LEMMA RowsStep ==
  ASSUME TypeOK, TypeOK', RowsInv, NEW h \in Handlers, Step(h)
  PROVE  RowsInv'
<1> USE DEF RowsInv, AbsentUngranted, AutoGrantedOnce, WorkersFoundRow, TypeOK, ExecPcs, HoldingPcs,
        TryPcs, rows, ledger, At, Goto, Return, SetStatus
<1>1. CASE CreateLimit(h)
  BY <1>1 DEF CreateLimit
<1>2. CASE CreateFind(h)
  BY <1>2 DEF CreateFind
<1>3. CASE CreateInsert(h)
  BY <1>3 DEF CreateInsert
<1>4. CASE ConfirmRead(h)
  BY <1>4 DEF ConfirmRead
<1>5. CASE ConfirmWrite(h)
  BY <1>5 DEF ConfirmWrite
<1>6. CASE ExecDisabled(h)
  BY <1>6 DEF ExecDisabled
<1>7. CASE ExecLoad(h)
  BY <1>7 DEF ExecLoad
<1>8. CASE ExecCheck(h)
  BY <1>8 DEF ExecCheck
<1>9. CASE ExecStart(h)
  BY <1>9 DEF ExecStart
<1>10. CASE ExecRefuse(h)
  BY <1>10 DEF ExecRefuse
<1>11. CASE ExecEntity(h)
  BY <1>11 DEF ExecEntity
<1>12. CASE ExecRecent(h)
  BY <1>12 DEF ExecRecent
<1>13. CASE ExecApply(h)
  BY <1>13 DEF ExecApply
<1>14. CASE ExecDone(h)
  BY <1>14 DEF ExecDone
<1>15. CASE ExecLog(h)
  BY <1>15 DEF ExecLog
<1>16. CASE ExecFail(h)
  BY <1>16 DEF ExecFail
<1>17. QED
  BY <1>1, <1>2, <1>3, <1>4, <1>5, <1>6, <1>7, <1>8, <1>9, <1>10, <1>11, <1>12, <1>13, <1>14,
     <1>15, <1>16 DEF Step

\* While a handler has not written an outcome it stays the worker of its run.
LEMMA WorkerStep ==
  ASSUME TypeOK, TypeOK', RowsInv, UnsettledHasWorker, NEW h \in Handlers, Step(h)
  PROVE  UnsettledHasWorker'
<1> USE DEF TypeOK, ExecPcs, HoldingPcs, TryPcs, rows, failures, At, Goto, Return, SetStatus,
        UnsettledHasWorker, OnItsWay
<1>1. CASE CreateLimit(h)
  BY <1>1 DEF CreateLimit
<1>2. CASE CreateFind(h)
  BY <1>2 DEF CreateFind
<1>3. CASE CreateInsert(h)
  BY <1>3 DEF CreateInsert
<1>4. CASE ConfirmRead(h)
  BY <1>4 DEF ConfirmRead
<1>5. CASE ConfirmWrite(h)
  BY <1>5 DEF ConfirmWrite
<1>6. CASE ExecDisabled(h)
  BY <1>6 DEF ExecDisabled
<1>7. CASE ExecLoad(h)
  BY <1>7 DEF ExecLoad, Executable
<1>8. CASE ExecCheck(h)
  BY <1>8 DEF ExecCheck
<1>9. CASE ExecStart(h)
  BY <1>9 DEF ExecStart
<1>10. CASE ExecRefuse(h)
  BY <1>10 DEF ExecRefuse
<1>11. CASE ExecEntity(h)
  BY <1>11 DEF ExecEntity
<1>12. CASE ExecRecent(h)
  BY <1>12 DEF ExecRecent
<1>13. CASE ExecApply(h)
  BY <1>13 DEF ExecApply
<1>14. CASE ExecDone(h)
  BY <1>14 DEF ExecDone
<1>15. CASE ExecLog(h)
  BY <1>15 DEF ExecLog
<1>16. CASE ExecFail(h)
  BY <1>16 DEF ExecFail
<1>17. QED
  BY <1>1, <1>2, <1>3, <1>4, <1>5, <1>6, <1>7, <1>8, <1>9, <1>10, <1>11, <1>12, <1>13, <1>14,
     <1>15, <1>16 DEF Step

LEMMA WorkflowInit == Init => WorkflowInv
<1> SUFFICES ASSUME Init PROVE WorkflowInv
  OBVIOUS
<1>1. \A k \in Keys : Holding(k) = {}
  BY DEF Init, Holding, HoldingPcs
<1>2. EffectsWithinGrants
  BY <1>1, FS_EmptySet DEF Init, EffectsWithinGrants
<1>3. AbsentUngranted /\ AutoGrantedOnce /\ WorkersFoundRow /\ UnsettledHasWorker
  BY DEF Init, AbsentUngranted, AutoGrantedOnce, WorkersFoundRow, UnsettledHasWorker, At,
         ExecPcs, HoldingPcs, TryPcs
<1>4. QED
  BY <1>2, <1>3 DEF WorkflowInv

LEMMA WorkflowNext == TypeOK /\ WorkflowInv /\ [Next]_vars => WorkflowInv'
<1> SUFFICES ASSUME TypeOK, WorkflowInv, [Next]_vars PROVE WorkflowInv'
  OBVIOUS
<1>1. TypeOK'
  BY TypeNext
<1>2. EffectsWithinGrants'
  BY <1>1, EffectsStep DEF WorkflowInv
<1>3. ASSUME NEW h \in Handlers, Step(h) PROVE RowsInv' /\ UnsettledHasWorker'
  BY <1>1, <1>3, RowsStep, WorkerStep DEF WorkflowInv, RowsInv
<1>4. ASSUME NEW h \in Handlers, Request(h) PROVE RowsInv' /\ UnsettledHasWorker'
  BY <1>1, <1>4 DEF Request, StartCreate, StartConfirm, Call, At, rows, ledger, failures, WorkflowInv, RowsInv,
     AbsentUngranted, AutoGrantedOnce, WorkersFoundRow, UnsettledHasWorker, OnItsWay, TypeOK, ExecPcs,
     HoldingPcs, TryPcs
<1>5. ASSUME NEW h \in Handlers, Respond(h) PROVE RowsInv' /\ UnsettledHasWorker'
  BY <1>1, <1>5 DEF Respond, At, rows, ledger, failures, WorkflowInv, RowsInv,
     AbsentUngranted, AutoGrantedOnce, WorkersFoundRow, UnsettledHasWorker, OnItsWay, TypeOK, ExecPcs,
     HoldingPcs, TryPcs
<1>6. ASSUME NEW h \in Handlers, Crash(h) PROVE RowsInv' /\ UnsettledHasWorker'
  BY <1>1, <1>6 DEF Crash, At, rows, ledger, WorkflowInv, RowsInv,
     AbsentUngranted, AutoGrantedOnce, WorkersFoundRow, UnsettledHasWorker, OnItsWay, TypeOK, ExecPcs,
     HoldingPcs, TryPcs
<1>7. ASSUME NEW h \in Handlers, DbError(h) PROVE RowsInv' /\ UnsettledHasWorker'
  BY <1>1, <1>7 DEF DbError, Goto, Return, At, rows, ledger, WorkflowInv, RowsInv,
     AbsentUngranted, AutoGrantedOnce, WorkersFoundRow, UnsettledHasWorker, OnItsWay, TypeOK, ExecPcs,
     HoldingPcs, TryPcs
<1>8. ASSUME Outside \/ UNCHANGED vars PROVE RowsInv' /\ UnsettledHasWorker'
  <2>1. UNCHANGED <<status, pc, arg, auto, grants, faulted>>
    BY <1>8 DEF Outside, HourPasses, EditEntity, CloseEntity, vars, rows, frames, ledger, failures
  <2>2. RowsInv'
    BY <2>1 DEF WorkflowInv, RowsInv, AbsentUngranted, AutoGrantedOnce, WorkersFoundRow, At
  <2>3. UnsettledHasWorker'
    <3> SUFFICES ASSUME NEW k \in Keys \ faulted
                 PROVE  /\ status[k] = "CONFIRMED"
                           => OnItsWay(k, {"exec_load", "exec_check", "exec_start"})'
                        /\ status[k] = "RUNNING"
                           => OnItsWay(k, (TryPcs \ {"exec_log"}) \cup {"exec_fail"})'
      BY <2>1 DEF UnsettledHasWorker
    <3>1. \A labels : OnItsWay(k, labels)' <=> OnItsWay(k, labels)
      BY <2>1 DEF OnItsWay
    <3>2. QED
      BY <3>1 DEF WorkflowInv, UnsettledHasWorker, OnItsWay, TryPcs
  <2>4. QED
    BY <2>2, <2>3
<1>9. RowsInv' /\ UnsettledHasWorker'
  BY <1>3, <1>4, <1>5, <1>6, <1>7, <1>8 DEF Next, Fault
<1>10. QED
  BY <1>2, <1>9 DEF WorkflowInv, RowsInv

(* The whole workflow invariant holds in every reachable state, whatever    *)
(* handlers, requests, crashes and database errors there are.              *)
THEOREM WorkflowCorrect == Spec => []WorkflowInv
<1>1. Spec => [](TypeOK /\ WorkflowInv)
  BY TypeInit, TypeNext, WorkflowInit, WorkflowNext, PTL DEF Spec
<1>2. QED
  BY <1>1, PTL

(* A template runs at most once per permission: executeRunInternal is       *)
(* reached only through an accepted confirmation or an auto-executed insert.*)
THEOREM EffectsNeedGrants == Spec => []EffectsWithinGrants
<1>1. WorkflowInv => EffectsWithinGrants
  BY DEF WorkflowInv
<1>2. QED
  BY <1>1, WorkflowCorrect, PTL

(* A run whose template needs no confirmation is executed at most once.     *)
THEOREM AutoOnce == Spec => []AutoExecutedAtMostOnce
<1>1. TypeOK /\ WorkflowInv => AutoExecutedAtMostOnce
  <2> SUFFICES ASSUME TypeOK, WorkflowInv, NEW k \in auto PROVE effects[k] <= 1
    BY DEF AutoExecutedAtMostOnce
  <2>1. k \in Keys /\ grants[k] = 1 /\ effects[k] \in Nat
    BY DEF WorkflowInv, AutoGrantedOnce, TypeOK
  <2>2. Cardinality(Holding(k)) \in Nat /\ effects[k] + Cardinality(Holding(k)) <= grants[k]
    BY <2>1, HoldingFinite DEF WorkflowInv, EffectsWithinGrants
  <2>3. QED
    BY <2>1, <2>2
<1>2. QED
  BY <1>1, TypeCorrect, WorkflowCorrect, PTL

(* Only a lost handler leaves a run behind in CONFIRMED or RUNNING.          *)
THEOREM StuckNeedsFault == Spec => []StuckOnlyByFault
<1>1. WorkflowInv => StuckOnlyByFault
  BY DEF WorkflowInv, UnsettledHasWorker, OnItsWay, StuckOnlyByFault, ExecPcs, HoldingPcs, TryPcs
<1>2. QED
  BY <1>1, WorkflowCorrect, PTL

-----------------------------------------------------------------------------
(* An outcome is final.                                                    *)

LEMMA SettledStep ==
  ASSUME TypeOK, [Next]_vars, NEW k \in Keys,
         status[k] \in {"SUCCEEDED", "FAILED"}, Quiet(k)
  PROVE  status'[k] = status[k] /\ effects'[k] = effects[k] /\ Quiet(k)'
<1> USE DEF Quiet, TypeOK, ExecPcs, HoldingPcs, TryPcs, At, rows, world, frames, ledger, failures
<1>1. ASSUME NEW h \in Handlers, Step(h), arg[h] = k
      PROVE  status'[k] = status[k] /\ effects'[k] = effects[k] /\ Quiet(k)'
  BY <1>1 DEF Step, CreateLimit, CreateFind, CreateInsert, ConfirmRead, ConfirmWrite, ExecDisabled,
     ExecLoad, ExecCheck, ExecStart, ExecRefuse, ExecEntity, ExecRecent, ExecApply, ExecDone, ExecLog,
     ExecFail, Goto, Return, SetStatus
<1>2. ASSUME NEW h \in Handlers, Step(h), arg[h] # k
      PROVE  status'[k] = status[k] /\ effects'[k] = effects[k] /\ Quiet(k)'
  BY <1>2 DEF Step, CreateLimit, CreateFind, CreateInsert, ConfirmRead, ConfirmWrite, ExecDisabled,
     ExecLoad, ExecCheck, ExecStart, ExecRefuse, ExecEntity, ExecRecent, ExecApply, ExecDone, ExecLog,
     ExecFail, Goto, Return, SetStatus
<1>3. ASSUME NEW h \in Handlers, Request(h) \/ Respond(h) \/ Fault(h)
      PROVE  status'[k] = status[k] /\ effects'[k] = effects[k] /\ Quiet(k)'
  BY <1>3 DEF Request, StartCreate, StartConfirm, Call, Respond, Fault, Crash, DbError, Goto, Return
<1>4. CASE Outside \/ UNCHANGED vars
  BY <1>4 DEF Outside, HourPasses, EditEntity, CloseEntity, vars
<1>5. QED
  BY <1>1, <1>2, <1>3, <1>4 DEF Next

(* SUCCEEDED and FAILED are final once no handler works on the run.          *)
THEOREM SettledFinal == Spec => SettledStaysSettled
<1>1. TypeOK /\ [Next]_vars =>
        [\A k \in Keys :
           status[k] \in {"SUCCEEDED", "FAILED"} /\ Quiet(k)
           => status'[k] = status[k] /\ effects'[k] = effects[k] /\ Quiet(k)']_vars
  BY SettledStep
<1>2. QED
  BY <1>1, TypeCorrect, PTL DEF Spec, SettledStaysSettled

-----------------------------------------------------------------------------
(* The hourly limit.                                                       *)

LEMMA QuotaFinite ==
  ASSUME TypeOK
  PROVE  /\ IsFiniteSet(RecentRuns) /\ Cardinality(RecentRuns) \in Nat
         /\ IsFiniteSet(Creating) /\ Cardinality(Creating) \in Nat
         /\ Cardinality(Creating) <= Cardinality(Handlers) /\ Cardinality(Handlers) \in Nat
<1>1. RecentRuns \in SUBSET Keys /\ Creating \in SUBSET Handlers
  BY DEF RecentRuns, Creating
<1>2. QED
  BY <1>1, FixConstants, FS_Subset, FS_CardinalityType

LEMMA QuotaInit == Init => RateLimitOvershoot
<1> SUFFICES ASSUME Init PROVE RateLimitOvershoot
  OBVIOUS
<1>1. RecentRuns = {} /\ Creating = {}
  BY DEF Init, RecentRuns, Creating
<1>2. Cardinality(Handlers) \in Nat
  BY FixConstants, FS_CardinalityType
<1>3. QED
  BY <1>1, <1>2, FS_EmptySet, FixConstants DEF RateLimitOvershoot

\* A step either counts below the limit, or turns a counted handler into a run,
\* or adds neither.
LEMMA QuotaCases ==
  ASSUME TypeOK, [Next]_vars
  PROVE  \/ RecentRuns' = RecentRuns /\ Cardinality(RecentRuns) < RateLimit
         \/ \E h \in Creating, k \in Keys :
              RecentRuns' \subseteq RecentRuns \cup {k} /\ Creating' \subseteq Creating \ {h}
         \/ RecentRuns' \subseteq RecentRuns /\ Creating' \subseteq Creating
<1> DEFINE Neither == RecentRuns' \subseteq RecentRuns /\ Creating' \subseteq Creating
<1>1. ASSUME NEW h \in Handlers, CreateLimit(h), Cardinality(RecentRuns) < RateLimit
      PROVE  RecentRuns' = RecentRuns /\ Cardinality(RecentRuns) < RateLimit
  BY <1>1 DEF CreateLimit, rows, RecentRuns
<1>2. ASSUME NEW h \in Handlers, CreateLimit(h), ~(Cardinality(RecentRuns) < RateLimit)
      PROVE  Neither
  BY <1>2 DEF CreateLimit, Return, rows, RecentRuns, Creating, TypeOK
<1>3. ASSUME NEW h \in Handlers, CreateInsert(h)
      PROVE  \E k \in Keys : /\ h \in Creating
                             /\ RecentRuns' \subseteq RecentRuns \cup {k}
                             /\ Creating' \subseteq Creating \ {h}
  <2>1. h \in Creating /\ arg[h] \in Keys
    BY <1>3 DEF CreateInsert, At, Creating, TypeOK
  <2>2. RecentRuns' \subseteq RecentRuns \cup {arg[h]}
    BY <1>3, <2>1 DEF CreateInsert, rows, RecentRuns, TypeOK
  <2>3. Creating' \subseteq Creating \ {h}
    BY <1>3 DEF CreateInsert, Goto, Return, Creating, TypeOK
  <2>4. QED
    BY <2>1, <2>2, <2>3
<1>4. ASSUME NEW h \in Handlers, Step(h), ~CreateLimit(h), ~CreateInsert(h)
      PROVE  Neither
  BY <1>4 DEF Step, CreateFind, ConfirmRead, ConfirmWrite, ExecDisabled, ExecLoad, ExecCheck,
     ExecStart, ExecRefuse, ExecEntity, ExecRecent, ExecApply, ExecDone, ExecLog, ExecFail, At, Goto,
     Return, SetStatus, rows, RecentRuns, Creating, TypeOK
<1>5. ASSUME NEW h \in Handlers, Request(h) \/ Respond(h) \/ Fault(h)
      PROVE  Neither
  BY <1>5 DEF Request, StartCreate, StartConfirm, Call, Respond, Fault, Crash, DbError, Goto, Return,
     TryPcs, rows, RecentRuns, Creating, TypeOK
<1>6. ASSUME NEW k \in Keys, HourPasses(k) PROVE Neither
  BY <1>6 DEF HourPasses, frames, RecentRuns, Creating, TypeOK
<1>7. ASSUME NEW e \in Entities, CloseEntity(e) \/ \E v \in Values : EditEntity(e, v) PROVE Neither
  BY <1>7 DEF EditEntity, CloseEntity, frames, rows, RecentRuns, Creating
<1>8. CASE UNCHANGED vars
  BY <1>8 DEF vars, RecentRuns, Creating
<1>9. QED
  BY <1>1, <1>2, <1>3, <1>4, <1>5, <1>6, <1>7, <1>8 DEF Next, Outside

LEMMA QuotaStep ==
  ASSUME TypeOK, TypeOK', RateLimitOvershoot, [Next]_vars
  PROVE  RateLimitOvershoot'
<1> DEFINE n == Cardinality(RecentRuns)
           m == Cardinality(Creating)
           c == Cardinality(Handlers)
<1>1. n \in Nat /\ m \in Nat /\ c \in Nat /\ IsFiniteSet(RecentRuns) /\ IsFiniteSet(Creating)
  BY QuotaFinite
<1>2. /\ IsFiniteSet(RecentRuns') /\ Cardinality(RecentRuns') \in Nat
      /\ Cardinality(Creating') \in Nat /\ Cardinality(Creating') <= c
  <2>1. RecentRuns' \in SUBSET Keys /\ Creating' \in SUBSET Handlers
    BY DEF RecentRuns, Creating
  <2>2. QED
    BY <2>1, FixConstants, FS_Subset, FS_CardinalityType
<1>3. n + m + 1 <= RateLimit + c /\ RateLimit \in Nat
  BY FixConstants DEF RateLimitOvershoot
<1>4. CASE RecentRuns' = RecentRuns /\ n < RateLimit
  BY <1>1, <1>2, <1>3, <1>4 DEF RateLimitOvershoot
<1>5. ASSUME NEW h \in Creating, NEW k \in Keys,
             RecentRuns' \subseteq RecentRuns \cup {k}, Creating' \subseteq Creating \ {h}
      PROVE  RateLimitOvershoot'
  <2>1. Cardinality(Creating') <= m - 1
    <3>1. IsFiniteSet(Creating \ {h}) /\ Cardinality(Creating \ {h}) = m - 1
      BY <1>1, FS_RemoveElement
    <3>2. QED
      BY <1>5, <3>1, FS_Subset
  <2>2. /\ IsFiniteSet(RecentRuns \cup {k})
        /\ Cardinality(RecentRuns \cup {k}) = IF k \in RecentRuns THEN n ELSE n + 1
    BY <1>1, FS_AddElement
  <2>3. Cardinality(RecentRuns') <= Cardinality(RecentRuns \cup {k})
    BY <1>5, <2>2, FS_Subset
  <2>4. QED
    BY <1>1, <1>2, <1>3, <2>1, <2>2, <2>3 DEF RateLimitOvershoot
<1>6. CASE RecentRuns' \subseteq RecentRuns /\ Creating' \subseteq Creating
  <2>1. Cardinality(RecentRuns') <= n /\ Cardinality(Creating') <= m
    BY <1>1, <1>6, FS_Subset
  <2>2. QED
    BY <1>1, <1>2, <1>3, <2>1 DEF RateLimitOvershoot
<1>7. QED
  BY <1>4, <1>5, <1>6, QuotaCases

(* assertRateLimit counts before the insert, so concurrent requests overshoot *)
(* the hourly limit, but only by the other handlers in flight.               *)
THEOREM OvershootBounded == Spec => []RateLimitOvershoot
<1>1. Spec => [](TypeOK /\ RateLimitOvershoot)
  BY TypeInit, TypeNext, QuotaInit, QuotaStep, PTL DEF Spec
<1>2. QED
  BY <1>1, PTL

-----------------------------------------------------------------------------
(* The component implements the run ledger.                                *)

\* A step that touches one run moves the abstract stage of that run alone.
LEMMA StageMoves ==
  ASSUME TypeOK, TypeOK', NEW k \in Keys,
         \A j \in Keys \ {k} : status'[j] = status[j] /\ grants'[j] = grants[j]
  PROVE  Stages' = [Stages EXCEPT ![k] = StageOf(status'[k], grants'[k])]
<1>1. \A j \in Keys : Stages'[j] = IF j = k THEN StageOf(status'[k], grants'[k]) ELSE Stages[j]
  BY DEF Stages
<1>2. QED
  BY <1>1 DEF Stages

LEMMA LedgerInit == Init => Ledger!Init
BY DEF Init, Ledger!Init, Stages, StageOf

\* A step that changes no permission, no execution and no row's existence.
LEMMA LedgerStutter ==
  ASSUME TypeOK, TypeOK', UNCHANGED <<auto, grants, effects>>,
         \A k \in Keys : status[k] = "ABSENT" <=> status'[k] = "ABSENT"
  PROVE  UNCHANGED Ledger!ledgerVars
<1>1. \A k \in Keys : Stages'[k] = Stages[k]
  BY DEF Stages, StageOf, TypeOK
<1>2. Stages' = Stages
  BY <1>1 DEF Stages
<1>3. QED
  BY <1>2 DEF Ledger!ledgerVars

LEMMA LedgerStep ==
  ASSUME TypeOK, TypeOK', WorkflowInv, NEW h \in Handlers, Step(h)
  PROVE  [Ledger!Next]_(Ledger!ledgerVars)
<1> DEFINE k == arg[h]
<1>0. k \in Keys
  BY DEF TypeOK
<1>1. CASE ConfirmWrite(h)
  <2>1. /\ status[k] # "ABSENT" /\ k \notin auto
        /\ status' = [status EXCEPT ![k] = "CONFIRMED"]
        /\ grants' = [grants EXCEPT ![k] = @ + 1]
        /\ UNCHANGED <<auto, effects>>
    BY <1>1 DEF ConfirmWrite, SetStatus, At, WorkflowInv, WorkersFoundRow
  <2>2. Stages[k] # "absent"
    BY <1>0, <2>1 DEF Stages, StageOf, TypeOK
  <2>3. Stages' = [Stages EXCEPT ![k] = "granted"]
    <3>1. status'[k] # "ABSENT" /\ grants'[k] > 0
      BY <1>0, <2>1 DEF TypeOK
    <3>2. Stages' = [Stages EXCEPT ![k] = StageOf(status'[k], grants'[k])]
      BY <1>0, <2>1, StageMoves DEF TypeOK
    <3>3. StageOf(status'[k], grants'[k]) = "granted"
      BY <3>1 DEF StageOf
    <3>4. QED
      BY <3>2, <3>3
  <2>4. Ledger!Grant(k)
    BY <2>1, <2>2, <2>3 DEF Ledger!Grant
  <2>5. QED
    BY <1>0, <2>4 DEF Ledger!Next
<1>2. CASE CreateInsert(h) /\ status[k] = "ABSENT" /\ StartsPending(h)
  <2>1. /\ grants[k] = 0
        /\ status' = [status EXCEPT ![k] = "PENDING"]
        /\ UNCHANGED <<auto, grants, effects>>
    BY <1>0, <1>2 DEF CreateInsert, ledger, WorkflowInv, AbsentUngranted
  <2>2. Stages[k] = "absent" /\ Stages' = [Stages EXCEPT ![k] = "awaiting"]
    <3>1. status'[k] # "ABSENT" /\ grants'[k] = 0
      BY <1>0, <2>1 DEF TypeOK
    <3>2. Stages' = [Stages EXCEPT ![k] = StageOf(status'[k], grants'[k])]
      BY <1>0, <2>1, StageMoves DEF TypeOK
    <3>3. StageOf(status'[k], grants'[k]) = "awaiting"
      BY <3>1 DEF StageOf
    <3>4. Stages[k] = "absent"
      BY <1>0, <1>2 DEF Stages, StageOf
    <3>5. QED
      BY <3>2, <3>3, <3>4
  <2>3. Ledger!Request(k)
    BY <2>1, <2>2 DEF Ledger!Request
  <2>4. QED
    BY <1>0, <2>3 DEF Ledger!Next
<1>3. CASE CreateInsert(h) /\ status[k] = "ABSENT" /\ ~StartsPending(h)
  <2>1. /\ status' = [status EXCEPT ![k] = "CONFIRMED"]
        /\ auto' = auto \cup {k}
        /\ grants' = [grants EXCEPT ![k] = @ + 1]
        /\ UNCHANGED effects
    BY <1>3 DEF CreateInsert
  <2>2. Stages[k] = "absent" /\ Stages' = [Stages EXCEPT ![k] = "granted"]
    <3>1. status'[k] # "ABSENT" /\ grants'[k] > 0
      BY <1>0, <2>1 DEF TypeOK
    <3>2. Stages' = [Stages EXCEPT ![k] = StageOf(status'[k], grants'[k])]
      BY <1>0, <2>1, StageMoves DEF TypeOK
    <3>3. StageOf(status'[k], grants'[k]) = "granted"
      BY <3>1 DEF StageOf
    <3>4. Stages[k] = "absent"
      BY <1>0, <1>3 DEF Stages, StageOf
    <3>5. QED
      BY <3>2, <3>3, <3>4
  <2>3. Ledger!RequestGranted(k)
    BY <2>1, <2>2 DEF Ledger!RequestGranted
  <2>4. QED
    BY <1>0, <2>3 DEF Ledger!Next
<1>4. CASE CreateInsert(h) /\ status[k] # "ABSENT"
  BY <1>4, LedgerStutter DEF CreateInsert, rows, ledger
<1>5. CASE ExecApply(h)
  <2>1. /\ effects' = [effects EXCEPT ![k] = @ + 1]
        /\ UNCHANGED <<status, auto, grants>>
        /\ h \in Holding(k)
    BY <1>5 DEF ExecApply, rows, At, Holding, HoldingPcs
  <2>2. effects[k] < grants[k]
    <3>1. Cardinality(Holding(k)) \in Nat \ {0}
      BY <1>0, <2>1, HoldingFinite, FS_EmptySet
    <3>2. effects[k] + Cardinality(Holding(k)) <= grants[k]
      BY <1>0 DEF WorkflowInv, EffectsWithinGrants
    <3>3. QED
      BY <1>0, <3>1, <3>2 DEF TypeOK
  <2>3. Stages' = Stages
    BY <2>1 DEF Stages
  <2>4. Ledger!Spend(k)
    BY <2>1, <2>2, <2>3 DEF Ledger!Spend
  <2>5. QED
    BY <1>0, <2>4 DEF Ledger!Next
<1>6. CASE ~ConfirmWrite(h) /\ ~CreateInsert(h) /\ ~ExecApply(h)
  <2>1. UNCHANGED <<auto, grants, effects>>
    BY <1>6, LedgerFrame
  <2>2. \A j \in Keys : status[j] = "ABSENT" <=> status'[j] = "ABSENT"
    BY <1>0, <1>6 DEF Step, CreateLimit, CreateFind, ConfirmRead, ExecDisabled, ExecLoad, ExecCheck,
       ExecStart, ExecRefuse, ExecEntity, ExecRecent, ExecDone, ExecLog, ExecFail, At, SetStatus, rows,
       WorkflowInv, WorkersFoundRow, ExecPcs, HoldingPcs, TryPcs, TypeOK
  <2>3. QED
    BY <2>1, <2>2, LedgerStutter
<1>7. QED
  BY <1>1, <1>2, <1>3, <1>4, <1>5, <1>6

LEMMA LedgerNext ==
  TypeOK /\ WorkflowInv /\ [Next]_vars => [Ledger!Next]_(Ledger!ledgerVars)
<1> SUFFICES ASSUME TypeOK, WorkflowInv, [Next]_vars PROVE [Ledger!Next]_(Ledger!ledgerVars)
  OBVIOUS
<1>1. TypeOK'
  BY TypeNext
<1>2. ASSUME NEW h \in Handlers, Step(h) PROVE [Ledger!Next]_(Ledger!ledgerVars)
  BY <1>1, <1>2, LedgerStep
<1>3. CASE UNCHANGED <<status, ledger>>
  BY <1>1, <1>3, LedgerStutter DEF ledger
<1>4. ASSUME NEW h \in Handlers, Request(h) \/ Respond(h) \/ Fault(h)
      PROVE  UNCHANGED <<status, ledger>>
  BY <1>4 DEF Request, StartCreate, StartConfirm, Call, Respond, Fault, Crash, DbError, rows
<1>5. ASSUME Outside \/ UNCHANGED vars PROVE UNCHANGED <<status, ledger>>
  BY <1>5 DEF Outside, HourPasses, EditEntity, CloseEntity, rows, ledger, vars
<1>6. QED
  BY <1>2, <1>3, <1>4, <1>5 DEF Next

(* Every behaviour of the handlers is one of the run ledger: requests,       *)
(* permissions and executions happen in the order the workflow prescribes.  *)
THEOREM LedgerImplemented == Spec => ImplementsLedger
<1>1. Spec => [](TypeOK /\ WorkflowInv)
  BY TypeCorrect, WorkflowCorrect, PTL
<1>2. QED
  BY <1>1, LedgerInit, LedgerNext, PTL DEF Spec, ImplementsLedger, Ledger!Spec

-----------------------------------------------------------------------------
(* What SUCCEEDED means.                                                   *)

\* What the template of a run did, or what made doing it unnecessary.
Done(k) ==
  /\ Kind[k] \in {"SET_DUE_DATE", "ESCALATE_INCIDENT"} => effects[k] > 0
  /\ Kind[k] = "SEND_INVOICE_REMINDER" =>
       \E j \in Keys : Kind[j] = Kind[k] /\ EntityOf[j] = EntityOf[k] /\ effects[j] > 0

\* Places at which a handler is about to report success, or has reported it.
Reporting(h) ==
  \/ pc[h] \in {"exec_done", "exec_log"}
  \/ pc[h] = "returned" /\ out[h] = "ok" /\ mode[h] = "confirm"

\* Only reminders look for recent ones, and only createRun returns a run that was not executed.
DoneInv ==
  /\ \A k \in Keys : status[k] = "SUCCEEDED" => Done(k)
  /\ \A h \in Handlers : Reporting(h) => Done(arg[h])
  /\ \A h \in Handlers : pc[h] = "exec_recent" => Kind[arg[h]] = "SEND_INVOICE_REMINDER"
  /\ \A h \in Handlers : pc[h] \in CreatePcs => mode[h] # "confirm"

LEMMA DoneStays ==
  ASSUME TypeOK, TypeOK', \A k \in Keys : effects'[k] >= effects[k], NEW k \in Keys, Done(k)
  PROVE  Done(k)'
<1>1. \A j \in Keys : effects[j] > 0 => effects'[j] > 0
  BY DEF TypeOK
<1>2. QED
  BY <1>1 DEF Done

LEMMA DoneStep ==
  ASSUME TypeOK, TypeOK', DoneInv, NEW h \in Handlers, Step(h)
  PROVE  DoneInv'
<1>k. PICK k \in Keys : k = arg[h]
  BY DEF TypeOK
<1>0. arg[h] = k /\ arg' = arg /\ mode' = mode /\ \A g \in Handlers \ {h} : pc'[g] = pc[g]
  BY <1>k, StepFrame
<1>1. /\ \A j \in Keys : effects'[j] >= effects[j]
      /\ \A g \in Handlers \ {h} : out'[g] = out[g]
  BY DEF TypeOK, Step, CreateLimit, CreateFind, CreateInsert, ConfirmRead, ConfirmWrite, ExecDisabled,
         ExecLoad, ExecCheck, ExecStart, ExecRefuse, ExecEntity, ExecRecent, ExecApply, ExecDone,
         ExecLog, ExecFail, Goto, Return, ledger
<1>2. \A j \in Keys : Done(j) => Done(j)'
  BY <1>1, DoneStays
<1>3. /\ \A j \in Keys \ {k} : status'[j] = status[j]
      /\ status'[k] = "SUCCEEDED" => status[k] = "SUCCEEDED" \/ pc[h] = "exec_done"
  BY <1>0 DEF TypeOK, Step, CreateLimit, CreateFind, CreateInsert, ConfirmRead, ConfirmWrite, ExecDisabled,
         ExecLoad, ExecCheck, ExecStart, ExecRefuse, ExecEntity, ExecRecent, ExecApply, ExecDone,
         ExecLog, ExecFail, At, SetStatus, rows
<1>4. /\ pc'[h] = "exec_recent" => Kind[k] = "SEND_INVOICE_REMINDER"
      /\ pc'[h] \in CreatePcs => pc[h] \in CreatePcs
  BY <1>0 DEF TypeOK, Step, CreateLimit, CreateFind, CreateInsert, ConfirmRead, ConfirmWrite, ExecDisabled,
         ExecLoad, ExecCheck, ExecStart, ExecRefuse, ExecEntity, ExecRecent, ExecApply, ExecDone,
         ExecLog, ExecFail, At, Goto, Return, CreatePcs
<1>5. Reporting(h)' => Done(k)'
  <2>1. CASE ExecApply(h)
    <3>1. effects'[k] > 0
      BY <1>0, <2>1 DEF ExecApply, TypeOK
    <3>2. QED
      BY <1>0, <3>1 DEF Done
  <2>2. CASE ExecEntity(h)
    <3>1. Reporting(h)' => Kind[k] = "REASSIGN_WORK"
      BY <1>0, <2>2 DEF ExecEntity, Reporting, Goto, At, TypeOK
    <3>2. QED
      BY <3>1 DEF Done
  <2>3. CASE ExecRecent(h)
    <3>1. Kind[k] = "SEND_INVOICE_REMINDER"
      BY <1>0, <2>3 DEF ExecRecent, DoneInv, At
    <3>2. Reporting(h)' => RecentReminders(k) # {}
      BY <1>0, <2>3 DEF ExecRecent, Reporting, Goto, At, TypeOK
    <3>3. ASSUME NEW j \in RecentReminders(k) PROVE Done(k)
      <4>1. j \in Keys /\ Kind[j] = Kind[k] /\ EntityOf[j] = EntityOf[k] /\ Done(j)
        BY <3>3 DEF RecentReminders, DoneInv
      <4>2. QED
        BY <3>1, <4>1 DEF Done
    <3>4. QED
      BY <1>0, <1>2, <3>2, <3>3
  <2>4. CASE CreateLimit(h) \/ CreateFind(h) \/ CreateInsert(h)
    <3>1. mode[h] # "confirm" /\ pc'[h] \notin {"exec_done", "exec_log"}
      BY <2>4 DEF CreateLimit, CreateFind, CreateInsert, DoneInv, CreatePcs, At, Goto, Return, TypeOK
    <3>2. QED
      BY <1>0, <3>1 DEF Reporting
  <2>5. CASE ConfirmRead(h) \/ ExecLoad(h) \/ ExecCheck(h)
    <3>1. Reporting(h)' => status[k] = "SUCCEEDED"
      BY <1>0, <2>5 DEF ConfirmRead, ExecLoad, ExecCheck, Reporting, Goto, Return, At, TypeOK
    <3>2. QED
      BY <1>0, <1>2, <3>1 DEF DoneInv
  <2>6. CASE ExecDone(h) \/ ExecLog(h)
    <3>1. Reporting(h)
      BY <2>6 DEF ExecDone, ExecLog, Reporting, At
    <3>2. QED
      BY <1>0, <1>2, <3>1 DEF DoneInv
  <2>7. CASE ConfirmWrite(h) \/ ExecDisabled(h) \/ ExecStart(h) \/ ExecRefuse(h) \/ ExecFail(h)
    <3>1. ~Reporting(h)'
      BY <2>7 DEF ConfirmWrite, ExecDisabled, ExecStart, ExecRefuse, ExecFail, Reporting, Goto, Return, At, TypeOK
    <3>2. QED
      BY <3>1
  <2>8. QED
    BY <2>1, <2>2, <2>3, <2>4, <2>5, <2>6, <2>7 DEF Step
<1>6. \A j \in Keys : status'[j] = "SUCCEEDED" => Done(j)'
  <2>1. pc[h] = "exec_done" => Done(k)
    BY <1>0 DEF DoneInv, Reporting
  <2>2. QED
    BY <1>0, <1>2, <1>3, <2>1 DEF DoneInv
<1>7. \A g \in Handlers : Reporting(g)' => Done(arg[g])'
  <2>1. ASSUME NEW g \in Handlers \ {h}, Reporting(g)' PROVE Done(arg[g])'
    <3>1. Reporting(g) /\ arg[g] \in Keys
      BY <1>0, <1>1, <2>1 DEF Reporting, TypeOK
    <3>2. Done(arg[g])
      BY <3>1 DEF DoneInv
    <3>3. \A j \in Keys : j = arg[g] => Done(j)'
      BY <1>2, <3>2
    <3>4. QED
      BY <1>0, <3>1, <3>3
  <2>2. Reporting(h)' => Done(arg[h])'
    BY <1>0, <1>5
  <2>3. QED
    BY <2>1, <2>2
<1>8. /\ \A g \in Handlers : pc'[g] = "exec_recent" => Kind[arg'[g]] = "SEND_INVOICE_REMINDER"
      /\ \A g \in Handlers : pc'[g] \in CreatePcs => mode'[g] # "confirm"
  BY <1>0, <1>4 DEF DoneInv
<1>9. QED
  BY <1>6, <1>7, <1>8 DEF DoneInv

LEMMA DoneNext == TypeOK /\ DoneInv /\ [Next]_vars => DoneInv'
<1> SUFFICES ASSUME TypeOK, DoneInv, [Next]_vars PROVE DoneInv'
  OBVIOUS
<1>0. TypeOK'
  BY TypeNext
<1>1. ASSUME NEW h \in Handlers, Step(h) PROVE DoneInv'
  BY <1>0, <1>1, DoneStep
<1>2. ASSUME NEW h \in Handlers, Request(h) \/ Respond(h) \/ Fault(h) PROVE DoneInv'
  <2>1. status' = status /\ effects' = effects
    BY <1>2 DEF Request, StartCreate, StartConfirm, Call, Respond, Fault, Crash, DbError, rows, ledger
  <2>2. /\ \A g \in Handlers \ {h} : pc'[g] = pc[g] /\ arg'[g] = arg[g] /\ mode'[g] = mode[g] /\ out'[g] = out[g]
        /\ ~Reporting(h)' /\ pc'[h] # "exec_recent"
        /\ pc'[h] \in CreatePcs => mode'[h] # "confirm"
    BY <1>2 DEF Request, StartCreate, StartConfirm, Call, Respond, Fault, Crash, DbError, Goto, Return,
                Reporting, CreatePcs, TypeOK
  <2>3. \A j \in Keys : Done(j)' <=> Done(j)
    BY <2>1 DEF Done
  <2>4. \A g \in Handlers : Reporting(g)' => Reporting(g) /\ arg'[g] = arg[g] /\ arg[g] \in Keys
    BY <2>2 DEF Reporting, TypeOK
  <2>5. \A g \in Handlers : Reporting(g)' => Done(arg[g])'
    BY <2>1, <2>4 DEF DoneInv, Done
  <2>6. QED
    BY <2>1, <2>2, <2>3, <2>5 DEF DoneInv
<1>3. CASE Outside \/ UNCHANGED vars
  <2>1. UNCHANGED <<status, effects, pc, arg, mode, out>>
    BY <1>3 DEF Outside, HourPasses, EditEntity, CloseEntity, frames, rows, ledger, vars
  <2>2. QED
    BY <2>1 DEF DoneInv, Done, Reporting
<1>4. QED
  BY <1>1, <1>2, <1>3 DEF Next

\* Success is never reported without its reason, by a row or by a confirmation that returns.
LEMMA DoneCorrect == Spec => []DoneInv
<1>1. Init => DoneInv
  BY DEF Init, DoneInv, Reporting, CreatePcs
<1>2. Spec => [](TypeOK /\ DoneInv)
  BY <1>1, TypeInit, TypeNext, DoneNext, PTL DEF Spec
<1>3. QED
  BY <1>2, PTL

(* A run that says SUCCEEDED did what its template is for, or found it done: *)
(* its due date was set, its incident escalated, a reminder for its invoice  *)
(* sent, if not by it then by one it was deduplicated against.               *)
THEOREM SuccessIsDone == Spec => []SucceededMeansDone
<1>1. DoneInv => SucceededMeansDone
  BY DEF DoneInv, Done, SucceededMeansDone
<1>2. QED
  BY <1>1, DoneCorrect, PTL
=============================================================================
