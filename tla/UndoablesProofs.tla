-------------------------- MODULE UndoablesProofs --------------------------
(* Proofs about Undoables, for any handlers, actions and nudges. *)
EXTENDS Undoables, FiniteSetTheorems, TLAPS

Creator(x) == x \in Actions /\ action[x].type = "CREATE_NUDGE"

\* Where each step finds its item, and what it carries.
HandlerWired(h) ==
  /\ at[h] \in {"idle", "edit", "send", "pay", "unlock", "autolock"} <=> on[h] = NoItem
  /\ at[h] \in {"approve", "create", "log", "catch", "delete"} => on[h] \in Actions
  /\ at[h] \in {"create", "delete"} => Creator(on[h])
  /\ at[h] \in {"inspect", "lock", "restore"} => ~Creator(on[h])
  /\ at[h] \in {"lock", "restore"} => seen[h] \in Locks
  /\ at[h] = "record" /\ ~Creator(on[h]) => seen[h] \in Locks

Wired ==
  /\ \A h \in Handlers : HandlerWired(h)
  /\ \A x \in Items : ~Creator(x) /\ undo[x] # NoData => undo[x] \in Locks

TypeInv == TypeOK /\ Wired

LEMMA LockFacts ==
  /\ NoLock \notin Items /\ BySend \notin Items /\ ByJob \notin Items /\ NoItem \notin Items
  /\ NoLock # BySend /\ NoLock # ByJob /\ BySend # ByJob
  /\ NoData \notin Items /\ NoData # NoLock /\ NoData # BySend /\ NoData # ByJob /\ NoData \notin Nat
  /\ Items \cap Nat = {}
<1>1. ASSUME NEW p, NEW q PROVE Cardinality({p, q}) # 3
  <2>1. IsFiniteSet({}) /\ Cardinality({}) = 0
    BY FS_EmptySet
  <2>2. IsFiniteSet({q}) /\ Cardinality({q}) = 1
    BY FS_Singleton
  <2>3. Cardinality({q} \cup {p}) \in {1, 2}
    BY <2>2, FS_AddElement
  <2>4. {q} \cup {p} = {p, q}
    OBVIOUS
  <2>5. QED
    BY <2>3, <2>4
<1>2. NoLock # BySend
  BY <1>1, UndoConstants
<1>3. NoLock # ByJob
  <2>1. NoLock = ByJob => {NoLock, BySend, ByJob} = {NoLock, BySend}
    OBVIOUS
  <2>2. QED
    BY <1>1, <2>1, UndoConstants
<1>4. BySend # ByJob
  <2>1. BySend = ByJob => {NoLock, BySend, ByJob} = {NoLock, BySend}
    OBVIOUS
  <2>2. QED
    BY <1>1, <2>1, UndoConstants
<1>5. QED
  BY <1>2, <1>3, <1>4, UndoConstants DEF Locks

LEMMA OnItem ==
  ASSUME TypeOK, Wired, NEW h \in Handlers,
         at[h] \notin {"idle", "edit", "send", "pay", "unlock", "autolock"}
  PROVE  on[h] \in Items
<1>1. on[h] # NoItem
  BY DEF Wired, HandlerWired
<1>2. QED
  BY <1>1 DEF TypeOK

LEMMA TypeInit == Init => TypeInv
<1> SUFFICES ASSUME Init PROVE TypeInv
  OBVIOUS
<1>1. TypeOK
  BY LockFacts, UndoConstants DEF Init, TypeOK, Data, Locks, Labels, Types, Statuses
<1>2. Wired
  BY DEF Init, Wired, HandlerWired, Locks
<1>3. QED
  BY <1>1, <1>2 DEF TypeInv

-----------------------------------------------------------------------------
(* Type correctness.                                                       *)

\* What a step of one handler leaves alone.
LEMMA Frame ==
  ASSUME TypeInv, NEW h \in Handlers,
         \/ InvoiceStep(h) \/ Step(h)
         \/ \E a \in Actions : ApproveRead(h, a) \/ ExecuteAction(h, a) \/ UndoAction(h, a)
         \/ \E n \in Nudges : ExecuteNudge(h, n) \/ UndoNudge(h, n)
  PROVE  \A g \in Handlers \ {h} : at'[g] = at[g] /\ on'[g] = on[g] /\ seen'[g] = seen[g]
<1>1. CASE InvoiceStep(h)
  BY <1>1 DEF TypeInv, TypeOK, InvoiceStep, EditRead, EditWrite, SendRead, SendWrite, PayRead,
     PayWrite, UnlockRead, UnlockWrite, JobRead, JobWrite, Serve, Return
<1>2. CASE Step(h)
  BY <1>2 DEF TypeInv, TypeOK, Step, ApproveWrite, Create, NoTarget, Inspect, TakeLock, Record,
     RecordNudge, Log, Catch, Delete, Restore, Cancel, ExecuteError, Lost, GoOn, Return
<1>3. CASE \E a \in Actions : ApproveRead(h, a) \/ ExecuteAction(h, a) \/ UndoAction(h, a)
  BY <1>3 DEF TypeInv, TypeOK, ApproveRead, ExecuteAction, UndoAction, Call
<1>4. CASE \E n \in Nudges : ExecuteNudge(h, n) \/ UndoNudge(h, n)
  BY <1>4 DEF TypeInv, TypeOK, ExecuteNudge, UndoNudge, Call
<1>5. QED
  BY <1>1, <1>2, <1>3, <1>4

LEMMA InvoiceType ==
  ASSUME TypeInv, NEW h \in Handlers, InvoiceStep(h)
  PROVE  TypeOK' /\ HandlerWired(h)' /\ UNCHANGED <<action, undo>>
<1> USE LockFacts DEF TypeInv, TypeOK, Wired, HandlerWired, Serve, Return, SetLock, Locks, Labels, Data,
     invoiceVars, rowVars, Creator
<1>1. CASE EditRead(h) \/ SendRead(h) \/ PayRead(h) \/ UnlockRead(h) \/ JobRead(h)
  BY <1>1 DEF EditRead, SendRead, PayRead, UnlockRead, JobRead
<1>2. CASE EditWrite(h)
  BY <1>2 DEF EditWrite
<1>3. CASE SendWrite(h)
  BY <1>3 DEF SendWrite
<1>4. CASE PayWrite(h)
  BY <1>4 DEF PayWrite
<1>5. CASE UnlockWrite(h)
  BY <1>5 DEF UnlockWrite
<1>6. CASE JobWrite(h)
  BY <1>6 DEF JobWrite
<1>7. QED
  BY <1>1, <1>2, <1>3, <1>4, <1>5, <1>6 DEF InvoiceStep

LEMMA CallType ==
  ASSUME TypeInv, NEW h \in Handlers,
         \/ \E a \in Actions : ApproveRead(h, a) \/ ExecuteAction(h, a) \/ UndoAction(h, a)
         \/ \E n \in Nudges : ExecuteNudge(h, n) \/ UndoNudge(h, n)
  PROVE  TypeOK' /\ HandlerWired(h)' /\ UNCHANGED <<action, undo>>
<1> USE LockFacts, UndoConstants DEF TypeInv, TypeOK, Wired, HandlerWired, Call, Labels, Data, Items,
     invoiceVars, rowVars, Creator
<1>1. ASSUME NEW a \in Actions, ApproveRead(h, a)
      PROVE  TypeOK' /\ HandlerWired(h)' /\ UNCHANGED <<action, undo>>
  BY <1>1 DEF ApproveRead
<1>2. ASSUME NEW a \in Actions, ExecuteAction(h, a)
      PROVE  TypeOK' /\ HandlerWired(h)' /\ UNCHANGED <<action, undo>>
  BY <1>2 DEF ExecuteAction
<1>3. ASSUME NEW a \in Actions, UndoAction(h, a)
      PROVE  TypeOK' /\ HandlerWired(h)' /\ UNCHANGED <<action, undo>>
  BY <1>3 DEF UndoAction
<1>4. ASSUME NEW n \in Nudges, ExecuteNudge(h, n)
      PROVE  TypeOK' /\ HandlerWired(h)' /\ UNCHANGED <<action, undo>>
  BY <1>4 DEF ExecuteNudge
<1>5. ASSUME NEW n \in Nudges, UndoNudge(h, n)
      PROVE  TypeOK' /\ HandlerWired(h)' /\ UNCHANGED <<action, undo>>
  BY <1>5 DEF UndoNudge
<1>6. QED
  BY <1>1, <1>2, <1>3, <1>4, <1>5

\* The rows may change, but no action its type.
RowsWired ==
  /\ \A a \in Actions : action'[a].type = action[a].type
  /\ \A x \in Items : ~Creator(x) /\ undo'[x] # NoData => undo'[x] \in Locks

LEMMA StatusStep ==
  ASSUME action \in [Actions -> [type : Types, status : Statuses]], NEW x, NEW s \in Statuses,
         IF x \in Actions THEN SetStatus(x, s) ELSE UNCHANGED action
  PROVE  /\ action' \in [Actions -> [type : Types, status : Statuses]]
         /\ \A a \in Actions : action'[a].type = action[a].type
<1>1. CASE x \in Actions
  <2>1. action' = [action EXCEPT ![x] = [type |-> action[x].type, status |-> s]]
    BY <1>1 DEF SetStatus
  <2>2. [type |-> action[x].type, status |-> s] \in [type : Types, status : Statuses]
    BY <1>1
  <2>3. QED
    BY <1>1, <2>1, <2>2
<1>2. CASE x \notin Actions
  BY <1>2
<1>3. QED
  BY <1>1, <1>2

LEMMA StepType ==
  ASSUME TypeInv, NEW h \in Handlers, Step(h)
  PROVE  TypeOK' /\ HandlerWired(h)' /\ RowsWired
<1>0. at[h] = "cancel" => on[h] \in Items
  BY OnItem DEF TypeInv
<1>rows. ASSUME Cancel(h)
      PROVE  /\ action' \in [Actions -> [type : Types, status : Statuses]]
             /\ \A a \in Actions : action'[a].type = action[a].type
  BY <1>rows, StatusStep DEF TypeInv, TypeOK, Cancel, Statuses
<1> USE LockFacts, UndoConstants DEF TypeInv, TypeOK, Wired, HandlerWired, RowsWired, GoOn, Return,
     SetStatus, Labels, Data, Items, invoiceVars, rowVars, Creator, Types, Statuses
<1>1. CASE ApproveWrite(h)
  BY <1>1 DEF ApproveWrite
<1>2. CASE Create(h)
  BY <1>2 DEF Create, Ran
<1>3. CASE NoTarget(h)
  BY <1>3 DEF NoTarget
<1>4. CASE Inspect(h)
  BY <1>4 DEF Inspect
<1>5. CASE TakeLock(h)
  BY <1>5 DEF TakeLock, Ran, SetLock, Locks
<1>6. CASE Record(h)
  BY <1>6 DEF Record
<1>7. CASE RecordNudge(h)
  BY <1>7 DEF RecordNudge
<1>8. CASE Log(h)
  BY <1>8 DEF Log
<1>9. CASE Catch(h)
  BY <1>9 DEF Catch
<1>10. CASE Delete(h)
  BY <1>10 DEF Delete
<1>11. CASE Restore(h)
  BY <1>11 DEF Restore, SetLock
<1>12. CASE Cancel(h)
  <2>1. /\ action' \in [Actions -> [type : Types, status : Statuses]]
        /\ \A a \in Actions : action'[a].type = action[a].type
    BY <1>12, <1>rows
  <2>2. on[h] \in Items
    BY <1>12, <1>0 DEF Cancel
  <2>3. undo' \in [Items -> Data]
    BY <1>12, <2>2 DEF Cancel
  <2>4. TypeOK' /\ HandlerWired(h)'
    BY <1>12, <2>1, <2>3 DEF Cancel
  <2>5. RowsWired
    BY <1>12, <2>1, <2>2 DEF Cancel
  <2>6. QED
    BY <2>4, <2>5
<1>13. CASE ExecuteError(h)
  BY <1>13 DEF ExecuteError, Fault
<1>14. CASE Lost(h)
  BY <1>14 DEF Lost, Fault
<1>15. QED
  BY <1>1, <1>2, <1>3, <1>4, <1>5, <1>6, <1>7, <1>8, <1>9, <1>10, <1>11, <1>12, <1>13, <1>14 DEF Step

LEMMA TypeNext == TypeInv /\ [Next]_vars => TypeInv'
<1> SUFFICES ASSUME TypeInv, [Next]_vars PROVE TypeInv'
  OBVIOUS
<1>1. CASE UNCHANGED vars
  BY <1>1 DEF TypeInv, TypeOK, Wired, HandlerWired, Creator, vars, invoiceVars, rowVars, handlerVars
<1>2. ASSUME NEW h \in Handlers,
             \/ InvoiceStep(h) \/ Step(h)
             \/ \E a \in Actions : ApproveRead(h, a) \/ ExecuteAction(h, a) \/ UndoAction(h, a)
             \/ \E n \in Nudges : ExecuteNudge(h, n) \/ UndoNudge(h, n)
      PROVE  TypeInv'
  <2>1. TypeOK' /\ HandlerWired(h)' /\ RowsWired
    BY <1>2, InvoiceType, CallType, StepType DEF RowsWired, TypeInv, Wired
  <2>2. \A g \in Handlers \ {h} : HandlerWired(g)'
    BY <1>2, <2>1, Frame DEF TypeInv, Wired, HandlerWired, RowsWired, Creator
  <2>3. \A x \in Items : Creator(x)' = Creator(x)
    BY <2>1 DEF RowsWired, Creator
  <2>4. QED
    BY <2>1, <2>2, <2>3 DEF TypeInv, Wired, RowsWired
<1>3. QED
  BY <1>1, <1>2 DEF Next

(* Every step of every handler keeps the types: an undo finds the kind of  *)
(* data that the execution of its item stored.                             *)
THEOREM TypeCorrect == Spec => []TypeOK
<1>1. Spec => []TypeInv
  BY TypeInit, TypeNext, PTL DEF Spec
<1>2. TypeInv => TypeOK
  BY DEF TypeInv
<1>3. QED
  BY <1>1, <1>2, PTL

-----------------------------------------------------------------------------
(* Counting the edits and sends under way.                                 *)

Doing(label) == {h \in Handlers : at[h] = label}

EditInv == IF lock = NoLock THEN late = 0
                            ELSE late + Cardinality(Doing("edit")) + 1 <= Cardinality(Handlers)

SendInv == /\ invoice = "DRAFT" => sends = 0
           /\ sends + Cardinality(Doing("send")) <= Cardinality(Handlers)

\* The next state relation, one handler at a time.
StepOf(h) ==
  \/ InvoiceStep(h) \/ Step(h)
  \/ \E a \in Actions : ApproveRead(h, a) \/ ExecuteAction(h, a) \/ UndoAction(h, a)
  \/ \E n \in Nudges : ExecuteNudge(h, n) \/ UndoNudge(h, n)

LEMMA HandlerCount ==
  ASSUME NEW S \in SUBSET Handlers
  PROVE  /\ IsFiniteSet(S) /\ Cardinality(S) \in Nat
         /\ Cardinality(S) <= Cardinality(Handlers) /\ Cardinality(Handlers) \in Nat
         /\ \A T \in SUBSET S : Cardinality(T) \in Nat /\ Cardinality(T) <= Cardinality(S)
         /\ \A h \in S : Cardinality(S \ {h}) = Cardinality(S) - 1
         /\ \A h \in Handlers \ S : Cardinality(S) + 1 <= Cardinality(Handlers)
<1>1. /\ IsFiniteSet(S) /\ Cardinality(S) \in Nat
      /\ Cardinality(S) <= Cardinality(Handlers) /\ Cardinality(Handlers) \in Nat
  BY UndoConstants, FS_Subset, FS_CardinalityType
<1>2. \A T \in SUBSET S : Cardinality(T) \in Nat /\ Cardinality(T) <= Cardinality(S)
  BY <1>1, FS_Subset, FS_CardinalityType
<1>3. \A h \in S : Cardinality(S \ {h}) = Cardinality(S) - 1
  BY <1>1, FS_RemoveElement
<1>4. ASSUME NEW h \in Handlers \ S PROVE Cardinality(S) + 1 <= Cardinality(Handlers)
  <2>1. Cardinality(S \cup {h}) = Cardinality(S) + 1
    BY <1>1, FS_AddElement
  <2>2. Cardinality(S \cup {h}) <= Cardinality(Handlers)
    BY UndoConstants, FS_Subset
  <2>3. QED
    BY <2>1, <2>2
<1>5. QED
  BY <1>1, <1>2, <1>3, <1>4

\* A step of h enters or leaves an edit or a send, and nobody else does.
LEMMA DoingStep ==
  ASSUME TypeInv, NEW h \in Handlers, StepOf(h), NEW label
  PROVE  /\ Doing(label) \in SUBSET Handlers /\ Doing(label)' \in SUBSET Handlers
         /\ Doing(label)' \ {h} = Doing(label) \ {h}
BY Frame DEF StepOf, Doing

LEMMA EditCases ==
  ASSUME TypeInv, NEW h \in Handlers, StepOf(h)
  PROVE  \/ lock' = NoLock /\ (late' = 0 \/ (lock = NoLock /\ late' = late))
         \/ lock # NoLock /\ lock' # NoLock /\ late' = late /\ at'[h] # "edit"
         \/ lock = NoLock /\ lock' # NoLock /\ late' = 0 /\ at'[h] # "edit"
         \/ lock # NoLock /\ lock' = lock /\ late' = late + 1 /\ at[h] = "edit" /\ at'[h] # "edit"
<1> USE LockFacts DEF TypeInv, TypeOK, Serve, Return, GoOn, SetLock, invoiceVars
<1>1. CASE EditRead(h)
  BY <1>1 DEF EditRead
<1>2. CASE EditWrite(h)
  BY <1>2 DEF EditWrite
<1>3. CASE SendRead(h) \/ PayRead(h) \/ UnlockRead(h) \/ JobRead(h) \/ PayWrite(h)
  BY <1>3 DEF SendRead, PayRead, PayWrite, UnlockRead, JobRead
<1>4. CASE SendWrite(h) \/ UnlockWrite(h) \/ JobWrite(h)
  <2>1. at'[h] = "idle"
    BY <1>4 DEF SendWrite, UnlockWrite, JobWrite
  <2>2. CASE SendWrite(h)
    BY <2>1, <2>2 DEF SendWrite
  <2>3. CASE UnlockWrite(h)
    BY <2>3 DEF UnlockWrite
  <2>4. CASE JobWrite(h)
    BY <2>1, <2>4 DEF JobWrite
  <2>5. QED
    BY <1>4, <2>2, <2>3, <2>4
<1>5. CASE TakeLock(h)
  <2>1. on[h] \in Items /\ on[h] # NoLock
    BY <1>5 DEF TakeLock, Wired, HandlerWired
  <2>2. at'[h] = "record"
    BY <1>5 DEF TakeLock
  <2>3. QED
    BY <1>5, <2>1, <2>2 DEF TakeLock
<1>6. CASE Restore(h)
  <2>1. at'[h] = "cancel"
    BY <1>6 DEF Restore
  <2>2. QED
    BY <1>6, <2>1 DEF Restore
<1>7. CASE Step(h) /\ ~TakeLock(h) /\ ~Restore(h)
  BY <1>7 DEF Step, ApproveWrite, Create, NoTarget, Inspect, Record, RecordNudge, Log,
     Catch, Delete, Cancel, ExecuteError, Lost, Fault
<1>8. CASE \E a \in Actions : ApproveRead(h, a) \/ ExecuteAction(h, a) \/ UndoAction(h, a)
  BY <1>8 DEF ApproveRead, ExecuteAction, UndoAction, Call
<1>9. CASE \E n \in Nudges : ExecuteNudge(h, n) \/ UndoNudge(h, n)
  BY <1>9 DEF ExecuteNudge, UndoNudge, Call
<1>10. QED
  BY <1>1, <1>2, <1>3, <1>4, <1>5, <1>6, <1>7, <1>8, <1>9 DEF StepOf, InvoiceStep

LEMMA EditStep == ASSUME TypeInv, EditInv, [Next]_vars PROVE EditInv'
<1>1. CASE UNCHANGED vars
  BY <1>1 DEF EditInv, Doing, vars, invoiceVars, handlerVars
<1>2. ASSUME NEW h \in Handlers, StepOf(h) PROVE EditInv'
  <2> DEFINE D == Doing("edit")
  <2>1. D \in SUBSET Handlers /\ D' \in SUBSET Handlers /\ D' \ {h} = D \ {h}
    BY <1>2, DoingStep
  <2>2. at'[h] # "edit" => D' \subseteq D /\ h \notin D'
    BY <2>1 DEF Doing
  <2>3. /\ Cardinality(D) \in Nat /\ Cardinality(D') \in Nat /\ Cardinality(Handlers) \in Nat
        /\ D' \subseteq D => Cardinality(D') <= Cardinality(D)
        /\ h \notin D' => Cardinality(D') + 1 <= Cardinality(Handlers)
        /\ h \in D /\ D' \subseteq D \ {h} => Cardinality(D') <= Cardinality(D) - 1
    <3>1. h \in D /\ D' \subseteq D \ {h} => Cardinality(D') <= Cardinality(D) - 1
      BY <2>1, HandlerCount
    <3>2. QED
      BY <2>1, <3>1, HandlerCount
  <2>4. late \in Nat
    BY DEF TypeInv, TypeOK
  <2>5. CASE lock' = NoLock /\ (late' = 0 \/ (lock = NoLock /\ late' = late))
    BY <2>5 DEF EditInv
  <2>6. CASE lock # NoLock /\ lock' # NoLock /\ late' = late /\ at'[h] # "edit"
    BY <2>2, <2>3, <2>4, <2>6 DEF EditInv
  <2>7. CASE lock = NoLock /\ lock' # NoLock /\ late' = 0 /\ at'[h] # "edit"
    BY <2>2, <2>3, <2>7 DEF EditInv
  <2>8. CASE lock # NoLock /\ lock' = lock /\ late' = late + 1 /\ at[h] = "edit" /\ at'[h] # "edit"
    <3>1. h \in D
      BY <2>8 DEF Doing
    <3>2. QED
      BY <2>2, <2>3, <2>4, <2>8, <3>1 DEF EditInv
  <2>9. QED
    BY <1>2, <2>5, <2>6, <2>7, <2>8, EditCases
<1>3. QED
  BY <1>1, <1>2 DEF Next, StepOf

(* The edits that pass the check on an unlocked row and are written to a   *)
(* locked one are those of the other handlers: the lock of update is late  *)
(* by at most one edit for each of them.                                   *)
THEOREM LateEdits == Spec => []LateEditsBounded
<1>1. Init => TypeInv /\ EditInv
  BY TypeInit DEF Init, EditInv
<1>2. TypeInv /\ EditInv /\ [Next]_vars => TypeInv' /\ EditInv'
  BY TypeNext, EditStep
<1>3. TypeInv /\ EditInv => LateEditsBounded
  <2> SUFFICES ASSUME TypeInv, EditInv PROVE LateEditsBounded
    OBVIOUS
  <2>1. Cardinality(Handlers) \in Nat /\ Cardinality(Handlers) # 0
    BY UndoConstants, FS_CardinalityType, FS_EmptySet
  <2>2. Cardinality(Doing("edit")) \in Nat /\ late \in Nat
    BY HandlerCount DEF Doing, TypeInv, TypeOK
  <2>3. QED
    BY <2>1, <2>2 DEF EditInv, LateEditsBounded
<1>4. QED
  BY <1>1, <1>2, <1>3, PTL DEF Spec

LEMMA SendCases ==
  ASSUME TypeInv, NEW h \in Handlers, StepOf(h)
  PROVE  \/ sends' = sends /\ at'[h] # "send" /\ (invoice' = invoice \/ invoice' # "DRAFT")
         \/ sends' = sends /\ invoice = "DRAFT" /\ invoice' = invoice
         \/ sends' = sends + 1 /\ at[h] = "send" /\ at'[h] # "send" /\ invoice' # "DRAFT"
<1> USE DEF TypeInv, TypeOK, Serve, Return, GoOn, SetLock, invoiceVars
<1>1. CASE InvoiceStep(h)
  BY <1>1 DEF InvoiceStep, EditRead, EditWrite, SendRead, SendWrite, PayRead, PayWrite,
     UnlockRead, UnlockWrite, JobRead, JobWrite
<1>2. CASE Step(h)
  BY <1>2 DEF Step, ApproveWrite, Create, NoTarget, Inspect, TakeLock, Record, RecordNudge, Log,
     Catch, Delete, Restore, Cancel, ExecuteError, Lost, Fault
<1>3. CASE \E a \in Actions : ApproveRead(h, a) \/ ExecuteAction(h, a) \/ UndoAction(h, a)
  BY <1>3 DEF ApproveRead, ExecuteAction, UndoAction, Call
<1>4. CASE \E n \in Nudges : ExecuteNudge(h, n) \/ UndoNudge(h, n)
  BY <1>4 DEF ExecuteNudge, UndoNudge, Call
<1>5. QED
  BY <1>1, <1>2, <1>3, <1>4 DEF StepOf

LEMMA SendStep == ASSUME TypeInv, SendInv, [Next]_vars PROVE SendInv'
<1>1. CASE UNCHANGED vars
  BY <1>1 DEF SendInv, Doing, vars, invoiceVars, handlerVars
<1>2. ASSUME NEW h \in Handlers, StepOf(h) PROVE SendInv'
  <2> DEFINE D == Doing("send")
  <2>1. D \in SUBSET Handlers /\ D' \in SUBSET Handlers /\ D' \ {h} = D \ {h}
    BY <1>2, DoingStep
  <2>2. at'[h] # "send" => D' \subseteq D /\ h \notin D'
    BY <2>1 DEF Doing
  <2>3. /\ Cardinality(D) \in Nat /\ Cardinality(D') \in Nat /\ Cardinality(Handlers) \in Nat
        /\ Cardinality(D') <= Cardinality(Handlers)
        /\ D' \subseteq D => Cardinality(D') <= Cardinality(D)
        /\ h \in D /\ D' \subseteq D \ {h} => Cardinality(D') <= Cardinality(D) - 1
    <3>1. h \in D /\ D' \subseteq D \ {h} => Cardinality(D') <= Cardinality(D) - 1
      BY <2>1, HandlerCount
    <3>2. QED
      BY <2>1, <3>1, HandlerCount
  <2>4. sends \in Nat
    BY DEF TypeInv, TypeOK
  <2>5. CASE sends' = sends /\ at'[h] # "send" /\ (invoice' = invoice \/ invoice' # "DRAFT")
    BY <2>2, <2>3, <2>4, <2>5 DEF SendInv
  <2>6. CASE sends' = sends /\ invoice = "DRAFT" /\ invoice' = invoice
    BY <2>3, <2>4, <2>6 DEF SendInv
  <2>7. CASE sends' = sends + 1 /\ at[h] = "send" /\ at'[h] # "send" /\ invoice' # "DRAFT"
    <3>1. h \in D
      BY <2>7 DEF Doing
    <3>2. QED
      BY <2>2, <2>3, <2>4, <2>7, <3>1 DEF SendInv
  <2>8. QED
    BY <1>2, <2>5, <2>6, <2>7, SendCases
<1>3. QED
  BY <1>1, <1>2 DEF Next, StepOf

(* Only sends that read DRAFT before the first write of SENT or PAID write *)
(* SENT again, each handler once: the losses of PAID are bounded by them.  *)
THEOREM Sends == Spec => []SendsBounded
<1>1. Init => TypeInv /\ SendInv
  <2> SUFFICES ASSUME Init PROVE SendInv
    BY TypeInit
  <2>1. Doing("send") = {}
    BY DEF Init, Doing
  <2>2. QED
    BY <2>1, HandlerCount, FS_EmptySet DEF Init, SendInv
<1>2. TypeInv /\ SendInv /\ [Next]_vars => TypeInv' /\ SendInv'
  BY TypeNext, SendStep
<1>3. TypeInv /\ SendInv => SendsBounded
  <2> SUFFICES ASSUME TypeInv, SendInv PROVE SendsBounded
    OBVIOUS
  <2>1. /\ Cardinality(Doing("send")) \in Nat /\ Cardinality(Handlers) \in Nat
        /\ sends \in Nat
    BY HandlerCount DEF Doing, TypeInv, TypeOK
  <2>2. QED
    BY <2>1 DEF SendInv, SendsBounded
<1>4. QED
  BY <1>1, <1>2, <1>3, PTL DEF Spec

-----------------------------------------------------------------------------
(* What undisturbed items say of themselves.                               *)

Unmade(x) == Creator(x) => made[x] = {}
Matched(x) == Creator(x) => made[x] = {undo[x]} /\ lock # x

\* Nothing of the item is there, and it is not executed.
Clean(x) == ~Executed(x) /\ lock # x /\ Unmade(x)

AtRest(x) == /\ lock = x => Executed(x)
             /\ IF Executed(x) THEN Matched(x) ELSE Unmade(x)

\* What holds of the item of handler h between two of its steps.
AtWork(h) ==
  LET x == on[h]
  IN  /\ at[h] \in {"approve", "create", "inspect", "lock", "catch"} => Clean(x)
      /\ at[h] = "record" => ~Executed(x) /\ (Creator(x) => made[x] = {seen[h]} /\ lock # x)
      /\ at[h] = "log" => Executed(x) /\ Matched(x)
      /\ at[h] \in {"delete", "restore"} => Executed(x) /\ Matched(x) /\ seen[h] = undo[x]
      /\ at[h] = "cancel" => lock # x /\ Unmade(x)

ItemInv(x) ==
  x \notin disturbed =>
    /\ \A g, h \in Handlers : on[g] = x /\ on[h] = x => g = h
    /\ \A h \in Handlers : on[h] = x => AtWork(h)
    /\ (\A h \in Handlers : on[h] # x) => AtRest(x)

\* A lock that an undo will restore belongs to a disturbed item, or to none.
RecordedInv ==
  /\ \A x \in Items : undo[x] \in Items => undo[x] \in disturbed
  /\ \A h \in Handlers : seen[h] \in Items => seen[h] \in disturbed

TruthInv == RecordedInv /\ \A x \in Items : ItemInv(x)

LEMMA TruthInit == Init => TruthInv
BY LockFacts DEF Init, TruthInv, RecordedInv, ItemInv, AtRest, Executed, Matched, Unmade, Creator, Items, Types

\* The five calls, by what they ask of the item.
LEMMA ActionCalls ==
  ASSUME NEW h \in Handlers, NEW a \in Actions,
         ApproveRead(h, a) \/ ExecuteAction(h, a) \/ UndoAction(h, a)
  PROVE  \E label, v : /\ Call(h, a, label, v)
                      /\ v \in {NoData, undo[a]}
                      /\ \/ label \in {"approve", "create", "inspect"} /\ ~Executed(a)
                         \/ label \in {"delete", "restore"} /\ Executed(a) /\ v = undo[a]
<1>1. CASE ApproveRead(h, a)
  BY <1>1 DEF ApproveRead, Executed
<1>2. CASE ExecuteAction(h, a)
  BY <1>2 DEF ExecuteAction, Executed
<1>3. CASE UndoAction(h, a)
  BY <1>3 DEF UndoAction, Executed
<1>4. QED
  BY <1>1, <1>2, <1>3

LEMMA NudgeCalls ==
  ASSUME NEW h \in Handlers, NEW n \in Nudges, ExecuteNudge(h, n) \/ UndoNudge(h, n)
  PROVE  \E label, v : /\ Call(h, n, label, v)
                      /\ v \in {NoData, undo[n]}
                      /\ \/ label = "inspect" /\ ~Executed(n)
                         \/ label = "restore" /\ Executed(n) /\ v = undo[n]
<1>1. n \notin Actions
  BY UndoConstants
<1>2. CASE ExecuteNudge(h, n)
  BY <1>1, <1>2 DEF ExecuteNudge, Executed
<1>3. CASE UndoNudge(h, n)
  BY <1>1, <1>3 DEF UndoNudge, Executed
<1>4. QED
  BY <1>2, <1>3

LEMMA RecordedStep ==
  ASSUME TypeInv, RecordedInv, NEW h \in Handlers, StepOf(h)
  PROVE  RecordedInv' /\ disturbed \subseteq disturbed'
<1> USE LockFacts DEF TypeInv, TypeOK, RecordedInv, Serve, Return, GoOn, invoiceVars, rowVars, Items
<1>1. CASE InvoiceStep(h)
  BY <1>1 DEF InvoiceStep, EditRead, EditWrite, SendRead, SendWrite, PayRead, PayWrite,
     UnlockRead, UnlockWrite, JobRead, JobWrite
<1>2. CASE Inspect(h)
  BY <1>2 DEF Inspect
<1>3. CASE Create(h)
  <2>1. /\ UNCHANGED <<undo, disturbed>>
        /\ seen' = [seen EXCEPT ![h] = runs[on[h]] + 1]
    BY <1>3 DEF Create
  <2>2. on[h] \in Actions
    BY <1>3 DEF Create, Wired, HandlerWired
  <2>3. runs[on[h]] + 1 \in Nat
    BY <2>2
  <2>4. runs[on[h]] + 1 \notin Items
    BY <2>3
  <2>5. QED
    BY <2>1, <2>4
<1>4. CASE Record(h) \/ RecordNudge(h)
  <2>1. /\ undo' = [undo EXCEPT ![on[h]] = seen[h]]
        /\ disturbed' = disturbed /\ seen' = [seen EXCEPT ![h] = NoData]
    BY <1>4 DEF Record, RecordNudge
  <2>2. QED
    BY <2>1
<1>5. CASE Cancel(h)
  BY <1>5 DEF Cancel
<1>6. CASE Step(h) /\ ~(Inspect(h) \/ Create(h) \/ Record(h) \/ RecordNudge(h) \/ Cancel(h))
  BY <1>6 DEF Step, ApproveWrite, NoTarget, TakeLock, Log, Catch, Delete, Restore, ExecuteError,
     Lost, Fault
<1>7. ASSUME NEW x \in Items, NEW label, NEW v, Call(h, x, label, v), v \in {NoData, undo[x]}
      PROVE  RecordedInv' /\ disturbed \subseteq disturbed'
  BY <1>7 DEF Call
<1>8. CASE \E a \in Actions : ApproveRead(h, a) \/ ExecuteAction(h, a) \/ UndoAction(h, a)
  BY <1>7, <1>8, ActionCalls
<1>9. CASE \E n \in Nudges : ExecuteNudge(h, n) \/ UndoNudge(h, n)
  BY <1>7, <1>9, NudgeCalls
<1>10. QED
  BY <1>1, <1>2, <1>3, <1>4, <1>5, <1>6, <1>8, <1>9 DEF StepOf

\* What a step of h does to an item that it does not work on and that stays undisturbed.
LEMMA Elsewhere ==
  ASSUME TypeInv, RecordedInv, NEW h \in Handlers, StepOf(h),
         NEW x \in Items, on[h] # x, on'[h] # x, x \notin disturbed'
  PROVE  /\ x \notin disturbed
         /\ undo'[x] = undo[x] /\ Executed(x)' = Executed(x) /\ Creator(x)' = Creator(x)
         /\ x \in Actions => made'[x] = made[x]
         /\ lock' = x => lock = x
<1>1. x \notin disturbed
  BY RecordedStep
<1>2. at[h] = "restore" => seen[h] # x
  BY <1>1 DEF RecordedInv
<1> USE LockFacts, <1>1 DEF TypeInv, TypeOK, Serve, Return, GoOn, SetStatus, invoiceVars, rowVars, Executed,
     Creator
<1>3. CASE InvoiceStep(h)
  BY <1>3 DEF InvoiceStep, EditRead, EditWrite, SendRead, SendWrite, PayRead, PayWrite,
     UnlockRead, UnlockWrite, JobRead, JobWrite, SetLock
<1>4. CASE Inspect(h) \/ Log(h) \/ NoTarget(h) \/ ExecuteError(h) \/ Lost(h)
  BY <1>4 DEF Inspect, Log, NoTarget, ExecuteError, Lost, Fault
<1>5. CASE Create(h) \/ Delete(h)
  BY <1>5 DEF Create, Delete
<1>6. CASE TakeLock(h) \/ Restore(h)
  BY <1>2, <1>6 DEF TakeLock, Restore, SetLock
<1>7. CASE ApproveWrite(h) \/ Record(h) \/ RecordNudge(h) \/ Catch(h) \/ Cancel(h)
  BY <1>7 DEF ApproveWrite, Record, RecordNudge, Catch, Cancel
<1>8. ASSUME NEW y \in Items, NEW label, NEW v, Call(h, y, label, v)
      PROVE  UNCHANGED <<action, undo, made, lock>>
  BY <1>8 DEF Call
<1>9. CASE \E a \in Actions : ApproveRead(h, a) \/ ExecuteAction(h, a) \/ UndoAction(h, a)
  BY <1>8, <1>9, ActionCalls DEF Items
<1>10. CASE \E n \in Nudges : ExecuteNudge(h, n) \/ UndoNudge(h, n)
  BY <1>8, <1>10, NudgeCalls DEF Items
<1>11. QED
  BY <1>3, <1>4, <1>5, <1>6, <1>7, <1>9, <1>10 DEF StepOf, Step

\* Undisturbed items that the step does not concern.
LEMMA OthersStep ==
  ASSUME TypeInv, TruthInv, NEW h \in Handlers, StepOf(h),
         NEW x \in Items, on[h] # x, on'[h] # x
  PROVE  ItemInv(x)'
<1> SUFFICES ASSUME x \notin disturbed'
             PROVE  /\ \A f, g \in Handlers : on'[f] = x /\ on'[g] = x => f = g
                    /\ \A g \in Handlers : on'[g] = x => AtWork(g)'
                    /\ (\A g \in Handlers : on'[g] # x) => AtRest(x)'
  BY DEF ItemInv
<1>1. /\ x \notin disturbed
      /\ undo'[x] = undo[x] /\ Executed(x)' = Executed(x) /\ Creator(x)' = Creator(x)
      /\ x \in Actions => made'[x] = made[x]
      /\ lock' = x => lock = x
  BY Elsewhere DEF TruthInv
<1>2. \A g \in Handlers \ {h} : at'[g] = at[g] /\ on'[g] = on[g] /\ seen'[g] = seen[g]
  BY Frame DEF StepOf
<1>3. /\ \A f, g \in Handlers : on[f] = x /\ on[g] = x => f = g
      /\ \A g \in Handlers : on[g] = x => AtWork(g)
      /\ (\A g \in Handlers : on[g] # x) => AtRest(x)
  BY <1>1 DEF TruthInv, ItemInv
<1>4. (Unmade(x) => Unmade(x)') /\ (Matched(x) => Matched(x)')
  BY <1>1 DEF Unmade, Matched, Creator
<1>5. \A f, g \in Handlers : on'[f] = x /\ on'[g] = x => f = g
  BY <1>2, <1>3
<1>6. ASSUME NEW g \in Handlers, on'[g] = x PROVE AtWork(g)'
  <2>1. g # h /\ on[g] = x /\ AtWork(g)
    BY <1>2, <1>3, <1>6
  <2>2. QED
    BY <1>1, <1>2, <1>4, <1>6, <2>1 DEF AtWork, Clean, Creator
<1>7. (\A g \in Handlers : on'[g] # x) => AtRest(x)'
  BY <1>1, <1>2, <1>3, <1>4 DEF AtRest
<1>8. QED
  BY <1>5, <1>6, <1>7

\* The item that a call begins to work on.
LEMMA CallStep ==
  ASSUME TypeInv, TruthInv, NEW h \in Handlers, NEW x \in Items, NEW label, NEW v,
         Call(h, x, label, v),
         \/ label \in {"approve", "create", "inspect"} /\ ~Executed(x)
         \/ label \in {"delete", "restore"} /\ Executed(x) /\ v = undo[x]
  PROVE  ItemInv(x)'
<1> SUFFICES ASSUME x \notin disturbed'
             PROVE  /\ \A f, g \in Handlers : on'[f] = x /\ on'[g] = x => f = g
                    /\ \A g \in Handlers : on'[g] = x => AtWork(g)'
                    /\ (\A g \in Handlers : on'[g] # x) => AtRest(x)'
  BY DEF ItemInv
<1>1. x \notin disturbed /\ \A g \in Handlers : on[g] # x
  BY DEF Call
<1>2. AtRest(x)
  BY <1>1 DEF TruthInv, ItemInv
<1>3. UNCHANGED <<action, undo, made, lock>>
  BY DEF Call, rowVars, invoiceVars
<1>4. /\ at' = [at EXCEPT ![h] = label]
      /\ on' = [on EXCEPT ![h] = x]
      /\ seen' = [seen EXCEPT ![h] = v]
  BY DEF Call
<1>5. /\ at'[h] = label /\ on'[h] = x /\ seen'[h] = v
      /\ \A g \in Handlers \ {h} : on'[g] # x
  BY <1>1, <1>4 DEF TypeInv, TypeOK
<1>6. AtWork(h)'
  BY <1>2, <1>3, <1>5 DEF AtWork, AtRest, Clean, Executed, Unmade, Matched, Creator
<1>7. QED
  BY <1>5, <1>6

\* The item that a step works on.
LEMMA OwnStep ==
  ASSUME TypeInv, TruthInv, NEW h \in Handlers, Step(h), NEW x \in Items, on[h] = x
  PROVE  ItemInv(x)'
<1>1. disturbed \subseteq disturbed'
  BY RecordedStep DEF TruthInv, StepOf
<1>2. SUFFICES ASSUME x \notin disturbed'
               PROVE  \/ on'[h] = x /\ AtWork(h)'
                      \/ on'[h] = NoItem /\ AtRest(x)'
  <2>1. CASE x \in disturbed'
    BY <2>1 DEF ItemInv
  <2>2. CASE x \notin disturbed'
    <3>1. \/ on'[h] = x /\ AtWork(h)'
          \/ on'[h] = NoItem /\ AtRest(x)'
      BY <1>2, <2>2
    <3>2. \A g \in Handlers \ {h} : on'[g] = on[g] /\ on[g] # x
      <4>1. \A g \in Handlers \ {h} : on'[g] = on[g]
        BY Frame DEF StepOf
      <4>2. x \notin disturbed
        BY <1>1, <2>2
      <4>3. QED
        BY <4>1, <4>2 DEF TruthInv, ItemInv
    <3>3. NoItem # x
      BY LockFacts
    <3>4. QED
      BY <3>1, <3>2, <3>3 DEF ItemInv
  <2>3. QED
    BY <2>1, <2>2
<1>3. AtWork(h) /\ x \notin disturbed /\ HandlerWired(h)
  BY <1>1, <1>2 DEF TruthInv, ItemInv, TypeInv, Wired
<1>4. UNCHANGED on \/ on'[h] = NoItem
  BY DEF Step, ApproveWrite, Create, NoTarget, Inspect, TakeLock, Record, RecordNudge, Log, Catch,
     Delete, Restore, Cancel, ExecuteError, Lost, GoOn, Return, TypeInv, TypeOK
<1>5. \A y : Creator(y)' = Creator(y)
  BY StepType DEF RowsWired, Creator
<1>6. at[h] = "record" /\ ~Creator(x) => seen[h] # NoData
  BY <1>3, LockFacts DEF HandlerWired, Locks
<1>7. Creator(x) => x \in Actions
  BY DEF Creator
<1>lock. undo[x] # x
  BY <1>3 DEF TruthInv, RecordedInv
<1>8. x \in Nudges => x \notin Actions
  BY UndoConstants
<1> USE <1>3, <1>4, <1>5, LockFacts DEF TypeInv, TypeOK, AtWork, HandlerWired, GoOn, Return, rowVars,
     invoiceVars, Matched, Unmade, Executed
<1>9. CASE ApproveWrite(h)
  BY <1>9 DEF ApproveWrite, SetStatus, AtRest, Clean
<1>10. CASE Create(h)
  BY <1>7, <1>10 DEF Create, Clean
<1>11. CASE NoTarget(h)
  BY <1>11 DEF NoTarget, Clean
<1>12. CASE Inspect(h)
  BY <1>12 DEF Inspect, Clean
<1>13. CASE TakeLock(h)
  BY <1>13 DEF TakeLock, Clean
<1>14. CASE Record(h)
  BY <1>14 DEF Record, SetStatus
<1>15. CASE RecordNudge(h)
  BY <1>6, <1>7, <1>8, <1>15 DEF RecordNudge, AtRest
<1>16. CASE Log(h)
  BY <1>16 DEF Log, AtRest
<1>17. CASE Catch(h)
  BY <1>17 DEF Catch, SetStatus, AtRest, Clean
<1>18. CASE Delete(h)
  BY <1>18 DEF Delete
<1>19. CASE Restore(h)
  BY <1>lock, <1>19 DEF Restore, SetLock
<1>20. CASE Cancel(h)
  BY <1>20 DEF Cancel, SetStatus, AtRest
<1>21. CASE ExecuteError(h) \/ Lost(h)
  BY <1>2, <1>21 DEF ExecuteError, Lost, Fault
<1>22. QED
  BY <1>9, <1>10, <1>11, <1>12, <1>13, <1>14, <1>15, <1>16, <1>17, <1>18, <1>19, <1>20, <1>21 DEF Step

LEMMA TruthNext == TypeInv /\ TruthInv /\ [Next]_vars => TruthInv'
<1> SUFFICES ASSUME TypeInv, TruthInv, [Next]_vars PROVE TruthInv'
  OBVIOUS
<1>1. CASE UNCHANGED vars
  BY <1>1 DEF TruthInv, RecordedInv, ItemInv, AtWork, AtRest, Clean, Executed, Unmade, Matched, Creator,
     vars, invoiceVars, rowVars, handlerVars
<1>2. ASSUME NEW h \in Handlers, StepOf(h) PROVE TruthInv'
  <2>1. RecordedInv'
    BY <1>2, RecordedStep DEF TruthInv
  <2>2. ASSUME NEW x \in Items PROVE ItemInv(x)'
    <3>1. CASE InvoiceStep(h)
      <4>1. on[h] = NoItem
        BY <3>1 DEF InvoiceStep, EditRead, EditWrite, SendRead, SendWrite, PayRead, PayWrite,
           UnlockRead, UnlockWrite, JobRead, JobWrite, Serve, TypeInv, Wired, HandlerWired
      <4>2. on'[h] = NoItem
        BY <3>1, <4>1 DEF InvoiceStep, EditRead, EditWrite, SendRead, SendWrite, PayRead, PayWrite,
           UnlockRead, UnlockWrite, JobRead, JobWrite, Serve, Return, TypeInv, TypeOK
      <4>3. QED
        BY <1>2, <4>1, <4>2, LockFacts, OthersStep
    <3>2. CASE Step(h) /\ on[h] = x
      BY <3>2, OwnStep
    <3>3. CASE Step(h) /\ on[h] # x
      <4>1. on'[h] \in {on[h], NoItem}
        BY <3>3 DEF Step, ApproveWrite, Create, NoTarget, Inspect, TakeLock, Record, RecordNudge,
           Log, Catch, Delete, Restore, Cancel, ExecuteError, Lost, GoOn, Return, TypeInv, TypeOK
      <4>2. QED
        BY <1>2, <3>3, <4>1, LockFacts, OthersStep
    <3>4. ASSUME NEW y \in Items, NEW label, NEW v, Call(h, y, label, v),
                 \/ label \in {"approve", "create", "inspect"} /\ ~Executed(y)
                 \/ label \in {"delete", "restore"} /\ Executed(y) /\ v = undo[y]
          PROVE  ItemInv(x)'
      <4>1. CASE y = x
        BY <3>4, <4>1, CallStep
      <4>2. CASE y # x
        <5>1. on[h] = NoItem /\ on'[h] = y
          BY <3>4 DEF Call, TypeInv, TypeOK, Wired, HandlerWired
        <5>2. QED
          BY <1>2, <4>2, <5>1, LockFacts, OthersStep
      <4>3. QED
        BY <4>1, <4>2
    <3>5. CASE \E a \in Actions : ApproveRead(h, a) \/ ExecuteAction(h, a) \/ UndoAction(h, a)
      BY <3>4, <3>5, ActionCalls DEF Items
    <3>6. CASE \E n \in Nudges : ExecuteNudge(h, n) \/ UndoNudge(h, n)
      BY <3>4, <3>6, NudgeCalls DEF Items
    <3>7. QED
      BY <1>2, <3>1, <3>2, <3>3, <3>5, <3>6 DEF StepOf
  <2>3. QED
    BY <2>1, <2>2 DEF TruthInv
<1>3. QED
  BY <1>1, <1>2 DEF Next, StepOf

(* An item whose calls came one after the other and to their end says      *)
(* truly what is left of it, whatever handlers of other items and of the   *)
(* invoice do meanwhile.                                                   *)
THEOREM ItemsTellTheTruth == Spec => []UndisturbedItemsTellTheTruth
<1>1. Init => TypeInv /\ TruthInv
  BY TypeInit, TruthInit
<1>2. TypeInv /\ TruthInv /\ [Next]_vars => TypeInv' /\ TruthInv'
  BY TypeNext, TruthNext
<1>3. TruthInv => UndisturbedItemsTellTheTruth
  BY DEF TruthInv, ItemInv, AtRest, Matched, Unmade, Creator, UndisturbedItemsTellTheTruth
<1>4. QED
  BY <1>1, <1>2, <1>3, PTL DEF Spec
-----------------------------------------------------------------------------
(* Executions against approvals.                                           *)

\* Handlers that may still execute action a, and those whose execution is not on record yet.
Pending(a) == {h \in Handlers : on[h] = a /\ at[h] \in {"create", "inspect", "lock"}}
Unrecorded(a) == {h \in Handlers : on[h] = a /\ at[h] \in {"create", "inspect", "lock", "record"}}

Worth(a) == Cardinality(Handlers) * approvals[a]

\* While an action is APPROVED, its last approval has paid only for executions under way.
ApprovalInv ==
  \A a \in Actions :
    /\ runs[a] + Cardinality(Pending(a)) <= Worth(a) + faults
    /\ action[a].status = "APPROVED" =>
         runs[a] + Cardinality(Pending(a)) + Cardinality(Handlers)
           <= Worth(a) + faults + Cardinality(Unrecorded(a))

LEMMA ApprovalInit == Init => ApprovalInv
<1> SUFFICES ASSUME Init, NEW a \in Actions
             PROVE  /\ runs[a] + Cardinality(Pending(a)) <= Worth(a) + faults
                    /\ action[a].status # "APPROVED"
  BY DEF ApprovalInv
<1>1. Pending(a) = {}
  BY DEF Init, Pending
<1>2. Cardinality(Pending(a)) = 0 /\ Cardinality(Handlers) \in Nat
  BY <1>1, UndoConstants, FS_EmptySet, FS_CardinalityType
<1>3. Worth(a) = 0
  BY <1>2 DEF Worth, Init
<1>4. QED
  BY <1>2, <1>3 DEF Init

\* What a step of h is to action a: a call that found it APPROVED, an execution, its end, an
\* approval, or nothing.
Called(h, a) ==
  /\ action[a].status = "APPROVED" /\ h \notin Unrecorded(a) /\ h \in Pending(a)'
  /\ action'[a].status = action[a].status
  /\ UNCHANGED <<approvals, runs, faults>>

TookEffect(h, a) ==
  /\ h \in Pending(a) /\ h \notin Pending(a)' /\ h \in Unrecorded(a)'
  /\ runs'[a] = runs[a] + 1 /\ action'[a].status = action[a].status
  /\ UNCHANGED <<approvals, faults>>

Ended(h, a) ==
  /\ h \in Unrecorded(a) /\ h \notin Unrecorded(a)'
  /\ h \in Pending(a) \/ action'[a].status # "APPROVED" \/ faults' = faults + 1
  /\ action'[a].status = action[a].status \/ action'[a].status # "APPROVED"
  /\ faults' \in {faults, faults + 1}
  /\ UNCHANGED <<approvals, runs>>

Approved(h, a) ==
  /\ h \notin Unrecorded(a) /\ h \notin Unrecorded(a)'
  /\ approvals'[a] = approvals[a] + 1
  /\ UNCHANGED <<runs, faults>>

Unmoved(h, a) ==
  /\ h \in Pending(a) <=> h \in Pending(a)'
  /\ h \in Unrecorded(a) <=> h \in Unrecorded(a)'
  /\ runs'[a] = runs[a] /\ approvals'[a] = approvals[a]
  /\ action'[a].status = action[a].status \/ action'[a].status # "APPROVED"
  /\ faults' \in {faults, faults + 1}

LEMMA ApprovalCases ==
  ASSUME TypeInv, NEW h \in Handlers, StepOf(h), NEW a \in Actions
  PROVE  Called(h, a) \/ TookEffect(h, a) \/ Ended(h, a) \/ Approved(h, a) \/ Unmoved(h, a)
<1>0. /\ HandlerWired(h)
      /\ a # NoItem /\ a \notin Nudges
      /\ action \in [Actions -> [type : Types, status : Statuses]]
      /\ at \in [Handlers -> Labels] /\ on \in [Handlers -> Items \cup {NoItem}]
      /\ runs \in [Actions -> Nat] /\ approvals \in [Actions -> Nat]
      /\ faults \in Nat
  BY UndoConstants DEF TypeInv, TypeOK, Wired, Items
<1> USE <1>0 DEF HandlerWired, Called, TookEffect, Ended, Approved, Unmoved, Pending, Unrecorded, Serve, Return,
     GoOn, invoiceVars, rowVars
<1>1. CASE InvoiceStep(h)
  BY <1>1 DEF InvoiceStep, EditRead, EditWrite, SendRead, SendWrite, PayRead, PayWrite,
     UnlockRead, UnlockWrite, JobRead, JobWrite
<1>2. CASE ApproveWrite(h)
  BY <1>2 DEF ApproveWrite, SetStatus
<1>3. CASE Create(h)
  BY <1>3 DEF Create, Ran
<1>4. CASE NoTarget(h) \/ Log(h)
  BY <1>4 DEF NoTarget, Log
<1>5. CASE Inspect(h)
  BY <1>5 DEF Inspect
<1>6. CASE TakeLock(h)
  BY <1>6 DEF TakeLock, Ran
<1>7. CASE Record(h)
  BY <1>7 DEF Record, SetStatus
<1>8. CASE RecordNudge(h)
  BY <1>8 DEF RecordNudge
<1>9. CASE Catch(h)
  BY <1>9 DEF Catch, SetStatus
<1>10. CASE Delete(h) \/ Restore(h)
  BY <1>10 DEF Delete, Restore
<1>11. CASE Cancel(h)
  BY <1>11 DEF Cancel, SetStatus
<1>12. CASE ExecuteError(h) \/ Lost(h)
  BY <1>12 DEF ExecuteError, Lost, Fault
<1>13. ASSUME NEW x \in Actions, ApproveRead(h, x)
       PROVE  Unmoved(h, a)
  BY <1>13 DEF ApproveRead, Call
<1>14. ASSUME NEW x \in Actions, ExecuteAction(h, x)
       PROVE  Called(h, a) \/ Unmoved(h, a)
  BY <1>14 DEF ExecuteAction, Call
<1>15. ASSUME NEW x \in Actions, UndoAction(h, x)
       PROVE  Unmoved(h, a)
  BY <1>15 DEF UndoAction, Call
<1>16. ASSUME NEW n \in Nudges, ExecuteNudge(h, n) \/ UndoNudge(h, n)
       PROVE  Unmoved(h, a)
  BY <1>16 DEF ExecuteNudge, UndoNudge, Call
<1>17. QED
  BY <1>1, <1>2, <1>3, <1>4, <1>5, <1>6, <1>7, <1>8, <1>9, <1>10, <1>11, <1>12, <1>13, <1>14, <1>15, <1>16
  DEF StepOf, Step

\* A set of handlers of which only h comes or goes.
LEMMA OneMoves ==
  ASSUME NEW h \in Handlers, NEW S \in SUBSET Handlers, NEW T \in SUBSET Handlers,
         S \ {h} = T \ {h}
  PROVE  /\ Cardinality(S) \in Nat /\ Cardinality(T) \in Nat
         /\ (h \in S <=> h \in T) => Cardinality(T) = Cardinality(S)
         /\ h \in S /\ h \notin T => Cardinality(T) + 1 = Cardinality(S)
         /\ h \notin S /\ h \in T => Cardinality(T) = Cardinality(S) + 1
<1>1. Cardinality(S) \in Nat /\ Cardinality(T) \in Nat
  BY HandlerCount
<1>2. (h \in S <=> h \in T) => S = T
  OBVIOUS
<1>3. ASSUME h \in S, h \notin T PROVE Cardinality(T) + 1 = Cardinality(S)
  <2>1. T = S \ {h}
    BY <1>3
  <2>2. Cardinality(S \ {h}) = Cardinality(S) - 1
    BY <1>3, HandlerCount
  <2>3. QED
    BY <1>1, <2>1, <2>2
<1>4. ASSUME h \notin S, h \in T PROVE Cardinality(T) = Cardinality(S) + 1
  <2>1. S = T \ {h}
    BY <1>4
  <2>2. Cardinality(T \ {h}) = Cardinality(T) - 1
    BY <1>4, HandlerCount
  <2>3. QED
    BY <1>1, <2>1, <2>2
<1>5. QED
  BY <1>1, <1>2, <1>3, <1>4

LEMMA ApprovalNext == TypeInv /\ ApprovalInv /\ [Next]_vars => ApprovalInv'
<1> SUFFICES ASSUME TypeInv, ApprovalInv, [Next]_vars PROVE ApprovalInv'
  OBVIOUS
<1>1. CASE UNCHANGED vars
  BY <1>1 DEF ApprovalInv, Pending, Unrecorded, Worth, vars, invoiceVars, rowVars, handlerVars
<1>2. ASSUME NEW h \in Handlers, StepOf(h), NEW a \in Actions
      PROVE  /\ runs'[a] + Cardinality(Pending(a)') <= Worth(a)' + faults'
             /\ action'[a].status = "APPROVED" =>
                  runs'[a] + Cardinality(Pending(a)') + Cardinality(Handlers)
                    <= Worth(a)' + faults' + Cardinality(Unrecorded(a)')
  <2> DEFINE H == Cardinality(Handlers)
             p == Cardinality(Pending(a))
             p2 == Cardinality(Pending(a)')
             q == Cardinality(Unrecorded(a))
             q2 == Cardinality(Unrecorded(a)')
             s == action[a].status
             s2 == action'[a].status
             w == Worth(a)
             w2 == Worth(a)'
             r == runs[a]
             r2 == runs'[a]
  <2>1. /\ Pending(a) \in SUBSET Handlers /\ Pending(a)' \in SUBSET Handlers
        /\ Unrecorded(a) \in SUBSET Handlers /\ Unrecorded(a)' \in SUBSET Handlers
        /\ Pending(a) \subseteq Unrecorded(a) /\ Pending(a)' \subseteq Unrecorded(a)'
    BY DEF Pending, Unrecorded
  <2>2. /\ Pending(a) \ {h} = Pending(a)' \ {h}
        /\ Unrecorded(a) \ {h} = Unrecorded(a)' \ {h}
    BY <1>2, Frame DEF StepOf, Pending, Unrecorded
  <2>3. /\ p \in Nat /\ p2 \in Nat
        /\ (h \in Pending(a) <=> h \in Pending(a)') => p2 = p
        /\ h \in Pending(a) /\ h \notin Pending(a)' => p2 + 1 = p
        /\ h \notin Pending(a) /\ h \in Pending(a)' => p2 = p + 1
    BY <2>1, <2>2, OneMoves
  <2>4. /\ q \in Nat /\ q2 \in Nat
        /\ (h \in Unrecorded(a) <=> h \in Unrecorded(a)') => q2 = q
        /\ h \in Unrecorded(a) /\ h \notin Unrecorded(a)' => q2 + 1 = q
        /\ h \notin Unrecorded(a) /\ h \in Unrecorded(a)' => q2 = q + 1
    BY <2>1, <2>2, OneMoves
  <2>5. H \in Nat /\ q <= H /\ q2 <= H
    BY <2>1, HandlerCount
  <2>6. /\ r \in Nat /\ faults \in Nat /\ approvals[a] \in Nat
    BY UndoConstants DEF TypeInv, TypeOK
  <2>7. w \in Nat
    BY <2>5, <2>6 DEF Worth
  <2>8. /\ r + p <= w + faults
        /\ s = "APPROVED" => r + p + H <= w + faults + q
    BY DEF ApprovalInv
  <2>9. approvals'[a] = approvals[a] => w2 = w
    BY DEF Worth
  <2>10. approvals'[a] = approvals[a] + 1 => w2 = w + H
    <3>1. H * (approvals[a] + 1) = H * approvals[a] + H
      BY <2>5, <2>6
    <3>2. QED
      BY <3>1 DEF Worth
  <2>11. SUFFICES /\ r2 + p2 <= w2 + faults'
                  /\ s2 = "APPROVED" => r2 + p2 + H <= w2 + faults' + q2
    OBVIOUS
  <2>12. CASE Called(h, a)
    <3>1. /\ s = "APPROVED" /\ p2 = p + 1 /\ q2 = q + 1 /\ r2 = r /\ w2 = w /\ faults' = faults
      BY <2>1, <2>3, <2>4, <2>9, <2>12 DEF Called
    <3>2. QED
      BY <2>3, <2>4, <2>5, <2>6, <2>7, <2>8, <3>1
  <2>13. CASE TookEffect(h, a)
    <3>1. /\ s2 = s /\ p2 + 1 = p /\ q2 = q /\ r2 = r + 1 /\ w2 = w /\ faults' = faults
      BY <2>1, <2>3, <2>4, <2>9, <2>13 DEF TookEffect
    <3>2. QED
      BY <2>3, <2>4, <2>5, <2>6, <2>7, <2>8, <3>1
  <2>14. CASE Ended(h, a)
    <3>1. /\ s2 = s \/ s2 # "APPROVED"
          /\ p2 + 1 = p \/ (p2 = p /\ (s2 # "APPROVED" \/ faults' = faults + 1))
          /\ q2 + 1 = q /\ r2 = r /\ w2 = w /\ faults' \in {faults, faults + 1}
      BY <2>1, <2>3, <2>4, <2>9, <2>14 DEF Ended
    <3>2. QED
      BY <2>3, <2>4, <2>5, <2>6, <2>7, <2>8, <3>1
  <2>15. CASE Approved(h, a)
    <3>1. p2 = p /\ q2 = q /\ r2 = r /\ w2 = w + H /\ faults' = faults
      BY <2>1, <2>3, <2>4, <2>10, <2>15 DEF Approved
    <3>2. QED
      BY <2>3, <2>4, <2>5, <2>6, <2>7, <2>8, <3>1
  <2>16. CASE Unmoved(h, a)
    <3>1. /\ s2 = s \/ s2 # "APPROVED"
          /\ p2 = p /\ q2 = q /\ r2 = r /\ w2 = w /\ faults' \in {faults, faults + 1}
      BY <2>3, <2>4, <2>9, <2>16 DEF Unmoved
    <3>2. QED
      BY <2>3, <2>4, <2>5, <2>6, <2>7, <2>8, <3>1
  <2>17. QED
    BY <1>2, <2>12, <2>13, <2>14, <2>15, <2>16, ApprovalCases
<1>3. QED
  BY <1>1, <1>2 DEF Next, StepOf, ApprovalInv

(* An approval is worth at most one execution for each handler, and every  *)
(* fault at most one more: a handler that begins later finds the action    *)
(* EXECUTED, FAILED or CANCELED (approveAction, executeAction,             *)
(* undoAction).                                                            *)
THEOREM Executions == Spec => []ExecutionsPerApproval
<1>1. Init => TypeInv /\ ApprovalInv
  BY TypeInit, ApprovalInit
<1>2. TypeInv /\ ApprovalInv /\ [Next]_vars => TypeInv' /\ ApprovalInv'
  BY TypeNext, ApprovalNext
<1>3. TypeInv /\ ApprovalInv => ExecutionsPerApproval
  <2> SUFFICES ASSUME TypeInv, ApprovalInv, NEW a \in Actions
               PROVE  runs[a] <= Cardinality(Handlers) * approvals[a] + faults
    BY DEF ExecutionsPerApproval
  <2>1. Pending(a) \in SUBSET Handlers
    BY DEF Pending
  <2>2. Cardinality(Pending(a)) \in Nat /\ Cardinality(Handlers) \in Nat
    BY <2>1, HandlerCount
  <2>3. runs[a] \in Nat /\ approvals[a] \in Nat /\ faults \in Nat
    BY UndoConstants DEF TypeInv, TypeOK
  <2>4. Worth(a) \in Nat
    BY <2>2, <2>3 DEF Worth
  <2>5. runs[a] + Cardinality(Pending(a)) <= Worth(a) + faults
    BY DEF ApprovalInv
  <2>6. runs[a] <= Worth(a) + faults
    BY <2>2, <2>3, <2>4, <2>5
  <2>7. QED
    BY <2>6 DEF Worth
<1>4. QED
  BY <1>1, <1>2, <1>3, PTL DEF Spec
=============================================================================
