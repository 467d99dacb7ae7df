----------------------------- MODULE Undoables -----------------------------
(***************************************************************************)
(* An invoice and what may be executed on it and undone within a minute:   *)
(* AI actions (apps/api/src/ai-actions/ai-actions.service.ts) and nudges   *)
(* (nudges/nudges.service.ts), next to the invoice's own operations        *)
(* (invoices/invoices.service.ts) and the locking job                      *)
(* (jobs/jobs-run.service.ts).  No two of them share a transaction: every  *)
(* handler reads a row, checks it and later writes by id.                  *)
(*                                                                         *)
(* There is no clock: a due date may have passed whenever it is looked at, *)
(* a lockAt too, and any undo may come within its 60 seconds.  Work items  *)
(* and deals, whose fields are saved and restored like the lock, and the   *)
(* other columns of the invoice are left out.                              *)
(***************************************************************************)
EXTENDS Naturals, FiniteSets

CONSTANTS
  Handlers,       \* requests and jobs that may be under way at the same time
  Actions,        \* rows of ai_actions
  Nudges,         \* OVERDUE_INVOICE nudges on the invoice
  NoItem,         \* the target of a handler that serves the invoice, or nothing
  NoLock,         \* lockedAt and lockedByUserId are null
  BySend, ByJob,  \* a lock taken by send and by the job
  NoData,         \* undoData is null
  MaxFaults       \* bound on database errors and restarts

Items == Actions \cup Nudges

\* A lock is known by what took it, as lockedAt and lockedByUserId tell in the code.
Locks == {NoLock, BySend, ByJob} \cup Items

ASSUME UndoConstants ==
  /\ IsFiniteSet(Handlers) /\ Handlers # {}
  /\ Actions \cap Nudges = {} /\ NoItem \notin Items
  /\ Cardinality({NoLock, BySend, ByJob}) = 3 /\ {NoLock, BySend, ByJob} \cap Items = {}
  /\ NoData \notin Locks /\ (Locks \cup {NoData}) \cap Nat = {}
  /\ MaxFaults \in Nat

VARIABLES
  invoice,   \* status of the invoice
  lock,      \* its lock
  action,    \* type and status of each AI action
  undo,      \* undoData of each item; a nudge is executed while it has some
  made,      \* of each action: the nudges it created that are still there
  at,        \* next step of each handler
  on,        \* the item it executes or undoes
  seen,      \* the lock or the created nudge it carries to a later step
  late,      \* edits written since the lock was taken
  sends,     \* writes of SENT so far
  approvals, \* writes of APPROVED so far, by action
  runs,      \* effects so far, by action
  disturbed, \* items with overlapping or lost calls, or whose lock another one recorded
  faults

invoiceVars == <<invoice, lock, late, sends>>
rowVars == <<action, undo, made, approvals, runs>>
handlerVars == <<at, on, seen>>
vars == <<invoiceVars, rowVars, handlerVars, disturbed, faults>>

Data == Locks \cup Nat \cup {NoData}
Types == {"CREATE_NUDGE", "LOCK_INVOICE"}
Statuses == {"PROPOSED", "APPROVED", "EXECUTED", "FAILED", "CANCELED"}
Labels == {"idle", "edit", "send", "pay", "unlock", "autolock", "approve", "create", "inspect",
           "lock", "record", "log", "catch", "delete", "restore", "cancel"}

TypeOK ==
  /\ invoice \in {"DRAFT", "SENT", "PAID"}
  /\ lock \in Locks
  /\ action \in [Actions -> [type : Types, status : Statuses]]
  /\ undo \in [Items -> Data]
  /\ made \in [Actions -> SUBSET Nat]
  /\ at \in [Handlers -> Labels]
  /\ on \in [Handlers -> Items \cup {NoItem}]
  /\ seen \in [Handlers -> Data]
  /\ late \in Nat /\ sends \in Nat
  /\ approvals \in [Actions -> Nat]
  /\ runs \in [Actions -> Nat]
  /\ disturbed \subseteq Items
  /\ faults \in 0..MaxFaults

Init ==
  /\ invoice = "DRAFT"
  /\ lock = NoLock
  /\ action \in [Actions -> [type : Types, status : {"PROPOSED"}]]
  /\ undo = [x \in Items |-> NoData]
  /\ made = [a \in Actions |-> {}]
  /\ at = [h \in Handlers |-> "idle"]
  /\ on = [h \in Handlers |-> NoItem]
  /\ seen = [h \in Handlers |-> NoData]
  /\ late = 0 /\ sends = 0
  /\ approvals = [a \in Actions |-> 0]
  /\ runs = [a \in Actions |-> 0]
  /\ disturbed = {}
  /\ faults = 0

-----------------------------------------------------------------------------
(* Handlers.                                                               *)

\* A request for the invoice has read the row and goes on with the write.
Serve(h, label) ==
  /\ at[h] = "idle"
  /\ at' = [at EXCEPT ![h] = label]
  /\ UNCHANGED <<on, seen, rowVars, invoiceVars, disturbed, faults>>

\* A call on item x has read the row; another one may be under way.
Call(h, x, label, v) ==
  /\ at[h] = "idle"
  /\ at' = [at EXCEPT ![h] = label]
  /\ on' = [on EXCEPT ![h] = x]
  /\ seen' = [seen EXCEPT ![h] = v]
  /\ disturbed' = IF \E g \in Handlers : on[g] = x THEN disturbed \cup {x} ELSE disturbed
  /\ UNCHANGED <<rowVars, invoiceVars, faults>>

GoOn(h, label, v) ==
  /\ at' = [at EXCEPT ![h] = label]
  /\ seen' = [seen EXCEPT ![h] = v]
  /\ UNCHANGED on

Return(h) ==
  /\ at' = [at EXCEPT ![h] = "idle"]
  /\ on' = [on EXCEPT ![h] = NoItem]
  /\ seen' = [seen EXCEPT ![h] = NoData]

SetLock(v) ==
  /\ lock' = v
  /\ late' = IF lock = NoLock \/ v = NoLock THEN 0 ELSE late

-----------------------------------------------------------------------------
(* The invoice.                                                            *)

\* Mutant: the lock is not looked at.
EditReadBlindly(h) == Serve(h, "edit")

\* update: the lock is checked, the company and the deal are looked up ...
EditRead(h) ==
  /\ lock = NoLock
  /\ Serve(h, "edit")

\* ... and the row is written by id.
EditWrite(h) ==
  /\ at[h] = "edit"
  /\ late' = IF lock = NoLock THEN late ELSE late + 1
  /\ Return(h)
  /\ UNCHANGED <<invoice, lock, sends, rowVars, disturbed, faults>>

\* Mutant: an invoice may be sent again until it is paid.
SendReadAgain(h) ==
  /\ invoice # "PAID"
  /\ Serve(h, "send")

SendRead(h) ==
  /\ invoice = "DRAFT"
  /\ Serve(h, "send")

SendWrite(h) ==
  /\ at[h] = "send"
  /\ invoice' = "SENT"
  /\ SetLock(BySend)
  /\ sends' = sends + 1
  /\ Return(h)
  /\ UNCHANGED <<rowVars, disturbed, faults>>

\* markPaid asks for the effective status SENT or OVERDUE, and every unpaid invoice is
\* OVERDUE after its due date, drafts included.
PayRead(h) ==
  /\ invoice # "PAID"
  /\ Serve(h, "pay")

PayWrite(h) ==
  /\ at[h] = "pay"
  /\ invoice' = "PAID"
  /\ Return(h)
  /\ UNCHANGED <<lock, late, sends, rowVars, disturbed, faults>>

UnlockRead(h) ==
  /\ lock # NoLock
  /\ Serve(h, "unlock")

UnlockWrite(h) ==
  /\ at[h] = "unlock"
  /\ SetLock(NoLock)
  /\ Return(h)
  /\ UNCHANGED <<invoice, sends, rowVars, disturbed, faults>>

\* runAutoLockInvoices lists the unlocked sent invoices whose lockAt has passed ...
JobRead(h) ==
  /\ invoice = "SENT" /\ lock = NoLock
  /\ Serve(h, "autolock")

\* ... and locks those that still are unlocked, whatever their status.
JobWrite(h) ==
  /\ at[h] = "autolock"
  /\ SetLock(IF lock = NoLock THEN ByJob ELSE lock)
  /\ Return(h)
  /\ UNCHANGED <<invoice, sends, rowVars, disturbed, faults>>

-----------------------------------------------------------------------------
(* AI actions and nudges.                                                  *)

SetStatus(a, s) == action' = [action EXCEPT ![a] = [type |-> @.type, status |-> s]]

ApproveRead(h, a) ==
  /\ action[a].status = "PROPOSED"
  /\ Call(h, a, "approve", NoData)

ApproveWrite(h) ==
  /\ at[h] = "approve"
  /\ SetStatus(on[h], "APPROVED")
  /\ approvals' = [approvals EXCEPT ![on[h]] = @ + 1]
  /\ Return(h)
  /\ UNCHANGED <<undo, made, runs, invoiceVars, disturbed, faults>>

ExecuteAction(h, a) ==
  /\ action[a].status = "APPROVED"
  /\ Call(h, a, IF action[a].type = "CREATE_NUDGE" THEN "create" ELSE "inspect", NoData)

ExecuteNudge(h, n) ==
  /\ undo[n] = NoData
  /\ Call(h, n, "inspect", NoData)

Ran(x) == IF x \in Actions THEN [runs EXCEPT ![x] = @ + 1] ELSE runs

\* performExecution of CREATE_NUDGE: a new nudge for an active user of the target role.
Create(h) ==
  /\ at[h] = "create"
  /\ LET a == on[h]
         n == runs[a] + 1
     IN  /\ made' = [made EXCEPT ![a] = @ \cup {n}]
         /\ runs' = Ran(a)
         /\ GoOn(h, "record", n)
  /\ UNCHANGED <<action, undo, approvals, invoiceVars, disturbed, faults>>

\* No such user is left.
NoTarget(h) ==
  /\ at[h] = "create"
  /\ GoOn(h, "catch", NoData)
  /\ UNCHANGED <<rowVars, invoiceVars, disturbed, faults>>

\* LOCK_INVOICE and executeByType read the invoice; a nudge takes no lock that is
\* taken.  The lock read becomes the undo data.
Inspect(h) ==
  /\ at[h] = "inspect"
  /\ GoOn(h, IF on[h] \in Nudges /\ lock # NoLock THEN "record" ELSE "lock", lock)
  /\ disturbed' = disturbed \cup ({lock} \cap Items)
  /\ UNCHANGED <<rowVars, invoiceVars, faults>>

TakeLock(h) ==
  /\ at[h] = "lock"
  /\ SetLock(on[h])
  /\ runs' = Ran(on[h])
  /\ GoOn(h, "record", seen[h])
  /\ UNCHANGED <<action, undo, made, approvals, invoice, sends, disturbed, faults>>

\* Mutant: the undo data is not stored with the status.
RecordForgets(h) ==
  /\ at[h] = "record" /\ on[h] \in Actions
  /\ SetStatus(on[h], "EXECUTED")
  /\ GoOn(h, "log", NoData)
  /\ UNCHANGED <<undo, made, approvals, runs, invoiceVars, disturbed, faults>>

Record(h) ==
  /\ at[h] = "record" /\ on[h] \in Actions
  /\ SetStatus(on[h], "EXECUTED")
  /\ undo' = [undo EXCEPT ![on[h]] = seen[h]]
  /\ GoOn(h, "log", NoData)
  /\ UNCHANGED <<made, approvals, runs, invoiceVars, disturbed, faults>>

RecordNudge(h) ==
  /\ at[h] = "record" /\ on[h] \in Nudges
  /\ undo' = [undo EXCEPT ![on[h]] = seen[h]]
  /\ Return(h)
  /\ UNCHANGED <<action, made, approvals, runs, invoiceVars, disturbed, faults>>

\* The activity log is written inside executeAction's try.
Log(h) ==
  /\ at[h] = "log"
  /\ Return(h)
  /\ UNCHANGED <<rowVars, invoiceVars, disturbed, faults>>

Catch(h) ==
  /\ at[h] = "catch"
  /\ SetStatus(on[h], "FAILED")
  /\ Return(h)
  /\ UNCHANGED <<undo, made, approvals, runs, invoiceVars, disturbed, faults>>

UndoAction(h, a) ==
  /\ action[a].status = "EXECUTED" /\ undo[a] # NoData
  /\ Call(h, a, IF action[a].type = "CREATE_NUDGE" THEN "delete" ELSE "restore", undo[a])

UndoNudge(h, n) ==
  /\ undo[n] # NoData
  /\ Call(h, n, "restore", undo[n])

Delete(h) ==
  /\ at[h] = "delete"
  /\ made' = [made EXCEPT ![on[h]] = @ \ {seen[h]}]
  /\ GoOn(h, "cancel", NoData)
  /\ UNCHANGED <<action, undo, approvals, runs, invoiceVars, disturbed, faults>>

\* The lock is what it was at the execution, whatever happened to it since.
Restore(h) ==
  /\ at[h] = "restore"
  /\ SetLock(seen[h])
  /\ GoOn(h, "cancel", NoData)
  /\ UNCHANGED <<rowVars, invoice, sends, disturbed, faults>>

\* Mutant: an undone action may be executed again.
CancelReopens(h) ==
  /\ at[h] = "cancel"
  /\ IF on[h] \in Actions THEN SetStatus(on[h], "APPROVED") ELSE UNCHANGED action
  /\ undo' = [undo EXCEPT ![on[h]] = NoData]
  /\ Return(h)
  /\ UNCHANGED <<made, approvals, runs, invoiceVars, disturbed, faults>>

\* Mutant: the status, a string to the database, is spelt otherwise.
CancelMisspelt(h) ==
  /\ at[h] = "cancel"
  /\ IF on[h] \in Actions THEN SetStatus(on[h], "CANCELLED") ELSE UNCHANGED action
  /\ undo' = [undo EXCEPT ![on[h]] = NoData]
  /\ Return(h)
  /\ UNCHANGED <<made, approvals, runs, invoiceVars, disturbed, faults>>

Cancel(h) ==
  /\ at[h] = "cancel"
  /\ IF on[h] \in Actions THEN SetStatus(on[h], "CANCELED") ELSE UNCHANGED action
  /\ undo' = [undo EXCEPT ![on[h]] = NoData]
  /\ Return(h)
  /\ UNCHANGED <<made, approvals, runs, invoiceVars, disturbed, faults>>

-----------------------------------------------------------------------------
(* Faults.                                                                 *)

Fault(h) ==
  /\ faults < MaxFaults
  /\ faults' = faults + 1
  /\ disturbed' = disturbed \cup ({on[h]} \cap Items)
  /\ UNCHANGED <<rowVars, invoiceVars>>

\* A database error in executeAction's try; the log is written after EXECUTED.
ExecuteError(h) ==
  /\ on[h] \in Actions /\ at[h] \in {"create", "inspect", "lock", "record", "log"}
  /\ GoOn(h, "catch", NoData)
  /\ Fault(h)

\* A restart, or a database error anywhere else.
Lost(h) ==
  /\ at[h] # "idle"
  /\ Return(h)
  /\ Fault(h)

-----------------------------------------------------------------------------
InvoiceStep(h) ==
  \/ EditRead(h) \/ EditWrite(h)
  \/ SendRead(h) \/ SendWrite(h)
  \/ PayRead(h) \/ PayWrite(h)
  \/ UnlockRead(h) \/ UnlockWrite(h)
  \/ JobRead(h) \/ JobWrite(h)

Step(h) ==
  \/ ApproveWrite(h) \/ Create(h) \/ NoTarget(h) \/ Inspect(h) \/ TakeLock(h) \/ Record(h)
  \/ RecordNudge(h) \/ Log(h) \/ Catch(h) \/ Delete(h) \/ Restore(h) \/ Cancel(h)
  \/ ExecuteError(h) \/ Lost(h)

Next ==
  \E h \in Handlers :
    \/ InvoiceStep(h)
    \/ Step(h)
    \/ \E a \in Actions : ApproveRead(h, a) \/ ExecuteAction(h, a) \/ UndoAction(h, a)
    \/ \E n \in Nudges : ExecuteNudge(h, n) \/ UndoNudge(h, n)

Spec == Init /\ [][Next]_vars

-----------------------------------------------------------------------------
(* Properties.                                                             *)

Executed(x) == IF x \in Actions THEN action[x].status = "EXECUTED" ELSE undo[x] # NoData

(* What an item says of itself is true as long as its calls came one after *)
(* the other and to their end: between calls the nudge it created is there *)
(* if and only if it is EXECUTED, and its lock is on the invoice only      *)
(* while it is executed, so an undo leaves nothing behind and FAILED means *)
(* that nothing happened (executeAction, undoAction, execute and undo,     *)
(* whose writes are spread over three requests).                           *)
UndisturbedItemsTellTheTruth ==
  \A x \in Items \ disturbed :
    (\A h \in Handlers : on[h] # x) =>
      /\ lock = x => Executed(x)
      /\ x \in Actions /\ action[x].type = "CREATE_NUDGE" =>
           made[x] = IF Executed(x) THEN {undo[x]} ELSE {}

(* An approval is worth one execution per handler: overlapping requests    *)
(* may each execute an APPROVED action, but without another approval no    *)
(* undo or failure gives a handler a second one (approveAction,            *)
(* executeAction, undoAction).                                             *)
ExecutionsPerApproval ==
  \A a \in Actions : runs[a] <= Cardinality(Handlers) * approvals[a] + faults

(* An edit may land on a locked invoice, since update checks the lock on a *)
(* row it read earlier; but only edits under way when the lock was taken   *)
(* do, at most one for each handler other than the one that took it.       *)
LateEditsBounded == late + 1 <= Cardinality(Handlers)

(* A send that read DRAFT may write SENT over a payment, and PAID is lost; *)
(* but no more writes of SENT happen in all than there are handlers, since *)
(* nothing makes the invoice a draft again (send, markPaid).               *)
SendsBounded == sends <= Cardinality(Handlers)
=============================================================================
