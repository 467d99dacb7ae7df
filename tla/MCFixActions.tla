---------------------------- MODULE MCFixActions ----------------------------
(* Small instances of FixActions. *)
EXTENDS FixActions, TLC

CONSTANTS h1, h2, k1, k2, e1, va, vb

\* One reassignment, which needs a confirmation.
ReassignKind == k1 :> "REASSIGN_WORK"
ReassignEntity == k1 :> e1
ReassignValue == k1 :> vb

\* Two reminders for one invoice, one of them executed when it is created.
MixedKind == k1 :> "SEND_INVOICE_REMINDER" @@ k2 :> "SEND_INVOICE_REMINDER"
MixedEntity == [k \in Keys |-> e1]
MixedValue == [k \in Keys |-> va]

\* Handlers are interchangeable: used only where no liveness is checked.
HandlerSymmetry == Permutations(Handlers)
=============================================================================
