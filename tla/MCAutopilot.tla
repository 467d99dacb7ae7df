----------------------------- MODULE MCAutopilot ----------------------------
(* Small instances of Autopilot: one policy, its template on one entity. *)
EXTENDS Autopilot, TLC

CONSTANTS h1, h2, k1, k2, r1, r2, e1, va, vb

ReassignKind == k1 :> "REASSIGN_WORK"
EscalateKind == k1 :> "ESCALATE_INCIDENT"
DueDateKind == [k \in Keys |-> "SET_DUE_DATE"]

OneEntity == [k \in Keys |-> e1]
OneValue == [k \in Keys |-> va]

Symmetry == Permutations(Handlers) \cup Permutations(Runs)
=============================================================================
