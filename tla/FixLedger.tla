----------------------------- MODULE FixLedger ------------------------------
(***************************************************************************)
(* What the fix actions promise, without rows, handlers and round trips:   *)
(* the template of a run is executed only on a permission, each permission *)
(* pays for one execution, and a run that was requested as not needing a   *)
(* confirmation gets exactly one permission, when it is requested.         *)
(***************************************************************************)
EXTENDS Naturals

CONSTANT Keys \* idempotency keys

VARIABLES
  stage,   \* "absent", "awaiting" a confirmation, or "granted"
  auto,    \* runs requested without need of a confirmation
  grants,  \* permissions given
  effects  \* permissions spent

ledgerVars == <<stage, auto, grants, effects>>

Init ==
  /\ stage = [k \in Keys |-> "absent"]
  /\ auto = {}
  /\ grants = [k \in Keys |-> 0]
  /\ effects = [k \in Keys |-> 0]

Request(k) ==
  /\ stage[k] = "absent"
  /\ stage' = [stage EXCEPT ![k] = "awaiting"]
  /\ UNCHANGED <<auto, grants, effects>>

RequestGranted(k) ==
  /\ stage[k] = "absent"
  /\ stage' = [stage EXCEPT ![k] = "granted"]
  /\ auto' = auto \cup {k}
  /\ grants' = [grants EXCEPT ![k] = @ + 1]
  /\ UNCHANGED effects

\* Confirmations that arrive together are all accepted.
Grant(k) ==
  /\ stage[k] # "absent"
  /\ k \notin auto
  /\ stage' = [stage EXCEPT ![k] = "granted"]
  /\ grants' = [grants EXCEPT ![k] = @ + 1]
  /\ UNCHANGED <<auto, effects>>

Spend(k) ==
  /\ effects[k] < grants[k]
  /\ effects' = [effects EXCEPT ![k] = @ + 1]
  /\ UNCHANGED <<stage, auto, grants>>

Next == \E k \in Keys : Request(k) \/ RequestGranted(k) \/ Grant(k) \/ Spend(k)

Spec == Init /\ [][Next]_ledgerVars
=============================================================================
