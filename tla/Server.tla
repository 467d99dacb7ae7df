------------------------------- MODULE Server -------------------------------
(***************************************************************************)
(* The requests a component is serving.  A NestJS handler runs alone       *)
(* between two awaits, so it is a sequence of steps, one for each round    *)
(* trip to the database or to another service, and other handlers run      *)
(* between them.  frame[h] holds what handler h has read and where it      *)
(* goes on; nothing of it survives a restart.                              *)
(***************************************************************************)
EXTENDS Naturals, FiniteSets

CONSTANT Handlers   \* requests and jobs that may be under way at the same time

ASSUME HandlersFinite == IsFiniteSet(Handlers) /\ Handlers # {}

VARIABLE frame      \* of each handler: a record with its next step op, and what it read

Idle == [op |-> "idle"]

At(h, op) == frame[h].op = op

Serving(op) == {h \in Handlers : At(h, op)}

ServerInit == frame = [h \in Handlers |-> Idle]

\* A request has come in and done its reads; it goes on with f.
Serve(h, f) ==
  /\ frame[h] = Idle
  /\ frame' = [frame EXCEPT ![h] = f]

GoOn(h, f) == frame' = [frame EXCEPT ![h] = f]

Finish(h) == GoOn(h, Idle)

\* A database error or a restart ends a request between two of its steps.
Drop(h) ==
  /\ frame[h] # Idle
  /\ Finish(h)
=============================================================================
