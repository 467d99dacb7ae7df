------------------------------ MODULE Rotation ------------------------------
(***************************************************************************)
(* Whose turn it is on an on-call schedule (oncall/oncall.resolver.ts).    *)
(* The members of a tier take turns, each for a day or a week; the turn is *)
(* counted from the schedule's start on clocks set back by the hand-off    *)
(* hour, which wrap within the date they show.  Administrators edit the    *)
(* schedule, its members and overrides, each with one write                *)
(* (oncall/oncall.service.ts).                                             *)
(***************************************************************************)
EXTENDS Naturals, FiniteSets

CONSTANTS
  Day,          \* hours of a day: 24
  Turns,        \* days a turn may last: 1 for DAILY, 7 for WEEKLY
  People,       \* users
  Places,       \* number of orders a member may be given
  MaxHours,     \* bound on the clock
  MaxEdits      \* bound on the edits

None == "none"

VARIABLES
  now,          \* hours since the first midnight
  startAt,      \* startAt of the schedule
  handoff,      \* its handoffHour
  turn,         \* days of a turn, from handoffInterval
  place,        \* of each order: the active member of the tier who has it, or none
  override,     \* user an override in force puts on call, or none
  edits         \* edits so far

vars == <<now, startAt, handoff, turn, place, override, edits>>

TypeOK ==
  /\ now \in 0..MaxHours
  /\ startAt \in 0..(Day + 1) /\ handoff \in 0..(Day - 1)
  /\ turn \in Turns
  /\ place \in [1..Places -> People \cup {None}]
  /\ override \in People \cup {None}
  /\ edits \in 0..MaxEdits

Init ==
  /\ now = 0 /\ startAt = 0 /\ handoff = 0 /\ turn = 1
  /\ place = [o \in 1..Places |-> None] /\ override = None /\ edits = 0

-----------------------------------------------------------------------------
(* Whose turn.                                                             *)

\* Mutant: the hand-off hour is added.
PseudoLocalAhead(t) == ((t \div Day) * Day) + (((t % Day) + handoff) % Day)

\* toPseudoLocalTimestamp: the date stays, the hour is set back by the hand-off hour modulo a day.
PseudoLocal(t) == ((t \div Day) * Day) + (((t % Day) + Day - handoff) % Day)

\* computeSlotIndex
SlotIndex ==
  LET start == PseudoLocal(startAt)
      elapsed == IF PseudoLocal(now) > start THEN PseudoLocal(now) - start ELSE 0
  IN elapsed \div (turn * Day)

\* The orders of the active members of the tier, and the member who has the n-th of them.
Orders == {o \in 1..Places : place[o] # None}
MemberAt(n) == place[CHOOSE o \in Orders : Cardinality({p \in Orders : p <= o}) = n]

\* pickUserForTier
Picked == (SlotIndex % Cardinality(Orders)) + 1

\* resolveSchedule: an override goes before the member whose turn it is.
OnCallUser == IF override # None THEN override
              ELSE IF Orders = {} THEN None ELSE MemberAt(Picked)

-----------------------------------------------------------------------------
(* Time and edits.                                                         *)

Edit == edits < MaxEdits /\ edits' = edits + 1

HourPasses ==
  /\ now < MaxHours
  /\ now' = now + 1
  /\ UNCHANGED <<startAt, handoff, turn, place, override, edits>>

\* createSchedule, updateSchedule
UpdateSchedule(start, hour, days) ==
  /\ Edit
  /\ startAt' = start /\ handoff' = hour /\ turn' = days
  /\ UNCHANGED <<now, place, override>>

\* createMember, updateMember, removeMember; an order that is taken is refused by the unique index.
MemberChanges(o, u) ==
  /\ u = None \/ place[o] = None
  /\ Edit
  /\ place' = [place EXCEPT ![o] = u]
  /\ UNCHANGED <<now, startAt, handoff, turn, override>>

\* createOverride, removeOverride, and the end of its time.
OverrideChanges(u) ==
  /\ Edit
  /\ override' = u
  /\ UNCHANGED <<now, startAt, handoff, turn, place>>

Next ==
  \/ HourPasses
  \/ \E start \in 0..(Day + 1), hour \in 0..(Day - 1), days \in Turns :
       UpdateSchedule(start, hour, days)
  \/ \E u \in People \cup {None} :
       OverrideChanges(u) \/ \E o \in 1..Places : MemberChanges(o, u)

Spec == Init /\ [][Next]_vars

-----------------------------------------------------------------------------
(* Properties.                                                             *)

\* The start is at a hand-off, or there is no hand-off hour to speak of.
Aligned == startAt % Day = handoff \/ handoff = 0

\* An hour passes while nobody edits a schedule that starts at its hand-off hour.
QuietHour == now' = now + 1 /\ Aligned /\ Orders # {}

HandsOver ==
  QuietHour =>
    /\ Picked' \in {Picked, (Picked % Cardinality(Orders)) + 1}
    /\ SlotIndex' >= SlotIndex

(* On a schedule that starts at its hand-off hour, an hour that passes     *)
(* leaves the turn with the member who has it or passes it to the next     *)
(* one, and never back (computeSlotIndex, pickUserForTier).                *)
TurnsPassInOrder == [][HandsOver]_vars

(* Without an override somebody is on call as soon as the tier has an      *)
(* active member (pickUserForTier).                                        *)
SomebodyIsOnCall == (\E o \in 1..Places : place[o] # None) => OnCallUser # None
=============================================================================
