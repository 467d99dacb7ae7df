------------------------------- MODULE OnCall -------------------------------
(***************************************************************************)
(* Which on-call schedule is in force (oncall/oncall.resolver.ts).  A      *)
(* schedule is active inside its coverage window and off its holidays; an  *)
(* escalation step may insist on the schedules that others fall back to.   *)
(* Administrators edit schedules and calendars (oncall/oncall.service.ts). *)
(* All times are in one time zone.  An edit finds the schedule and writes  *)
(* by id; schedules are never deleted, so it is one step here.             *)
(***************************************************************************)
EXTENDS Naturals, FiniteSets

CONSTANTS
  N,            \* schedules 1..N, the oldest first
  Day,          \* hours of a day
  Windows,      \* <<coverageStart, coverageEnd>> of schedules; equal for the whole day
  MaxDisabled   \* bound on the disabled schedules

Schedules == 1..N

VARIABLES
  now,          \* the hour of the day
  enabled,      \* schedules not disabled
  window,       \* coverage window of each
  holidays,     \* schedules with a linked, enabled calendar that has today as a holiday
  fallback      \* fallbackScheduleId of each, 0 for none

vars == <<now, enabled, window, holidays, fallback>>

TypeOK ==
  /\ now \in 0..(Day - 1)
  /\ enabled \subseteq Schedules
  /\ window \in [Schedules -> Windows]
  /\ holidays \subseteq Schedules
  /\ fallback \in [Schedules -> 0..N]

Init ==
  /\ now = 0
  /\ enabled = Schedules /\ holidays = {}
  /\ window = [s \in Schedules |-> <<0, 0>>]
  /\ fallback = [s \in Schedules |-> 0]

-----------------------------------------------------------------------------
(* Which schedule answers.                                                 *)

\* Mutant: a window that crosses midnight is never entered.
InWindowOfTheDay(w) == w[1] = w[2] \/ (w[1] <= now /\ now < w[2])

\* isInCoverageWindow: a window may cross midnight, and one without length is the whole day.
InWindow(w) ==
  \/ w[1] = w[2]
  \/ w[1] < w[2] /\ w[1] <= now /\ now < w[2]
  \/ w[1] > w[2] /\ (w[1] <= now \/ now < w[2])

\* getScheduleState
Active(s) == InWindow(window[s]) /\ s \notin holidays

\* Mutant: the first fallback is taken for granted.
FallbackChainUnchecked ==
  LET Roots == {s \in enabled : fallback[s] \in enabled}
  IN IF Roots = {} THEN 0 ELSE fallback[CHOOSE s \in Roots : \A t \in Roots : s <= t]

\* Where the chain goes on from a schedule, 0 at its end: a disabled schedule is not found.
FallbackOf(s) == IF s \in enabled THEN fallback[s] ELSE 0

\* resolveFallbackChain: the chains of the enabled schedules in turn; a schedule a chain has
\* visited is not visited again.
FallbackChain ==
  LET Search[at \in [root : 0..(N + 1), next : 0..N, visited : SUBSET Schedules]] ==
        IF at.root > N THEN 0
        ELSE IF at.next = 0 \/ at.next \in at.visited
             THEN Search[[root |-> at.root + 1, next |-> FallbackOf(at.root + 1), visited |-> at.visited]]
        ELSE IF at.next \in enabled /\ Active(at.next) THEN at.next
        ELSE Search[[root |-> at.root, next |-> FallbackOf(at.next), visited |-> at.visited \cup {at.next}]]
  IN Search[[root |-> 0, next |-> 0, visited |-> {}]]

\* resolveNow: the schedule that answers, or 0.
ResolveNow(forceFallback) ==
  LET answering == {s \in enabled : Active(s)}
  IN IF forceFallback /\ FallbackChain # 0 THEN FallbackChain
     ELSE IF answering # {} THEN CHOOSE s \in answering : \A t \in answering : s <= t
     ELSE FallbackChain

-----------------------------------------------------------------------------
(* Edits.                                                                  *)

\* createSchedule, updateSchedule: the fields that were sent.
UpdateSchedule(s) ==
  \/ /\ \E w \in Windows : window' = [window EXCEPT ![s] = w]
     /\ UNCHANGED <<now, enabled, holidays, fallback>>
  \/ /\ \E t \in 0..N : fallback' = [fallback EXCEPT ![s] = t]
     /\ UNCHANGED <<now, enabled, holidays, window>>
  \/ /\ enabled' = enabled \cup {s}
     /\ UNCHANGED <<now, holidays, window, fallback>>

\* removeSchedule disables.
RemoveSchedule(s) ==
  /\ Cardinality(Schedules \ enabled) < MaxDisabled
  /\ enabled' = enabled \ {s}
  /\ UNCHANGED <<now, window, holidays, fallback>>

\* createHolidayEntry, linkScheduleCalendar, updateHolidayCalendar and their opposites; the
\* model keeps one holiday at a time.
HolidayChanges(s) ==
  /\ holidays' = IF s \in holidays THEN {} ELSE {s}
  /\ UNCHANGED <<now, enabled, window, fallback>>

HourPasses ==
  /\ now' = (now + 1) % Day
  /\ UNCHANGED <<enabled, window, holidays, fallback>>

Next ==
  \/ HourPasses
  \/ \E s \in Schedules : UpdateSchedule(s) \/ RemoveSchedule(s) \/ HolidayChanges(s)

Spec == Init /\ [][Next]_vars

-----------------------------------------------------------------------------
(* Properties.                                                             *)

\* What following fallbacks from the enabled schedules leads to.
Reachable ==
  LET From(S) == {fallback[s] : s \in S \cap enabled} \ {0}
      Within[n \in 1..N] == IF n = 1 THEN From(enabled) ELSE Within[n - 1] \cup From(Within[n - 1])
  IN Within[N]

(* Whoever is paged is on an active schedule, and nobody is paged only     *)
(* when no schedule is active; a step that insists on the fallback gets a  *)
(* schedule others fall back to whenever an active one can be reached,     *)
(* also where fallbacks go in circles (resolveNow, resolveFallbackChain).  *)
ResolvedAnswers ==
  LET active == {s \in enabled : Active(s)}
      promised == active \cap Reachable
  IN /\ ResolveNow(FALSE) \in IF active = {} THEN {0} ELSE active
     /\ ResolveNow(TRUE) \in IF promised # {} THEN promised ELSE {ResolveNow(FALSE)}

(* Two shifts that follow each other round the clock leave no hour without *)
(* cover and no hour with both (isInCoverageWindow).                       *)
ShiftsShareTheDay ==
  \A s, t \in Schedules :
    (window[s][1] # window[s][2] /\ window[s][1] = window[t][2] /\ window[s][2] = window[t][1])
      => (InWindow(window[s]) # InWindow(window[t]))
=============================================================================
