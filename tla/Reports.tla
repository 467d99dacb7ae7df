------------------------------ MODULE Reports -------------------------------
(***************************************************************************)
(* Reports written by a language model (llm/llm.service.ts).  The context  *)
(* of a report is cut to a size; a report of the same type and context is  *)
(* returned again, and otherwise the provider is asked, its answer         *)
(* validated and the report stored, unique by type and hash.  The hash     *)
(* covers the ends of the period to the millisecond.                       *)
(***************************************************************************)
EXTENDS Server

CONSTANTS
  Items,              \* what findMany can return: 0..10 insights, 0..10 executed actions
  Keep,               \* entries that are never dropped: 3 of each
  Base, PerItem,      \* size of a context without entries, and of an entry
  Budget,             \* MAX_CONTEXT_BYTES
  MaxMoments, MaxAsked, MaxFaults  \* bounds on milliseconds, questions and unusable answers

VARIABLES
  moment,    \* the time, in milliseconds
  insights,  \* open insights of the organization
  executed,  \* actions executed in the last week
  reports,   \* stored: <<type, context>>
  calls,     \* answers the provider has given, by type and context
  asked,     \* questions asked so far
  faults     \* answers that were not valid, and failed calls

reportVars == <<moment, insights, executed, reports, calls, asked, faults>>
vars == <<frame, reportVars>>

ReportTypes == {"CEO_DAILY_BRIEF", "SCORE_DROP_EXPLAIN"}
Contexts == [end : 1..MaxMoments, insights : Items, executed : Items]
Asked == ReportTypes \X Contexts

TypeOK ==
  /\ frame \in [Handlers -> {Idle} \cup [op : {"ask", "store"}, what : Asked]]
  /\ moment \in 1..MaxMoments
  /\ insights \in Items /\ executed \in Items
  /\ reports \subseteq Asked
  /\ calls \in [Asked -> Nat]
  /\ asked \in 0..MaxAsked /\ faults \in 0..MaxFaults

Init ==
  /\ ServerInit
  /\ moment = 1
  /\ insights \in Items /\ executed \in Items
  /\ reports = {}
  /\ calls = [w \in Asked |-> 0]
  /\ asked = 0 /\ faults = 0

Size(c) == Base + (PerItem * (c.insights + c.executed))

\* Mutant: the executed actions are dropped first.
TrimExecutedFirst(c) ==
  LET trim[d \in Contexts] ==
        IF Size(d) <= Budget THEN {d}
        ELSE IF d.executed > Keep THEN trim[[d EXCEPT !.executed = @ - 1]]
        ELSE IF d.insights > Keep THEN trim[[d EXCEPT !.insights = @ - 1]]
        ELSE {}
  IN trim[c]

\* enforceContextSize drops insights, and then executed actions, from the end, until the
\* context fits; the request fails when three of each are still too many.
Trimmed(c) ==
  LET trim[d \in Contexts] ==
        IF Size(d) <= Budget THEN {d}
        ELSE IF d.insights > Keep THEN trim[[d EXCEPT !.insights = @ - 1]]
        ELSE IF d.executed > Keep THEN trim[[d EXCEPT !.executed = @ - 1]]
        ELSE {}
  IN trim[c]

Clock ==
  /\ moment < MaxMoments
  /\ moment' = moment + 1
  /\ UNCHANGED <<frame, insights, executed, reports, calls, asked, faults>>

\* The organization works on.
DataChange(n, m) ==
  /\ insights' = n /\ executed' = m
  /\ UNCHANGED <<frame, moment, reports, calls, asked, faults>>

\* A report collects its context in one transaction (buildCeoContext) ...
Collected == [end |-> moment, insights |-> insights, executed |-> executed]

\* Mutant: a stored report is never looked for.
GenerateAnew(h, t) ==
  /\ asked < MaxAsked
  /\ asked' = asked + 1
  /\ \E c \in Trimmed(Collected) : Serve(h, [op |-> "ask", what |-> <<t, c>>])
  /\ UNCHANGED <<moment, insights, executed, reports, calls, faults>>

\* ... and asks the provider only if there is no report of it yet ...
Generate(h, t) ==
  /\ \E c \in Trimmed(Collected) :
       /\ <<t, c>> \notin reports
       /\ Serve(h, [op |-> "ask", what |-> <<t, c>>])
  /\ asked < MaxAsked
  /\ asked' = asked + 1
  /\ UNCHANGED <<moment, insights, executed, reports, calls, faults>>

\* The two reports, of the same context.
GenerateCeoDailyBrief(h) == Generate(h, "CEO_DAILY_BRIEF")
GenerateScoreDropExplain(h) == Generate(h, "SCORE_DROP_EXPLAIN")

\* The answer is validated: one that is malformed, or none, ends the request ...
Answer(h) ==
  /\ At(h, "ask")
  /\ calls' = [calls EXCEPT ![frame[h].what] = @ + 1]
  /\ \/ /\ GoOn(h, [frame[h] EXCEPT !.op = "store"])
        /\ UNCHANGED faults
     \/ /\ faults < MaxFaults
        /\ faults' = faults + 1
        /\ Finish(h)
  /\ UNCHANGED <<moment, insights, executed, reports, asked>>

\* ... and the report is stored, unless another request has stored it meanwhile.
Store(h) ==
  /\ At(h, "store")
  /\ reports' = reports \cup {frame[h].what}
  /\ Finish(h)
  /\ UNCHANGED <<moment, insights, executed, calls, asked, faults>>

\* A restart counts with the faults: the answer, if there was one, is lost.
Lost(h) ==
  /\ faults < MaxFaults
  /\ Drop(h)
  /\ faults' = faults + 1
  /\ UNCHANGED <<moment, insights, executed, reports, calls, asked>>

Next ==
  \/ Clock
  \/ \E n, m \in Items : DataChange(n, m)
  \/ \E h \in Handlers :
       \/ GenerateCeoDailyBrief(h) \/ GenerateScoreDropExplain(h)
       \/ Answer(h) \/ Store(h) \/ Lost(h)

Spec == Init /\ [][Next]_vars

-----------------------------------------------------------------------------
(* Properties.                                                             *)

(* The provider is asked for the same report no more often than there are  *)
(* handlers that can miss it at the same time, and once more for each      *)
(* answer that was lost or could not be used (generateReportFromContext).  *)
CallsBounded == \A w \in Asked : calls[w] <= Cardinality(Handlers) + faults

(* The context sent is the one that keeps, of all contexts that fit, most  *)
(* executed actions, and with that many most insights; and a request that  *)
(* is refused could not have kept three of each (enforceContextSize).      *)
TrimmedKeepsMost ==
  LET whole == Collected
      low(n) == IF n < Keep THEN n ELSE Keep
      allowed == {c \in Contexts :
                    /\ c.end = moment
                    /\ c.insights \in low(insights)..insights
                    /\ c.executed \in low(executed)..executed
                    /\ Size(c) <= Budget}
  IN IF Size(whole) <= Budget THEN Trimmed(whole) = {whole}
     ELSE Trimmed(whole) =
            {c \in allowed : \A d \in allowed : \/ d.executed < c.executed
                                                \/ d.executed = c.executed /\ d.insights <= c.insights}
=============================================================================
