------------------------------ MODULE Insights ------------------------------
(***************************************************************************)
(* Insights of an organization (ai/ai.service.ts) and the actions proposed *)
(* for them (ai-actions/ai-actions.service.ts, computeActions; what        *)
(* becomes of an approved action is in Undoables).                         *)
(*                                                                         *)
(* A compute finds the types of insight the numbers call for, and in one   *)
(* transaction, at READ COMMITTED, opens or renews one insight for each    *)
(* and resolves those of the other types.  The open insights are listed    *)
(* through a cache that a compute clears when it begins and a resolve when *)
(* it ends.  Titles, scores and severities are left out.                   *)
(***************************************************************************)
EXTENDS Server

CONSTANTS
  Types,                     \* of insight
  MaxRows, MaxLive, MaxWrites  \* bounds on rows, live proposals of a row, changes of the rows

VARIABLES
  called,   \* types the deals, invoices, work items, events and health scores call for
  rows,     \* rows created so far
  type,     \* of each
  open,     \* those with isResolved FALSE
  writes,   \* changes made to them
  cache,    \* what is kept of the list: {} or one entry
  live      \* actions PROPOSED or APPROVED for each row

insightVars == <<called, rows, type, open, writes, cache, live>>
vars == <<frame, insightVars>>

Rows == 1..MaxRows
Newest == [Types -> 0..MaxRows]

TypeOK ==
  /\ frame \in [Handlers ->
       {Idle}
       \cup [op : {"find"}, candidates : SUBSET Types]
       \cup [op : {"commit"}, candidates : SUBSET Types, newest : Newest, several : SUBSET Types]
       \cup [op : {"list"}, seen : SUBSET Rows, writes : 0..MaxWrites]
       \cup [op : {"resolve"}, row : Rows, wasOpen : BOOLEAN]
       \cup [op : {"proposals"}, left : SUBSET Rows]
       \cup [op : {"propose"}, row : Rows, left : SUBSET Rows]]
  /\ called \subseteq Types
  /\ rows \in 0..MaxRows /\ type \in [Rows -> Types] /\ open \subseteq 1..rows
  /\ writes \in 0..MaxWrites
  /\ cache \in SUBSET [seen : SUBSET Rows, quiet : BOOLEAN] /\ Cardinality(cache) <= 1
  /\ live \in [Rows -> 0..MaxLive]

Init ==
  /\ ServerInit
  /\ called \in SUBSET Types
  /\ rows = 0 /\ type \in {[i \in Rows |-> t] : t \in {CHOOSE t \in Types : TRUE}} /\ open = {}
  /\ writes = 0 /\ cache = {}
  /\ live = [i \in Rows |-> 0]

OpenOf(t) == {i \in open : type[i] = t}

Computing == Serving("find") \cup Serving("commit")

\* Deals, invoices, work items, events and scores come and go.
NumbersChange(t) ==
  /\ called' = IF t \in called THEN called \ {t} ELSE called \cup {t}
  /\ UNCHANGED <<frame, rows, type, open, writes, cache, live>>

-----------------------------------------------------------------------------
(* Computing, listing and resolving insights.                              *)

\* computeInsights clears the cache and collects the numbers (collectMetrics,
\* buildCandidates) ...
ComputeBegin(h) ==
  /\ Serve(h, [op |-> "find", candidates |-> called])
  /\ cache' = {}
  /\ UNCHANGED <<called, rows, type, open, writes, live>>

\* ... the transaction looks for the newest open insight of each type (upsertCandidate) ...
ComputeFind(h) ==
  /\ At(h, "find")
  /\ LET newest(t) == CHOOSE i \in OpenOf(t) \cup {0} : \A j \in OpenOf(t) : j <= i
     IN GoOn(h, [op |-> "commit", candidates |-> frame[h].candidates,
                 newest |-> [t \in Types |-> newest(t)],
                 several |-> {t \in Types : Cardinality(OpenOf(t)) > 1}])
  /\ UNCHANGED insightVars

\* Mutant: an insight is created whether or not one is open.
CommitAfresh(h) ==
  /\ At(h, "commit")
  /\ \E t \in frame[h].candidates :
       /\ rows < MaxRows /\ writes < MaxWrites
       /\ rows' = rows + 1
       /\ type' = [type EXCEPT ![rows + 1] = t]
       /\ open' = open \cup {rows + 1}
  /\ writes' = writes + 1
  /\ Finish(h)
  /\ UNCHANGED <<called, cache, live>>

\* upsertCandidate creates an insight where it found none, renews the one it found, and resolves
\* the other open ones where it found several; computeInsights resolves those of the other types.
NewTypes(f) == {t \in f.candidates : f.newest[t] = 0}
Renewed(f) == {f.newest[t] : t \in f.candidates \ NewTypes(f)}
Superseded(f) ==
  {i \in open : \/ type[i] \notin f.candidates
                \/ type[i] \in f.several /\ i # f.newest[type[i]]}

\* ... and writes, the insights and their log in one commit.
ComputeCommit(h) ==
  /\ At(h, "commit")
  /\ writes < MaxWrites
  /\ LET new == NewTypes(frame[h])
     IN /\ Cardinality(new) <= MaxRows - rows
        /\ rows' = rows + Cardinality(new)
        /\ \E number \in [new -> (rows + 1)..rows'] :
             /\ \A s, t \in new : number[s] = number[t] => s = t
             /\ type' = [i \in Rows |-> IF \E t \in new : number[t] = i
                                        THEN CHOOSE t \in new : number[t] = i ELSE type[i]]
        /\ open' = (open \ Superseded(frame[h])) \cup Renewed(frame[h]) \cup ((rows + 1)..rows')
  /\ writes' = writes + 1
  /\ Finish(h)
  /\ UNCHANGED <<called, cache, live>>

\* listUnresolved answers from the cache, or reads the open insights ...
ListRead(h) ==
  /\ cache = {}
  /\ Serve(h, [op |-> "list", seen |-> open, writes |-> writes])
  /\ UNCHANGED insightVars

\* ... and keeps them for 60 seconds.  It is quiet if they have not changed since they were
\* read and no compute is about to change them.
ListKeep(h) ==
  /\ At(h, "list")
  /\ cache' = {[seen |-> frame[h].seen, quiet |-> frame[h].writes = writes /\ Computing = {}]}
  /\ Finish(h)
  /\ UNCHANGED <<called, rows, type, open, writes, live>>

CacheExpires ==
  /\ cache # {}
  /\ cache' = {}
  /\ UNCHANGED <<frame, called, rows, type, open, writes, live>>

\* resolveInsight finds the row ...
ResolveRead(h, i) ==
  /\ i <= rows
  /\ Serve(h, [op |-> "resolve", row |-> i, wasOpen |-> i \in open])
  /\ UNCHANGED insightVars

\* Mutant: the cache is left alone.
ResolveQuietly(h) ==
  /\ At(h, "resolve")
  /\ writes < MaxWrites
  /\ open' = IF frame[h].wasOpen THEN open \ {frame[h].row} ELSE open
  /\ writes' = writes + 1
  /\ Finish(h)
  /\ UNCHANGED <<called, rows, type, cache, live>>

\* ... resolves it if it was open, and clears the cache.
ResolveWrite(h) ==
  /\ At(h, "resolve")
  /\ IF frame[h].wasOpen
     THEN /\ writes < MaxWrites
          /\ writes' = writes + 1
          /\ open' = open \ {frame[h].row}
     ELSE UNCHANGED <<writes, open>>
  /\ cache' = {}
  /\ Finish(h)
  /\ UNCHANGED <<called, rows, type, live>>

-----------------------------------------------------------------------------
(* Proposing actions.                                                      *)

\* computeActions reads the open insights ...
ProposeBegin(h) ==
  /\ open # {}
  /\ Serve(h, [op |-> "proposals", left |-> open])
  /\ UNCHANGED insightVars

\* Mutant: computeActions does not look.
ProposeLookUpBlindly(h) ==
  /\ At(h, "proposals")
  /\ \E i \in frame[h].left : GoOn(h, [op |-> "propose", row |-> i, left |-> frame[h].left \ {i}])
  /\ UNCHANGED insightVars

\* ... looks, for what it would propose for each (buildProposals), for a live action ...
ProposeLookUp(h) ==
  /\ At(h, "proposals")
  /\ \E i \in frame[h].left :
       LET left == frame[h].left \ {i}
       IN IF live[i] = 0 THEN GoOn(h, [op |-> "propose", row |-> i, left |-> left])
          ELSE IF left = {} THEN Finish(h)
          ELSE GoOn(h, [op |-> "proposals", left |-> left])
  /\ UNCHANGED insightVars

\* ... and creates it where there is none.
ProposeCreate(h) ==
  /\ At(h, "propose")
  /\ live[frame[h].row] < MaxLive
  /\ live' = [live EXCEPT ![frame[h].row] = @ + 1]
  /\ IF frame[h].left = {} THEN Finish(h)
     ELSE GoOn(h, [op |-> "proposals", left |-> frame[h].left])
  /\ UNCHANGED <<called, rows, type, open, writes, cache>>

\* An action is executed, fails or is undone (Undoables).
ActionEnds(i) ==
  /\ live[i] > 0
  /\ live' = [live EXCEPT ![i] = @ - 1]
  /\ UNCHANGED <<frame, called, rows, type, open, writes, cache>>

Lost(h) ==
  /\ Drop(h)
  /\ UNCHANGED insightVars

Next ==
  \/ \E t \in Types : NumbersChange(t)
  \/ CacheExpires
  \/ \E i \in Rows : ActionEnds(i)
  \/ \E h \in Handlers :
       \/ ComputeBegin(h) \/ ComputeFind(h) \/ ComputeCommit(h)
       \/ ListRead(h) \/ ListKeep(h)
       \/ \E i \in Rows : ResolveRead(h, i)
       \/ ResolveWrite(h)
       \/ ProposeBegin(h) \/ ProposeLookUp(h) \/ ProposeCreate(h)
       \/ Lost(h)

Spec == Init /\ [][Next]_vars

-----------------------------------------------------------------------------
(* Properties.                                                             *)

(* However many computes run at once, and whatever is resolved meanwhile,  *)
(* no more insights of a type are open than there are handlers: a compute  *)
(* that creates one found none (upsertCandidate).                          *)
InsightsBounded == \A t \in Types : Cardinality(OpenOf(t)) <= Cardinality(Handlers)

(* A list of open insights stays true as long as it is kept, if nothing    *)
(* changed while it was read and no compute was under way; a compute       *)
(* clears the cache before it writes, so that a list read meanwhile is     *)
(* kept although it is out of date (computeInsights, listUnresolved).      *)
QuietListIsTrue == \A kept \in cache : kept.quiet => kept.seen = open

(* Requests that propose at the same time create no more than one live     *)
(* action each for an insight (computeActions).                            *)
ProposalsBounded == \A i \in Rows : live[i] <= Cardinality(Handlers)
=============================================================================
