-------------------------------- MODULE Sales --------------------------------
(***************************************************************************)
(* A deal (deals/deals.service.ts) and the work items of its organization  *)
(* (work-items/work-items.service.ts).  Every update reads a row, checks   *)
(* it and writes by id; who owns what, dates other than completedAt and    *)
(* what is told to webhooks and to the graph are left out.  The limit of   *)
(* the plan on work items is in Quotas.                                    *)
(***************************************************************************)
EXTENDS Server

CONSTANTS
  MaxItems,     \* bound on the work items
  MaxCreated,   \* bound on those made by hand
  MaxUnlinks    \* bound on the work items taken off the deal

Items == 1..MaxItems
NoItem == [done |-> FALSE, dated |-> FALSE, linked |-> FALSE, exists |-> FALSE]

VARIABLES
  deal,       \* stage of the deal
  item,       \* of each work item: whether it is DONE, has a completedAt, belongs to the deal
  roots,      \* work items markWon has made
  unlinks,    \* work items taken off the deal
  disturbed   \* whether two updates of a work item have overlapped

salesVars == <<deal, item, roots, unlinks, disturbed>>
vars == <<frame, salesVars>>

Existing == {i \in Items : item[i].exists}
Linked == {i \in Existing : item[i].linked}

\* What a request asks the status to be; update may leave it alone.
Statuses == {"TODO", "DONE", "same"}

TypeOK ==
  /\ frame \in [Handlers -> {Idle}
       \cup [op : {"won", "root?", "root", "lost"}]
       \cup [op : {"stage"}, to : {"OPEN", "WON", "LOST"}]
       \cup [op : {"update"}, i : Items, to : Statuses, done : BOOLEAN, unlink : BOOLEAN]]
  /\ deal \in {"none", "OPEN", "WON", "LOST"}
  /\ item \in [Items -> [done : BOOLEAN, dated : BOOLEAN, linked : BOOLEAN, exists : BOOLEAN]]
  /\ roots \in Nat
  /\ unlinks \in 0..MaxUnlinks
  /\ disturbed \in BOOLEAN

Init ==
  /\ ServerInit
  /\ deal = "none"
  /\ item = [i \in Items |-> NoItem]
  /\ roots = 0 /\ unlinks = 0
  /\ disturbed = FALSE

-----------------------------------------------------------------------------
(* The deal.                                                               *)

\* create, in the stage asked for.
CreateDeal ==
  /\ deal = "none"
  /\ deal' \in {"OPEN", "WON", "LOST"}
  /\ UNCHANGED <<frame, item, roots, unlinks, disturbed>>

\* convertToDeal: the company, the contact and the owner checked, the deal starts OPEN.
ConvertToDeal ==
  /\ deal = "none"
  /\ deal' = "OPEN"
  /\ UNCHANGED <<frame, item, roots, unlinks, disturbed>>

\* update, markWon and markLost have found the deal.
DealRead(h, f) ==
  /\ deal # "none"
  /\ Serve(h, f)
  /\ UNCHANGED salesVars

SetStage(h, op, s) ==
  /\ At(h, op)
  /\ deal' = s
  /\ UNCHANGED <<item, roots, unlinks, disturbed>>

UpdateDeal(h) == Finish(h) /\ SetStage(h, "stage", frame[h].to)

MarkLost(h) == Finish(h) /\ SetStage(h, "lost", "LOST")

MarkWon(h) == GoOn(h, [op |-> "root?"]) /\ SetStage(h, "won", "WON")

\* Mutant: the deal's work items are not looked up.
RootLookUpBlindly(h) ==
  /\ At(h, "root?")
  /\ GoOn(h, [op |-> "root"])
  /\ UNCHANGED salesVars

\* markWon goes on: has the deal a work item ...
RootLookUp(h) ==
  /\ At(h, "root?")
  /\ IF Linked = {} THEN GoOn(h, [op |-> "root"]) ELSE Finish(h)
  /\ UNCHANGED salesVars

NewItem(i, row) ==
  /\ i \notin Existing /\ 1..(i - 1) \subseteq Existing
  /\ item' = [item EXCEPT ![i] = row]

\* ... and if not, one is made to deliver it; the plan is not asked.
RootInsert(h) ==
  /\ At(h, "root")
  /\ \E i \in Items : NewItem(i, [done |-> FALSE, dated |-> FALSE, linked |-> TRUE, exists |-> TRUE])
  /\ roots' = roots + 1
  /\ Finish(h)
  /\ UNCHANGED <<deal, unlinks, disturbed>>

-----------------------------------------------------------------------------
(* Work items.                                                             *)

\* create: the plan, the policy and the references checked, one more is inserted.
CreateItem ==
  /\ Cardinality(Existing) - roots < MaxCreated
  /\ \E i \in Items, done \in BOOLEAN, linked \in BOOLEAN :
       /\ linked => deal # "none"
       /\ NewItem(i, [done |-> done, dated |-> done, linked |-> linked, exists |-> TRUE])
  /\ UNCHANGED <<frame, deal, roots, unlinks, disturbed>>

\* update, transition and complete read the row; the policy is checked against it ...
ItemRead(h, i, to, unlink) ==
  /\ i \in Existing
  /\ unlink => to = "same" /\ item[i].linked /\ unlinks < MaxUnlinks
  /\ Serve(h, [op |-> "update", i |-> i, to |-> to, unlink |-> unlink, done |-> to = "same" /\ item[i].done])
  /\ disturbed' = (disturbed \/ \E g \in Serving("update") : frame[g].i = i)
  /\ UNCHANGED <<deal, item, roots, unlinks>>

\* The completedAt written is computed from the status read, unless the request leaves a
\* status alone that is not DONE.
Dated(f, now) ==
  IF f.to = "DONE" \/ (f.to = "same" /\ f.done) THEN TRUE
  ELSE IF f.to = "TODO" THEN FALSE ELSE now

\* Mutant: a reopened work item keeps its completedAt.
ItemWriteKeepsDate(h) ==
  /\ At(h, "update")
  /\ LET f == frame[h]
     IN  /\ item' = [item EXCEPT ![f.i].done = IF f.to = "same" THEN @ ELSE f.to = "DONE",
                                 ![f.i].dated = @ \/ f.to = "DONE",
                                 ![f.i].linked = @ /\ ~f.unlink]
         /\ unlinks' = IF f.unlink THEN unlinks + 1 ELSE unlinks
         /\ unlinks' <= MaxUnlinks
  /\ Finish(h)
  /\ UNCHANGED <<deal, roots, disturbed>>

\* ... and the row is written by id.
ItemWrite(h) ==
  /\ At(h, "update")
  /\ LET f == frame[h]
     IN  /\ item' = [item EXCEPT ![f.i].done = IF f.to = "same" THEN @ ELSE f.to = "DONE",
                                 ![f.i].dated = Dated(f, @),
                                 ![f.i].linked = @ /\ ~f.unlink]
         /\ unlinks' = IF f.unlink THEN unlinks + 1 ELSE unlinks
         /\ unlinks' <= MaxUnlinks
  /\ Finish(h)
  /\ UNCHANGED <<deal, roots, disturbed>>

Lost(h) ==
  /\ Drop(h)
  /\ UNCHANGED salesVars

Next ==
  \/ CreateDeal \/ ConvertToDeal
  \/ CreateItem
  \/ \E h \in Handlers :
       \/ UpdateDeal(h) \/ MarkWon(h) \/ MarkLost(h) \/ RootLookUp(h) \/ RootInsert(h)
       \/ ItemWrite(h) \/ Lost(h)
       \/ \E f \in [op : {"won", "lost"}] \cup [op : {"stage"}, to : {"OPEN", "WON", "LOST"}] : DealRead(h, f)
       \/ \E i \in Items, to \in Statuses, unlink \in BOOLEAN : ItemRead(h, i, to, unlink)

Spec == Init /\ [][Next]_vars

-----------------------------------------------------------------------------
(* Properties.                                                             *)

(* Winning a deal again and again makes one work item to deliver it; only  *)
(* requests that overlap make more, one for each handler, and so again     *)
(* when the work items were taken off the deal (markWon).                  *)
RootsBounded == roots <= Cardinality(Handlers) * (1 + unlinks)

(* A DONE work item has a completedAt, whatever order updates write in.    *)
(* An update that leaves the status alone may put the completedAt it read  *)
(* back on an item reopened meanwhile; with updates one after the other    *)
(* only DONE items have one (update, transition, complete).                *)
DatesFollowStatus ==
  \A i \in Existing :
    /\ item[i].done => item[i].dated
    /\ item[i].dated /\ ~disturbed => item[i].done
=============================================================================
