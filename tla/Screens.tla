------------------------------ MODULE Screens -------------------------------
(***************************************************************************)
(* A view of a page while somebody uses the page (the components under     *)
(* apps/web/src/app).  Every load is a request of its own; its answer is   *)
(* set into the view when it arrives, whatever was asked since, and a load *)
(* that fails leaves the old rows.  A command that was answered loads its  *)
(* views again with the choices its closure saw when it was pressed.  The  *)
(* views of a page do not touch each other, so one of them is followed.    *)
(***************************************************************************)
EXTENDS Pages, Naturals

CONSTANTS
  Opened,      \* the pages that are opened, names in PageTable
  MaxLoads,    \* bound on the loads of the view
  MaxPressed   \* bound on the commands pressed

VARIABLES
  screen,      \* page and view, and the role of the user
  pick,        \* of each choice in the view's query: what is chosen, 1 or 2
  loads,       \* requests on their way: [n, pick, rows], rows 0 until the server has answered
  asked,       \* loads so far
  shown,       \* [n, pick, rows] of the answer the view shows; n = 0 before the first
  rows,        \* version of the rows at the server
  running,     \* commands pressed and not finished: [c, n, pick, rows, before], before what
               \* an optimistic one has to put back
  pressed,     \* how many were pressed
  owed,        \* the latest version the user's finished commands on the view have made
  outdated     \* whether the latest load was sent with choices that had changed since

vars == <<screen, pick, loads, asked, shown, rows, running, pressed, owed, outdated>>

ThePage == PageTable[screen.page]
TheView == ThePage.views[screen.view]
Command(c) == ThePage.commands[c]

AnyRows == 0..(MaxPressed + 1)
AnyPick == [TheView.uses -> 1..2]

TypeOK ==
  /\ screen.page \in Opened /\ screen.view \in DOMAIN ThePage.views /\ screen.role \in ThePage.roles
  /\ pick \in AnyPick
  /\ loads \subseteq [n : 1..MaxLoads, pick : AnyPick, rows : AnyRows]
  /\ asked \in 0..MaxLoads
  /\ shown \in [n : 0..MaxLoads, pick : AnyPick, rows : AnyRows]
  /\ rows \in 1..(MaxPressed + 1) /\ owed \in AnyRows
  /\ \A r \in running : r.c \in DOMAIN ThePage.commands /\ r.pick \in AnyPick /\ r.rows \in AnyRows
  /\ pressed \in 0..MaxPressed
  /\ outdated \in BOOLEAN

\* The commands of a page after which the view v is loaded again or set from the answer.
Renewing(page, v) ==
  {c \in DOMAIN page.commands : v \in page.commands[c].reloads \cup page.commands[c].sets}

\* What the pages have in common: an effect depends on every choice in its view's query, but on
\* the impact page; a view that is set from an answer has no choices, and only one command renews
\* it, whose button is disabled while it runs; and nobody is led to, or may press, what the API
\* refuses to their role, but for the documentation.
Fits(p) ==
  LET page == PageTable[p]
  IN  /\ \A v \in DOMAIN page.views :
           /\ p # "impact" => page.views[v].uses \subseteq page.views[v].on
           /\ p # "docs" => \A r \in page.roles : \A call \in page.views[v].calls : Grants(r, call)
           /\ \A c \in DOMAIN page.commands :
                v \in page.commands[c].sets =>
                  page.views[v].uses = {} /\ page.commands[c].busy /\ Renewing(page, v) = {c}
      /\ \A c \in DOMAIN page.commands :
           \A r \in page.commands[c].roles \cap page.roles :
             \A call \in page.commands[c].calls : Grants(r, call)

Granted(calls) == \A c \in calls : Grants(screen.role, c)

\* A load with choices p: the n-th.
Request(n, p) == [n |-> n, pick |-> p, rows |-> 0]

\* Opening the page; its effects run, and so do all of TheView that load at once.
Init ==
  /\ \E p \in Opened : \E v \in DOMAIN PageTable[p].views : \E r \in PageTable[p].roles :
       screen = [page |-> p, view |-> v, role |-> r]
  /\ pick = [d \in TheView.uses |-> 1]
  /\ loads = IF TheView.mount THEN {Request(1, pick)} ELSE {}
  /\ asked = Cardinality(loads)
  /\ shown = [Request(1, pick) EXCEPT !.n = 0]
  /\ rows = 1 /\ running = {} /\ pressed = 0 /\ owed = 0
  /\ outdated = FALSE

-----------------------------------------------------------------------------
(* Loads.                                                                  *)

\* Mutant: the effects do not run again with the page number that was set back.
ChooseOnce(d) ==
  LET next == IF d \in DOMAIN pick THEN [pick EXCEPT ![d] = 3 - @] ELSE pick
      back == d \in ThePage.resets /\ "page" \in DOMAIN pick /\ pick["page"] # 1
  IN  /\ d \in TheView.uses \cup TheView.on
      /\ pick' = IF back THEN [next EXCEPT !["page"] = 1] ELSE next
      /\ IF d \in TheView.on
         THEN asked < MaxLoads /\ asked' = asked + 1 /\ loads' = loads \cup {Request(asked + 1, next)}
         ELSE UNCHANGED <<asked, loads>>
      /\ outdated' = (outdated /\ asked' = asked)
      /\ UNCHANGED <<screen, shown, rows, running, pressed, owed>>

\* Another choice d.  Its effects run with the new choices; where it also sets the page number
\* back, they run again with that.
Choose(d) ==
  LET next  == IF d \in DOMAIN pick THEN [pick EXCEPT ![d] = 3 - @] ELSE pick
      back  == d \in ThePage.resets /\ "page" \in DOMAIN pick /\ pick["page"] # 1
      first == IF d \in TheView.on THEN {Request(asked + 1, next)} ELSE {}
      again == IF back THEN {Request(asked + Cardinality(first) + 1, [next EXCEPT !["page"] = 1])} ELSE {}
  IN  /\ d \in TheView.uses \cup TheView.on
      /\ asked + Cardinality(first) + Cardinality(again) <= MaxLoads
      /\ pick' = IF back THEN [next EXCEPT !["page"] = 1] ELSE next
      /\ loads' = loads \cup first \cup again
      /\ asked' = asked + Cardinality(first) + Cardinality(again)
      /\ outdated' = (outdated /\ asked' = asked)
      /\ UNCHANGED <<screen, shown, rows, running, pressed, owed>>

\* The server reads the rows for a load it grants.
Answer(l) ==
  /\ l.rows = 0
  /\ Granted(TheView.calls)
  /\ loads' = (loads \ {l}) \cup {[l EXCEPT !.rows = rows]}
  /\ UNCHANGED <<screen, pick, asked, shown, rows, running, pressed, owed, outdated>>

\* The answer is set into the view.
Show(l) ==
  /\ l.rows # 0
  /\ loads' = loads \ {l}
  /\ shown' = l
  /\ UNCHANGED <<screen, pick, asked, rows, running, pressed, owed, outdated>>

\* Refused, or not answered within the client's timeout.
GiveUp(l) ==
  /\ loads' = loads \ {l}
  /\ UNCHANGED <<screen, pick, asked, shown, rows, running, pressed, owed, outdated>>

-----------------------------------------------------------------------------
(* Commands.                                                               *)

Press(c) ==
  /\ pressed < MaxPressed
  /\ screen.role \in Command(c).roles
  /\ Command(c).busy => \A r \in running : r.c # c
  /\ pressed' = pressed + 1
  /\ LET before == IF screen.view \in Command(c).optimistic THEN {shown} ELSE {}
     IN  running' = running \cup {[c |-> c, n |-> pressed + 1, pick |-> pick, rows |-> 0, before |-> before]}
  /\ UNCHANGED <<screen, pick, loads, asked, shown, rows, owed, outdated>>

\* The server does what it grants.
Execute(r) ==
  /\ r.rows = 0
  /\ Granted(Command(r.c).calls)
  /\ rows' = IF Command(r.c).calls = {} THEN rows ELSE rows + 1
  /\ running' = (running \ {r}) \cup {[r EXCEPT !.rows = rows']}
  /\ UNCHANGED <<screen, pick, loads, asked, shown, pressed, owed, outdated>>

\* Its answer is here: the views it names are loaded again, with the choices of the closure, or
\* set from the answer.
Return(r) ==
  /\ r.rows # 0
  /\ running' = running \ {r}
  /\ LET again == screen.view \in Command(r.c).reloads
         sets  == screen.view \in Command(r.c).sets
     IN  /\ again \/ sets => asked < MaxLoads
         /\ asked' = IF again \/ sets THEN asked + 1 ELSE asked
         /\ loads' = IF again THEN loads \cup {Request(asked', r.pick)} ELSE loads
         /\ shown' = IF sets THEN [n |-> asked', pick |-> r.pick, rows |-> r.rows] ELSE shown
         /\ owed' = IF (again \/ sets) /\ r.rows > owed THEN r.rows ELSE owed
         /\ outdated' = IF again THEN r.pick # pick ELSE outdated
  /\ UNCHANGED <<screen, pick, rows, pressed>>

\* Refused, or given up by the client, whether or not the server has done it.
Fail(r) ==
  /\ running' = running \ {r}
  /\ IF r.before = {} THEN UNCHANGED shown ELSE shown' \in r.before
  /\ rows' = IF r.rows = 0 /\ Granted(Command(r.c).calls) THEN rows + 1 ELSE rows
  /\ UNCHANGED <<screen, pick, loads, asked, pressed, owed, outdated>>

Next ==
  \/ \E d \in TheView.uses \cup TheView.on \cup ThePage.resets : Choose(d)
  \/ \E l \in loads : Answer(l) \/ Show(l) \/ GiveUp(l)
  \/ \E c \in DOMAIN ThePage.commands : Press(c)
  \/ \E r \in running : Execute(r) \/ Return(r) \/ Fail(r)

Spec == Init /\ [][Next]_vars

-----------------------------------------------------------------------------
(* Properties.                                                             *)

\* Nothing is on its way, and the view shows the answer of its latest load.
Settled == loads = {} /\ running = {} /\ shown.n = asked /\ asked > 0

(* When nothing is on its way and no older answer has replaced the latest, *)
(* a view shows what is chosen, in every choice its query contains (the    *)
(* dependency lists of the pages' effects), unless the latest load went    *)
(* with the choices of a button pressed before they changed.  The search   *)
(* for graph nodes on the impact page is sent by a button and left out.    *)
SettledShowsTheChoice ==
  Settled /\ ~outdated /\ screen.page # "impact" => shown.pick = pick

(* Then it also shows what the user's own commands on it have done: each   *)
(* is answered before the view is loaded again.                            *)
OwnWritesShown ==
  Settled => shown.rows >= owed

(* Nobody is led to a page, or shown a button, whose calls the API refuses *)
(* to their role; the documentation tab asks with a session for what only  *)
(* API tokens get (navByRole, the pages' checks, roles.guard.ts).          *)
NavServes ==
  /\ screen.page # "docs" => Granted(TheView.calls)
  /\ \A r \in running : Granted(Command(r.c).calls)
=============================================================================
