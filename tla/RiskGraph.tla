----------------------------- MODULE RiskGraph -----------------------------
(***************************************************************************)
(* Risk on the graph (graph/risk/risk-engine.service.ts) and what a node   *)
(* reaches (graph/impact-radius.service.ts, traverse of                    *)
(* graph/graph.service.ts).  A run reads the nodes and edges, spreads the  *)
(* base risk of each node along its edges in three rounds, writes the      *)
(* scores that changed, by id, and stores the day's snapshot.  Risk is in  *)
(* hundredths of a point while it spreads, rounded to points in between.   *)
(***************************************************************************)
EXTENDS Server, Functions

CONSTANTS
  Nodes,
  Facts,        \* what the base risk of a node comes from: [type, status, late, boost]
  Share,        \* what an edge passes on, in hundredths: the factor of its type times its weight
  Rounds,       \* PROPAGATION_ROUNDS
  MaxEdits      \* bound on the edits

VARIABLES
  base,         \* base risk of each node, in points
  links,        \* edges <<from, to>>
  score,        \* stored riskScore of each node
  snapshot,     \* highest score in the day's snapshot, or none
  edits,        \* edits so far
  disturbed     \* whether runs overlapped since the scores were last stored alone, or one was lost

graph == <<base, links>>
vars == <<frame, graph, score, snapshot, edits, disturbed>>

Points == 0..100
None == 101
Scores == [Nodes -> Points]
Pairs == {p \in Nodes \X Nodes : p[1] # p[2]}

TypeOK ==
  /\ frame \in [Handlers -> {Idle} \cup [op : {"write"}, risk : Scores, was : Scores]
                            \cup [op : {"snapshot"}, risk : Scores]]
  /\ base \in [Nodes -> Points]
  /\ links \subseteq Pairs
  /\ score \in Scores
  /\ snapshot \in Points \cup {None}
  /\ edits \in 0..MaxEdits
  /\ disturbed \in BOOLEAN

Init ==
  /\ ServerInit
  /\ base = [n \in Nodes |-> 0] /\ links = {} /\ score = [n \in Nodes |-> 0]
  /\ snapshot = None /\ edits = 0 /\ disturbed = FALSE

-----------------------------------------------------------------------------
(* Base risk.                                                              *)

\* What a late entity of the type adds, and one in a status that is a risk: SENT or OVERDUE of an
\* invoice, BLOCKED of work, STALE of a deal, not resolved of an incident.
Late == [INVOICE |-> 60, WORK_ITEM |-> 50, DEAL |-> 0, INCIDENT |-> 0, COMPANY |-> 0]
Risky == [INVOICE |-> 20, WORK_ITEM |-> 25, DEAL |-> 20, INCIDENT |-> 70, COMPANY |-> 0]

\* computeBaseRisk; what is paid, done, won or resolved is no risk, and the boost of invoices and
\* deals is their rank by amount.
BaseRisk(f) ==
  LET risk == (IF f.late THEN Late[f.type] ELSE 0)
              + (IF f.status = "risky" THEN Risky[f.type] ELSE 0)
              + (IF f.type \in {"INVOICE", "DEAL"} THEN f.boost ELSE 0)
  IN IF f.status = "closed" THEN 0 ELSE IF risk > 100 THEN 100 ELSE risk

-----------------------------------------------------------------------------
(* Spreading.                                                              *)

SumOver(f, S) == FoldFunctionOnSet(+, 0, f, S)

\* clamp0to100, of hundredths.
Clamp(x) == IF x >= 10000 THEN 100 ELSE (x + 50) \div 100

\* What an edge passes on of r points; half a point or less is dropped.
Passed(r) == IF r * Share <= 50 THEN 0 ELSE r * Share

\* Mutant: an edge passes risk on to the node it comes from.
RoundBackwards(risk) ==
  [n \in Nodes |->
     LET out == {m \in Nodes : <<n, m>> \in links}
     IN Clamp(100 * risk[n] + SumOver([m \in Nodes |-> Passed(risk[m])], out))]

\* One round: all edges pass on the risk of its beginning, then the increments are added.
Round(risk) ==
  [n \in Nodes |->
     LET into == {m \in Nodes : <<m, n>> \in links}
     IN Clamp(100 * risk[n] + SumOver([m \in Nodes |-> Passed(risk[m])], into))]

\* computeOrgRisk, between its reads and its writes.
Computed ==
  LET After[k \in 0..Rounds] == IF k = 0 THEN base ELSE Round(After[k - 1])
  IN After[Rounds]

MaxOf(risk) == CHOOSE r \in {risk[n] : n \in Nodes} : \A n \in Nodes : risk[n] <= r

\* Nodes at most depth edges away: along the edges, against them, or both.
Neighbours(n, direction) ==
  {m \in Nodes : \/ direction \in {"OUT", "BOTH"} /\ <<n, m>> \in links
                 \/ direction \in {"IN", "BOTH"} /\ <<m, n>> \in links}

\* computeImpactRadius, traverse: level by level, from the nodes the last level added.
ImpactRadius(start, direction, depth) ==
  LET Level[k \in 0..depth] ==
        IF k = 0 THEN [visited |-> {start}, frontier |-> {start}]
        ELSE LET last == Level[k - 1]
                 next == (UNION {Neighbours(n, direction) : n \in last.frontier}) \ last.visited
             IN [visited |-> last.visited \cup next, frontier |-> next]
  IN Level[depth].visited

-----------------------------------------------------------------------------
(* Runs.                                                                   *)

\* A sync changes a node or adds an edge, in GraphSync.
NodeChanges(n, f) ==
  /\ base[n] # BaseRisk(f) /\ edits < MaxEdits
  /\ base' = [base EXCEPT ![n] = BaseRisk(f)]
  /\ edits' = edits + 1
  /\ UNCHANGED <<frame, links, score, snapshot, disturbed>>

EdgeAdded(p) ==
  /\ p \notin links /\ edits < MaxEdits
  /\ links' = links \cup {p}
  /\ edits' = edits + 1
  /\ UNCHANGED <<frame, base, score, snapshot, disturbed>>

\* loadGraph reads the nodes with their scores, and the edges ...
RunRead(h) ==
  /\ Serve(h, [op |-> "write", risk |-> Computed, was |-> score])
  /\ disturbed' = (\E g \in Handlers : frame[g] # Idle)
  /\ UNCHANGED <<graph, score, snapshot, edits>>

\* ... the scores that differ from the ones it read are written ...
RunWrite(h) ==
  /\ At(h, "write")
  /\ LET f == frame[h]
     IN /\ score' = [n \in Nodes |-> IF f.risk[n] # f.was[n] THEN f.risk[n] ELSE score[n]]
        /\ GoOn(h, [op |-> "snapshot", risk |-> f.risk])
  /\ UNCHANGED <<graph, snapshot, edits, disturbed>>

\* ... and the snapshot of the day is created or replaced; nudges and fixes follow, in Guidance
\* and Autopilot.
RunStore(h) ==
  /\ At(h, "snapshot")
  /\ snapshot' = MaxOf(frame[h].risk)
  /\ Finish(h)
  /\ UNCHANGED <<graph, score, edits, disturbed>>

Lost(h) ==
  /\ Drop(h)
  /\ disturbed' = TRUE
  /\ UNCHANGED <<graph, score, snapshot, edits>>

Next ==
  \/ \E n \in Nodes, f \in Facts : NodeChanges(n, f)
  \/ \E p \in Pairs : EdgeAdded(p)
  \/ \E h \in Handlers : RunRead(h) \/ RunWrite(h) \/ RunStore(h) \/ Lost(h)

Spec == Init /\ [][Next]_vars

-----------------------------------------------------------------------------
(* Properties.                                                             *)

\* Nodes from which n can be reached along at most Rounds edges, by paths.
Sources(n) == {m \in Nodes : n \in ImpactRadius(m, "OUT", Rounds)}

(* Risk does not come from nowhere: a node with a score has a node with    *)
(* base risk at most three edges up; spreading never lowers a score and    *)
(* keeps it within 100 (computeOrgRisk).                                   *)
RiskHasASource ==
  \A n \in Nodes :
    /\ Computed[n] \in base[n]..100
    /\ Computed[n] > 0 => \E m \in Sources(n) : base[m] > 0

(* The snapshot agrees with the stored scores when no runs overlapped and  *)
(* none was lost, though a run writes only the scores it saw change.       *)
SnapshotAgrees ==
  (~disturbed /\ snapshot # None /\ \A h \in Handlers : frame[h] = Idle) => snapshot = MaxOf(score)

(* A radius reaches exactly the nodes joined by a path of at most its      *)
(* depth (computeImpactRadius, traverse).                                  *)
RadiusIsPaths ==
  \A start, end \in Nodes, direction \in {"OUT", "IN", "BOTH"} :
    (end \in ImpactRadius(start, direction, 2)) <=>
      \/ end = start
      \/ end \in Neighbours(start, direction)
      \/ \E via \in Nodes : via \in Neighbours(start, direction) /\ end \in Neighbours(via, direction)
=============================================================================
