----------------------------- MODULE GraphSync -----------------------------
(***************************************************************************)
(* The graph that mirrors deals and work items (graph/graph-sync.service.ts). *)
(* After a write the service sets off a sync it does not wait for: it      *)
(* reads the entity, upserts its node, and goes on to the nodes and edges  *)
(* of what the entity refers to.  Repairs (graph/graph.service.ts) run the *)
(* same sync, and some writes set off none.  Invoices are synced as work   *)
(* items are.                                                              *)
(***************************************************************************)
EXTENDS Server

CONSTANTS
  Users,        \* assignees
  MaxVersion    \* bound on the versions of an entity

Kinds == {"deal", "item"}
None == "none"
Assignees == Users \cup {None}

VARIABLES
  version,      \* writes of each entity, 0 before it exists
  assignee,     \* assignedToUserId of the work item
  node,         \* version of each entity its node shows, 0 for no node
  userNodes,    \* users with a node
  edges,        \* CREATED_FROM from the deal to the item, ASSIGNED_TO from the item to users
  behind        \* entities with a write no sync followed, or whose syncs overlapped or were lost

sources == <<version, assignee>>
graph == <<node, userNodes, edges>>
vars == <<frame, sources, graph, behind>>

Created == <<"deal", "item">>
Assigned(u) == <<"item", u>>

TypeOK ==
  /\ frame \in [Handlers ->
       {Idle}
       \cup [op : {"read"}, entity : Kinds, root : Kinds, assignee : Assignees]
       \cup [op : {"upsert"}, entity : Kinds, root : Kinds, version : 1..MaxVersion, assignee : Assignees]
       \cup [op : {"created", "assigned"}, root : {"item"}, assignee : Assignees]]
  /\ version \in [Kinds -> 0..MaxVersion]
  /\ assignee \in Assignees
  /\ node \in [Kinds -> 0..MaxVersion]
  /\ userNodes \subseteq Users
  /\ edges \subseteq {Created} \cup {Assigned(u) : u \in Users}
  /\ behind \subseteq Kinds

Init ==
  /\ ServerInit
  /\ version = [e \in Kinds |-> 0] /\ assignee = None
  /\ node = [e \in Kinds |-> 0] /\ userNodes = {} /\ edges = {}
  /\ behind = {}

\* Syncs under way that will write the node of e.
Syncing(e) == {h \in Handlers : /\ frame[h] # Idle
                                /\ \/ frame[h].op \in {"read", "upsert"} /\ frame[h].entity = e
                                   \/ e = "deal" /\ frame[h].op \in {"read", "upsert"}
                                                 /\ frame[h].root = "item"}

Touched(e) == IF e = "item" THEN Kinds ELSE {e}

Disturbed(e) == {d \in Touched(e) : Syncing(d) # {}}

-----------------------------------------------------------------------------
(* Writes.                                                                 *)

\* An update, creation or stage change stores the entity and sets off a sync.
Write(h, e, u) ==
  /\ version[e] < MaxVersion
  /\ IF e = "item" THEN version["deal"] > 0 ELSE u = assignee
  /\ version' = [version EXCEPT ![e] = @ + 1]
  /\ assignee' = IF e = "item" THEN u ELSE assignee
  /\ Serve(h, [op |-> "read", entity |-> e, root |-> e, assignee |-> None])
  /\ behind' = (behind \ Touched(e)) \cup Disturbed(e)
  /\ UNCHANGED graph

\* convertToDeal, the stale deal job and the fix actions store it and set off none.
SilentWrite(e) ==
  /\ version[e] < MaxVersion
  /\ e = "item" => version["item"] > 0
  /\ version' = [version EXCEPT ![e] = @ + 1]
  /\ behind' = behind \cup {e}
  /\ UNCHANGED <<frame, assignee, graph>>

\* repairDeal, repairWorkItem, repairRecent
Repair(h, e) ==
  /\ version[e] > 0
  /\ Serve(h, [op |-> "read", entity |-> e, root |-> e, assignee |-> None])
  /\ behind' = (behind \ Touched(e)) \cup Disturbed(e)
  /\ UNCHANGED <<sources, graph>>

-----------------------------------------------------------------------------
(* A sync.                                                                 *)

\* upsertNodeFromDeal, upsertNodeFromWorkItem: the entity is read ...
SyncRead(h) ==
  /\ At(h, "read")
  /\ LET f == frame[h]
     IN GoOn(h, [op |-> "upsert", entity |-> f.entity, root |-> f.root,
                 version |-> version[f.entity],
                 assignee |-> IF f.entity = "item" THEN assignee ELSE f.assignee])
  /\ UNCHANGED <<sources, graph, behind>>

\* Mutant: the update of the upsert leaves the node as it was created.
UpsertDealOnce(h) ==
  /\ At(h, "upsert") /\ frame[h].entity = "deal"
  /\ node' = IF node["deal"] = 0 THEN [node EXCEPT !["deal"] = frame[h].version] ELSE node
  /\ IF frame[h].root = "item"
     THEN GoOn(h, [op |-> "created", root |-> "item", assignee |-> frame[h].assignee])
     ELSE Finish(h)
  /\ UNCHANGED <<sources, userNodes, edges, behind>>

\* ... the node of a work item is created or updated, and the sync goes on to its deal ...
UpsertItem(h) ==
  /\ At(h, "upsert") /\ frame[h].entity = "item"
  /\ node' = [node EXCEPT !["item"] = frame[h].version]
  /\ GoOn(h, [op |-> "read", entity |-> "deal", root |-> "item", assignee |-> frame[h].assignee])
  /\ UNCHANGED <<sources, userNodes, edges, behind>>

\* ... the node of a deal likewise, where the sync of a deal ends ...
UpsertDeal(h) ==
  /\ At(h, "upsert") /\ frame[h].entity = "deal"
  /\ node' = [node EXCEPT !["deal"] = frame[h].version]
  /\ IF frame[h].root = "item"
     THEN GoOn(h, [op |-> "created", root |-> "item", assignee |-> frame[h].assignee])
     ELSE Finish(h)
  /\ UNCHANGED <<sources, userNodes, edges, behind>>

\* ... and ensureEdge links the two ...
LinkDeal(h) ==
  /\ At(h, "created")
  /\ edges' = edges \cup {Created}
  /\ IF frame[h].assignee = None THEN Finish(h) ELSE GoOn(h, [frame[h] EXCEPT !.op = "assigned"])
  /\ UNCHANGED <<sources, node, userNodes, behind>>

\* ... the assignee's node is upserted, and the item linked to it.  No edge is ever removed.
LinkUser(h) ==
  /\ At(h, "assigned")
  /\ userNodes' = userNodes \cup {frame[h].assignee}
  /\ edges' = edges \cup {Assigned(frame[h].assignee)}
  /\ Finish(h)
  /\ UNCHANGED <<sources, node, behind>>

\* A sync that fails is logged and forgotten.
Lost(h) ==
  /\ Drop(h)
  /\ behind' = behind \cup (IF frame[h].op \in {"read", "upsert"} THEN Touched(frame[h].root)
                            ELSE {frame[h].root})
  /\ UNCHANGED <<sources, graph>>

Next ==
  \/ \E e \in Kinds : SilentWrite(e)
  \/ \E h \in Handlers :
       \/ \E e \in Kinds : Repair(h, e) \/ \E u \in Assignees : Write(h, e, u)
       \/ SyncRead(h) \/ UpsertItem(h) \/ UpsertDeal(h) \/ LinkDeal(h) \/ LinkUser(h) \/ Lost(h)

Spec == Init /\ [][Next]_vars

-----------------------------------------------------------------------------
(* Properties.                                                             *)

(* Once the syncs of an entity are done, its node shows its last write,    *)
(* and an item is linked to its deal and its assignee, where each write    *)
(* set off a sync and none overlapped or failed (GraphSyncService).        *)
GraphMirrors ==
  \A e \in Kinds :
    (e \notin behind /\ Syncing(e) = {}) =>
      /\ node[e] = version[e]
      /\ (e = "item" /\ version[e] > 0 /\ \A h \in Handlers : frame[h] = Idle) =>
           Created \in edges /\ (assignee # None => Assigned(assignee) \in edges)
=============================================================================
