-------------------------- MODULE PlatformProofs ----------------------------
(* Proofs about the components of Platform that compute over what an organization holds, its graph,    *)
(* its schedules and its policy, and about Platform.                                                   *)
EXTENDS WorkProofs

-----------------------------------------------------------------------------
(* The execution graph.                                                    *)

GraphSyncReads == [op : {"read"}, entity : GraphSync!Kinds, root : GraphSync!Kinds, assignee : GraphSync!Assignees]
GraphSyncUpserts == [op : {"upsert"}, entity : GraphSync!Kinds, root : GraphSync!Kinds, version : 1..MaxVersion, assignee : GraphSync!Assignees]
GraphSyncLinks == [op : {"created", "assigned"}, root : {"item"}, assignee : GraphSync!Assignees]
GraphSyncFrames == {GraphSync!Idle} \cup GraphSyncReads \cup GraphSyncUpserts \cup GraphSyncLinks

\* A step of the sync h, the write that sets it off among them.
GraphSyncStepOf(h) ==
  \/ \E e \in GraphSync!Kinds : GraphSync!Repair(h, e) \/ \E u \in GraphSync!Assignees : GraphSync!Write(h, e, u)
  \/ GraphSync!SyncRead(h) \/ GraphSync!UpsertItem(h) \/ GraphSync!UpsertDeal(h) \/ GraphSync!LinkDeal(h) \/ GraphSync!LinkUser(h) \/ GraphSync!Lost(h)

\* The entities a sync reads exist, and it links a user only to an item that has one.
GraphSyncSyncInv ==
  /\ version["item"] > 0 => version["deal"] > 0
  /\ \A h \in Handlers :
       /\ frame[h].op \in {"read", "upsert"} =>
            version[frame[h].root] > 0 /\ (frame[h].entity = "item" => frame[h].root = "item")
       /\ frame[h].op = "assigned" => frame[h].assignee # GraphSync!None

\* An entity that is not behind has at most one sync, which writes its last version.
GraphSyncMirrorInv ==
  \A e \in GraphSync!Kinds \ behind :
    /\ \A g, h \in GraphSync!Syncing(e) : g = h
    /\ GraphSync!Syncing(e) = {} => node[e] = version[e]
    /\ \A h \in GraphSync!Syncing(e) : frame[h].op = "upsert" /\ frame[h].entity = e => frame[h].version = version[e]

\* What a sync still has to link, and that it is all there.
GraphSyncCarries(h) ==
  \/ frame[h].op = "read" /\ frame[h].entity = "item"
  \/ frame[h].op \in {"read", "upsert"} /\ frame[h].root = "item" /\ frame[h].assignee = assignee
  \/ frame[h].op = "created" /\ frame[h].assignee = assignee
  \/ frame[h].op = "assigned" /\ frame[h].assignee = assignee /\ GraphSync!Created \in edges
GraphSyncLinked == GraphSync!Created \in edges /\ (assignee # GraphSync!None => GraphSync!Assigned(assignee) \in edges)

GraphSyncLinkInv == "item" \notin behind /\ version["item"] > 0 => GraphSyncLinked \/ \E h \in Handlers : GraphSyncCarries(h)

\* Types.

LEMMA GraphSyncFrameParts ==
  ASSUME GraphSync!TypeOK, NEW h \in Handlers
  PROVE  /\ frame[h].op \in {"idle", "read", "upsert", "created", "assigned"}
         /\ GraphSync!At(h, "idle") => frame[h] = GraphSync!Idle
         /\ GraphSync!At(h, "read") => frame[h] \in GraphSyncReads
         /\ GraphSync!At(h, "upsert") => frame[h] \in GraphSyncUpserts
         /\ GraphSync!At(h, "created") \/ GraphSync!At(h, "assigned") => frame[h] \in GraphSyncLinks
<1>1. frame[h] \in GraphSyncFrames
  BY DEF GraphSync!TypeOK, GraphSyncFrames, GraphSyncReads, GraphSyncUpserts, GraphSyncLinks
<1>2. GraphSync!Idle.op = "idle"
  BY DEF GraphSync!Idle
<1>3. /\ \A f \in GraphSyncReads : f.op = "read"
      /\ \A f \in GraphSyncUpserts : f.op = "upsert"
      /\ \A f \in GraphSyncLinks : f.op \in {"created", "assigned"}
  BY DEF GraphSyncReads, GraphSyncUpserts, GraphSyncLinks
<1>4. QED
  BY <1>1, <1>2, <1>3 DEF GraphSyncFrames, GraphSync!At

LEMMA GraphSyncFrameStep ==
  ASSUME GraphSync!TypeOK, GraphSyncSyncInv, NEW h \in Handlers, GraphSyncStepOf(h)
  PROVE  /\ frame' \in [Handlers -> GraphSyncFrames]
         /\ \A g \in Handlers \ {h} : frame'[g] = frame[g]
<1>1. ASSUME NEW f \in GraphSyncFrames, GraphSync!GoOn(h, f)
      PROVE  /\ frame' \in [Handlers -> GraphSyncFrames]
             /\ \A g \in Handlers \ {h} : frame'[g] = frame[g]
  BY <1>1 DEF GraphSync!GoOn, GraphSync!TypeOK, GraphSyncFrames, GraphSyncReads, GraphSyncUpserts,
     GraphSyncLinks
<1>2. ASSUME NEW e \in GraphSync!Kinds
      PROVE  [op |-> "read", entity |-> e, root |-> e, assignee |-> GraphSync!None] \in GraphSyncFrames
  BY DEF GraphSyncFrames, GraphSyncReads, GraphSync!Assignees
<1>3. CASE \E e \in GraphSync!Kinds : GraphSync!Repair(h, e) \/ \E u \in GraphSync!Assignees : GraphSync!Write(h, e, u)
  BY <1>1, <1>2, <1>3 DEF GraphSync!Repair, GraphSync!Write, GraphSync!Serve, GraphSync!GoOn
<1>4. CASE GraphSync!SyncRead(h)
  <2>1. frame[h] \in GraphSyncReads
    BY <1>4, GraphSyncFrameParts DEF GraphSync!SyncRead
  <2>2. version[frame[h].entity] \in 1..MaxVersion
    <3>1. frame[h].entity \in GraphSync!Kinds /\ frame[h].root \in GraphSync!Kinds /\ frame[h].op = "read"
      BY <2>1 DEF GraphSyncReads
    <3>2. version[frame[h].entity] > 0
      BY <3>1 DEF GraphSyncSyncInv, GraphSync!Kinds
    <3>3. version[frame[h].entity] \in 0..MaxVersion
      BY <3>1 DEF GraphSync!TypeOK
    <3>4. QED
      BY <3>2, <3>3, GraphConstants
  <2>3. [op |-> "upsert", entity |-> frame[h].entity, root |-> frame[h].root,
         version |-> version[frame[h].entity],
         assignee |-> IF frame[h].entity = "item" THEN assignee ELSE frame[h].assignee] \in GraphSyncUpserts
    BY <2>1, <2>2 DEF GraphSyncReads, GraphSyncUpserts, GraphSync!TypeOK
  <2>4. QED
    BY <1>1, <1>4, <2>3 DEF GraphSync!SyncRead, GraphSyncFrames
<1>5. CASE GraphSync!UpsertItem(h)
  <2>1. [op |-> "read", entity |-> "deal", root |-> "item", assignee |-> frame[h].assignee] \in GraphSyncFrames
    BY <1>5, GraphSyncFrameParts DEF GraphSync!UpsertItem, GraphSyncUpserts, GraphSyncFrames, GraphSyncReads,
       GraphSync!Kinds
  <2>2. QED
    BY <1>1, <1>5, <2>1 DEF GraphSync!UpsertItem
<1>6. CASE GraphSync!UpsertDeal(h)
  <2>1. [op |-> "created", root |-> "item", assignee |-> frame[h].assignee] \in GraphSyncFrames /\ GraphSync!Idle \in GraphSyncFrames
    BY <1>6, GraphSyncFrameParts DEF GraphSync!UpsertDeal, GraphSyncUpserts, GraphSyncFrames, GraphSyncLinks
  <2>2. QED
    BY <1>1, <1>6, <2>1 DEF GraphSync!UpsertDeal, GraphSync!Finish
<1>7. CASE GraphSync!LinkDeal(h)
  <2>1. [frame[h] EXCEPT !.op = "assigned"] \in GraphSyncFrames /\ GraphSync!Idle \in GraphSyncFrames
    BY <1>7, GraphSyncFrameParts DEF GraphSync!LinkDeal, GraphSyncFrames, GraphSyncLinks
  <2>2. QED
    BY <1>1, <1>7, <2>1 DEF GraphSync!LinkDeal, GraphSync!Finish
<1>8. CASE GraphSync!LinkUser(h) \/ GraphSync!Lost(h)
  <2>1. GraphSync!Idle \in GraphSyncFrames
    BY DEF GraphSyncFrames
  <2>2. QED
    BY <1>1, <1>8, <2>1 DEF GraphSync!LinkUser, GraphSync!Lost, GraphSync!Drop, GraphSync!Finish
<1>9. QED
  BY <1>3, <1>4, <1>5, <1>6, <1>7, <1>8 DEF GraphSyncStepOf

\* A write adds one to a version, and a deal is there before its items.
LEMMA GraphSyncVersionsStep ==
  ASSUME GraphSync!TypeOK, GraphSyncSyncInv, [GraphSync!Next]_(GraphSync!vars)
  PROVE  /\ version' \in [GraphSync!Kinds -> 0..MaxVersion]
         /\ \A e \in GraphSync!Kinds : version[e] <= version'[e]
         /\ version'["item"] > 0 => version'["deal"] > 0
<1>1. /\ version \in [GraphSync!Kinds -> 0..MaxVersion]
      /\ version["item"] > 0 => version["deal"] > 0
      /\ "item" \in GraphSync!Kinds /\ "deal" \in GraphSync!Kinds /\ \A e \in GraphSync!Kinds : version[e] \in 0..MaxVersion
  BY DEF GraphSync!TypeOK, GraphSyncSyncInv, GraphSync!Kinds
<1>2. CASE version' = version
  BY <1>1, <1>2, GraphConstants
<1>3. ASSUME NEW e \in GraphSync!Kinds, version[e] < MaxVersion, e = "item" => version["deal"] > 0,
             version' = [version EXCEPT ![e] = @ + 1]
      PROVE  /\ version' \in [GraphSync!Kinds -> 0..MaxVersion]
             /\ \A k \in GraphSync!Kinds : version[k] <= version'[k]
             /\ version'["item"] > 0 => version'["deal"] > 0
  <2>1. version[e] + 1 \in 0..MaxVersion
    BY <1>1, <1>3, GraphConstants
  <2>2. \A k \in GraphSync!Kinds : version'[k] = IF k = e THEN version[k] + 1 ELSE version[k]
    BY <1>1, <1>3
  <2>3. version' \in [GraphSync!Kinds -> 0..MaxVersion]
    BY <1>1, <1>3, <2>1
  <2>4. \A k \in GraphSync!Kinds : version[k] <= version'[k]
    BY <1>1, <2>2, GraphConstants
  <2>5. version'["item"] > 0 => version'["deal"] > 0
    BY <1>1, <1>3, <2>2, GraphConstants DEF GraphSync!Kinds
  <2>6. QED
    BY <2>3, <2>4, <2>5
<1>4. ASSUME NEW e \in GraphSync!Kinds, GraphSync!SilentWrite(e)
      PROVE  version[e] < MaxVersion /\ (e = "item" => version["deal"] > 0) /\ version' = [version EXCEPT ![e] = @ + 1]
  BY <1>1, <1>4 DEF GraphSync!SilentWrite
<1>5. ASSUME NEW h \in Handlers, NEW e \in GraphSync!Kinds, NEW u \in GraphSync!Assignees, GraphSync!Write(h, e, u)
      PROVE  version[e] < MaxVersion /\ (e = "item" => version["deal"] > 0) /\ version' = [version EXCEPT ![e] = @ + 1]
  BY <1>5 DEF GraphSync!Write
<1>6. ASSUME NEW h \in Handlers,
             \/ \E e \in GraphSync!Kinds : GraphSync!Repair(h, e)
             \/ GraphSync!SyncRead(h) \/ GraphSync!UpsertItem(h) \/ GraphSync!UpsertDeal(h) \/ GraphSync!LinkDeal(h) \/ GraphSync!LinkUser(h) \/ GraphSync!Lost(h)
      PROVE  version' = version
  BY <1>6 DEF GraphSync!Repair, GraphSync!SyncRead, GraphSync!UpsertItem, GraphSync!UpsertDeal,
     GraphSync!LinkDeal, GraphSync!LinkUser, GraphSync!Lost, GraphSync!sources
<1>7. CASE UNCHANGED GraphSync!vars
  BY <1>2, <1>7 DEF GraphSync!vars, GraphSync!sources
<1>8. QED
  BY <1>2, <1>3, <1>4, <1>5, <1>6, <1>7 DEF GraphSync!Next

LEMMA GraphSyncTypeStep == ASSUME GraphSync!TypeOK, GraphSyncSyncInv, [GraphSync!Next]_(GraphSync!vars)
                           PROVE  GraphSync!TypeOK'
<1> DEFINE Rest == /\ assignee \in GraphSync!Assignees
                   /\ node \in [GraphSync!Kinds -> 0..MaxVersion]
                   /\ userNodes \subseteq Users
                   /\ edges \subseteq {GraphSync!Created} \cup {GraphSync!Assigned(u) : u \in Users}
                   /\ behind \subseteq GraphSync!Kinds
<1>0. Rest
  BY DEF GraphSync!TypeOK
<1>1. version' \in [GraphSync!Kinds -> 0..MaxVersion]
  BY GraphSyncVersionsStep
<1>2. ASSUME frame' \in [Handlers -> GraphSyncFrames], Rest' PROVE GraphSync!TypeOK'
  BY <1>1, <1>2 DEF GraphSync!TypeOK, GraphSyncFrames, GraphSyncReads, GraphSyncUpserts, GraphSyncLinks
<1>3. ASSUME NEW h \in Handlers, GraphSyncStepOf(h) PROVE Rest'
  <2>1. \A e \in GraphSync!Kinds : GraphSync!Touched(e) \subseteq GraphSync!Kinds /\ GraphSync!Disturbed(e) \subseteq GraphSync!Kinds
    BY DEF GraphSync!Touched, GraphSync!Disturbed
  <2>2. ASSUME NEW e \in GraphSync!Kinds, GraphSync!Repair(h, e) \/ \E u \in GraphSync!Assignees : GraphSync!Write(h, e, u)
        PROVE  Rest'
    BY <1>0, <2>1, <2>2 DEF GraphSync!Repair, GraphSync!Write, GraphSync!sources, GraphSync!graph
  <2>3. ASSUME GraphSync!SyncRead(h) PROVE Rest'
    BY <1>0, <2>3 DEF GraphSync!SyncRead, GraphSync!sources, GraphSync!graph
  <2>4. ASSUME GraphSync!UpsertItem(h) \/ GraphSync!UpsertDeal(h) PROVE Rest'
    <3>1. frame[h].version \in 0..MaxVersion
      <4>1. frame[h] \in GraphSyncUpserts
        BY <2>4, GraphSyncFrameParts DEF GraphSync!UpsertItem, GraphSync!UpsertDeal
      <4>2. frame[h].version \in 1..MaxVersion
        BY <4>1 DEF GraphSyncUpserts
      <4>3. QED
        BY <4>2, GraphConstants
    <3>2. QED
      BY <1>0, <2>4, <3>1 DEF GraphSync!UpsertItem, GraphSync!UpsertDeal, GraphSync!sources
  <2>5. ASSUME GraphSync!LinkDeal(h) PROVE Rest'
    BY <1>0, <2>5 DEF GraphSync!LinkDeal, GraphSync!sources
  <2>6. ASSUME GraphSync!LinkUser(h) PROVE Rest'
    <3>1. frame[h].assignee \in Users
      <4>1. frame[h].op = "assigned" /\ frame[h] \in GraphSyncLinks
        BY <2>6, GraphSyncFrameParts DEF GraphSync!LinkUser, GraphSync!At
      <4>2. frame[h].assignee \in GraphSync!Assignees /\ frame[h].assignee # GraphSync!None
        BY <4>1 DEF GraphSyncLinks, GraphSyncSyncInv
      <4>3. QED
        BY <4>2 DEF GraphSync!Assignees
    <3>2. /\ userNodes' = userNodes \cup {frame[h].assignee} /\ edges' = edges \cup {GraphSync!Assigned(frame[h].assignee)}
          /\ UNCHANGED <<assignee, node, behind>>
      BY <2>6 DEF GraphSync!LinkUser, GraphSync!sources
    <3>3. edges' \subseteq {GraphSync!Created} \cup {GraphSync!Assigned(u) : u \in Users}
      BY <1>0, <3>1, <3>2
    <3>4. QED
      BY <1>0, <3>1, <3>2, <3>3
  <2>7. ASSUME GraphSync!Lost(h) PROVE Rest'
    <3>1. frame[h].op \in {"read", "upsert", "created", "assigned"}
      BY <2>7, GraphSyncFrameParts DEF GraphSync!Lost, GraphSync!Drop, GraphSync!At
    <3>2. frame[h].root \in GraphSync!Kinds
      BY <3>1, GraphSyncFrameParts DEF GraphSync!At, GraphSyncReads, GraphSyncUpserts, GraphSyncLinks,
         GraphSync!Kinds
    <3>3. QED
      BY <1>0, <2>1, <2>7, <3>2 DEF GraphSync!Lost, GraphSync!sources, GraphSync!graph
  <2>8. QED
    BY <1>3, <2>2, <2>3, <2>4, <2>5, <2>6, <2>7 DEF GraphSyncStepOf
<1>4. ASSUME NEW e \in GraphSync!Kinds, GraphSync!SilentWrite(e) PROVE Rest' /\ frame' = frame
  BY <1>0, <1>4 DEF GraphSync!SilentWrite, GraphSync!graph
<1>5. ASSUME UNCHANGED GraphSync!vars PROVE Rest' /\ frame' = frame
  BY <1>0, <1>5 DEF GraphSync!vars, GraphSync!sources, GraphSync!graph
<1>6. frame \in [Handlers -> GraphSyncFrames]
  BY DEF GraphSync!TypeOK, GraphSyncFrames, GraphSyncReads, GraphSyncUpserts, GraphSyncLinks
<1>7. QED
  BY <1>2, <1>3, <1>4, <1>5, <1>6, GraphSyncFrameStep DEF GraphSync!Next, GraphSyncStepOf

LEMMA GraphSyncSyncStep == ASSUME GraphSync!TypeOK, GraphSyncSyncInv, [GraphSync!Next]_(GraphSync!vars)
                           PROVE  GraphSyncSyncInv'
<1> DEFINE Ok(f, v) ==
      /\ f.op \in {"read", "upsert"} => v[f.root] > 0 /\ (f.entity = "item" => f.root = "item")
      /\ f.op = "assigned" => f.assignee # GraphSync!None
<1>1. \A h \in Handlers : Ok(frame[h], version)
  BY DEF GraphSyncSyncInv
<1>2. /\ \A e \in GraphSync!Kinds : version[e] <= version'[e] /\ version[e] \in Nat /\ version'[e] \in Nat
      /\ version'["item"] > 0 => version'["deal"] > 0
  <2>1. \A e \in GraphSync!Kinds : version[e] \in 0..MaxVersion
    BY DEF GraphSync!TypeOK
  <2>2. QED
    BY <2>1, GraphSyncVersionsStep, GraphConstants
<1>3. ASSUME NEW h \in Handlers, frame'[h] = frame[h] PROVE Ok(frame'[h], version')
  <2>1. frame[h].op \in {"read", "upsert"} => frame[h].root \in GraphSync!Kinds
    BY GraphSyncFrameParts DEF GraphSync!At, GraphSyncReads, GraphSyncUpserts
  <2>2. QED
    BY <1>1, <1>2, <1>3, <2>1
<1>4. ASSUME NEW h \in Handlers, GraphSyncStepOf(h) PROVE Ok(frame'[h], version')
  <2>0. /\ \A f : GraphSync!GoOn(h, f) => frame'[h] = f
        /\ GraphSync!Idle.op = "idle"
    BY DEF GraphSync!GoOn, GraphSync!TypeOK, GraphSync!Idle
  <2>1. ASSUME NEW e \in GraphSync!Kinds, GraphSync!Repair(h, e) \/ \E u \in GraphSync!Assignees : GraphSync!Write(h, e, u)
        PROVE  Ok(frame'[h], version')
    <3>1. frame'[h] = [op |-> "read", entity |-> e, root |-> e, assignee |-> GraphSync!None]
      BY <2>0, <2>1 DEF GraphSync!Repair, GraphSync!Write, GraphSync!Serve, GraphSync!GoOn
    <3>2. version'[e] > 0
      <4>1. CASE GraphSync!Repair(h, e)
        BY <1>2, <4>1 DEF GraphSync!Repair
      <4>2. CASE \E u \in GraphSync!Assignees : GraphSync!Write(h, e, u)
        <5>1. version' = [version EXCEPT ![e] = @ + 1] /\ version \in [GraphSync!Kinds -> 0..MaxVersion]
          BY <4>2 DEF GraphSync!Write, GraphSync!TypeOK
        <5>2. QED
          BY <1>2, <5>1
      <4>3. QED
        BY <2>1, <4>1, <4>2
    <3>3. QED
      BY <3>1, <3>2
  <2>2. CASE GraphSync!SyncRead(h)
    <3>1. frame[h].op = "read" /\ frame[h].root \in GraphSync!Kinds
      BY <2>2, GraphSyncFrameParts DEF GraphSync!SyncRead, GraphSync!At, GraphSyncReads
    <3>2. frame'[h].op = "upsert" /\ frame'[h].root = frame[h].root /\ frame'[h].entity = frame[h].entity
      BY <2>0, <2>2 DEF GraphSync!SyncRead
    <3>3. QED
      BY <1>1, <1>2, <3>1, <3>2
  <2>3. CASE GraphSync!UpsertItem(h)
    <3>1. frame'[h] = [op |-> "read", entity |-> "deal", root |-> "item", assignee |-> frame[h].assignee]
      BY <2>0, <2>3 DEF GraphSync!UpsertItem
    <3>2. version["item"] > 0
      BY <1>1, <2>3 DEF GraphSync!UpsertItem, GraphSync!At
    <3>3. QED
      BY <1>2, <3>1, <3>2 DEF GraphSync!Kinds
  <2>4. CASE GraphSync!UpsertDeal(h) \/ GraphSync!LinkUser(h) \/ GraphSync!Lost(h)
    <3>1. frame'[h].op \in {"created", "idle"}
      BY <2>0, <2>4 DEF GraphSync!UpsertDeal, GraphSync!LinkUser, GraphSync!Lost, GraphSync!Drop,
         GraphSync!Finish
    <3>2. QED
      BY <3>1
  <2>5. CASE GraphSync!LinkDeal(h)
    <3>1. frame[h] \in GraphSyncLinks
      BY <2>5, GraphSyncFrameParts DEF GraphSync!LinkDeal
    <3>2. frame'[h].op = "idle" \/ (frame'[h].op = "assigned" /\ frame'[h].assignee # GraphSync!None)
      BY <2>0, <2>5, <3>1 DEF GraphSync!LinkDeal, GraphSync!Finish, GraphSyncLinks
    <3>3. QED
      BY <3>2
  <2>6. QED
    <3> HIDE DEF Ok
    <3>1. QED
      BY <1>4, <2>1, <2>2, <2>3, <2>4, <2>5 DEF GraphSyncStepOf
<1>5. \A h \in Handlers : Ok(frame'[h], version')
  <2>1. ASSUME NEW h \in Handlers, GraphSyncStepOf(h), NEW g \in Handlers PROVE Ok(frame'[g], version')
    <3> HIDE DEF Ok
    <3>1. QED
      BY <1>3, <1>4, <2>1, GraphSyncFrameStep
  <2>2. CASE (\E e \in GraphSync!Kinds : GraphSync!SilentWrite(e)) \/ UNCHANGED GraphSync!vars
    <3>1. frame' = frame
      BY <2>2 DEF GraphSync!SilentWrite, GraphSync!vars
    <3> HIDE DEF Ok
    <3>2. QED
      BY <1>3, <3>1
  <2>3. QED
    <3> HIDE DEF Ok
    <3>1. QED
      BY <2>1, <2>2 DEF GraphSync!Next, GraphSyncStepOf
<1>6. QED
  BY <1>2, <1>5 DEF GraphSyncSyncInv

LEMMA GraphSyncTypeStart == ASSUME GraphSync!Init PROVE GraphSync!TypeOK /\ GraphSyncSyncInv
<1>1. /\ frame = [h \in Handlers |-> GraphSync!Idle] /\ version = [e \in GraphSync!Kinds |-> 0] /\ assignee = GraphSync!None
      /\ node = [e \in GraphSync!Kinds |-> 0] /\ userNodes = {} /\ edges = {} /\ behind = {}
  BY DEF GraphSync!Init, GraphSync!ServerInit
<1>2. GraphSync!TypeOK
  BY <1>1, GraphConstants DEF GraphSync!TypeOK, GraphSync!Assignees
<1>3. GraphSyncSyncInv
  BY <1>1 DEF GraphSyncSyncInv, GraphSync!Idle, GraphSync!Kinds
<1>4. QED
  BY <1>2, <1>3

(* The types of the graph and of its syncs: a node shows a version the     *)
(* entity has had, and only users are linked (graph-sync.service.ts).      *)
THEOREM GraphSyncTypeCorrect == GraphSync!Spec => []GraphSync!TypeOK
BY GraphSyncTypeStart, GraphSyncTypeStep, GraphSyncSyncStep, PTL DEF GraphSync!Spec

\* Nodes and edges.

GraphSyncInSync(f, e) ==
  /\ f.op \in {"read", "upsert"}
  /\ f.entity = e \/ (e = "deal" /\ f.root = "item")

LEMMA GraphSyncSyncingMembers ==
  ASSUME NEW e
  PROVE  /\ GraphSync!Syncing(e) = {h \in Handlers : GraphSyncInSync(frame[h], e)}
         /\ GraphSync!Syncing(e)' = {h \in Handlers : GraphSyncInSync(frame'[h], e)}
<1>1. GraphSync!Idle.op = "idle"
  BY DEF GraphSync!Idle
<1>2. QED
  BY <1>1 DEF GraphSync!Syncing, GraphSyncInSync

\* What a step of h does to an entity that is not behind after it: nothing, it sets off the one
\* sync of it, that sync goes on to its node, or writes it.
GraphSyncUntouched(h, e) ==
  /\ ~GraphSyncInSync(frame[h], e) /\ ~GraphSyncInSync(frame'[h], e)
  /\ node'[e] = node[e] /\ version'[e] = version[e]
GraphSyncSetsOff(h, e) == GraphSync!Syncing(e) = {} /\ GraphSyncInSync(frame'[h], e) /\ frame'[h].op = "read"
GraphSyncGoesOn(h, e) ==
  /\ GraphSyncInSync(frame[h], e) /\ GraphSyncInSync(frame'[h], e)
  /\ node'[e] = node[e] /\ version'[e] = version[e]
  /\ frame'[h].op = "upsert" /\ frame'[h].entity = e => frame'[h].version = version[e]
GraphSyncMirrors(h, e) ==
  /\ GraphSyncInSync(frame[h], e) /\ ~GraphSyncInSync(frame'[h], e) /\ frame[h].op = "upsert" /\ frame[h].entity = e
  /\ node'[e] = frame[h].version /\ version'[e] = version[e]

LEMMA GraphSyncMirrorCases ==
  ASSUME GraphSync!TypeOK, GraphSyncSyncInv, NEW h \in Handlers, GraphSyncStepOf(h), NEW e \in GraphSync!Kinds, e \notin behind'
  PROVE  GraphSyncSetsOff(h, e) \/ (e \notin behind /\ (GraphSyncUntouched(h, e) \/ GraphSyncGoesOn(h, e) \/ GraphSyncMirrors(h, e)))
<1>0. /\ \A f : GraphSync!GoOn(h, f) => frame'[h] = f
      /\ GraphSync!Idle.op = "idle"
      /\ node \in [GraphSync!Kinds -> 0..MaxVersion] /\ version \in [GraphSync!Kinds -> 0..MaxVersion]
  BY DEF GraphSync!GoOn, GraphSync!TypeOK, GraphSync!Idle
<1>1. ASSUME NEW k \in GraphSync!Kinds, behind' = (behind \ GraphSync!Touched(k)) \cup GraphSync!Disturbed(k),
             \A d \in GraphSync!Kinds \ {k} : version'[d] = version[d], node' = node,
             GraphSync!Serve(h, [op |-> "read", entity |-> k, root |-> k, assignee |-> GraphSync!None])
      PROVE  GraphSyncSetsOff(h, e) \/ (e \notin behind /\ GraphSyncUntouched(h, e))
  <2>1. frame'[h] = [op |-> "read", entity |-> k, root |-> k, assignee |-> GraphSync!None] /\ frame[h] = GraphSync!Idle
    BY <1>0, <1>1 DEF GraphSync!Serve, GraphSync!GoOn
  <2>2. ASSUME e \in GraphSync!Touched(k) PROVE GraphSyncSetsOff(h, e)
    <3>1. GraphSync!Syncing(e) = {}
      BY <1>1, <2>2 DEF GraphSync!Disturbed
    <3>2. GraphSyncInSync(frame'[h], e) /\ frame'[h].op = "read"
      BY <2>1, <2>2 DEF GraphSyncInSync, GraphSync!Touched, GraphSync!Kinds
    <3>3. QED
      BY <3>1, <3>2 DEF GraphSyncSetsOff
  <2>3. ASSUME e \notin GraphSync!Touched(k) PROVE e \notin behind /\ GraphSyncUntouched(h, e)
    <3>1. k = "deal" /\ e = "item"
      BY <2>3 DEF GraphSync!Touched, GraphSync!Kinds
    <3>2. ~GraphSyncInSync(frame'[h], e) /\ ~GraphSyncInSync(frame[h], e)
      BY <1>0, <2>1, <3>1 DEF GraphSyncInSync
    <3>3. QED
      BY <1>1, <2>3, <3>1, <3>2 DEF GraphSyncUntouched
  <2>4. QED
    BY <2>2, <2>3
<1>2. ASSUME NEW k \in GraphSync!Kinds, GraphSync!Repair(h, k) \/ \E u \in GraphSync!Assignees : GraphSync!Write(h, k, u)
      PROVE  GraphSyncSetsOff(h, e) \/ (e \notin behind /\ GraphSyncUntouched(h, e))
  <2>1. CASE GraphSync!Repair(h, k)
    BY <1>1, <2>1 DEF GraphSync!Repair, GraphSync!sources, GraphSync!graph
  <2>2. CASE \E u \in GraphSync!Assignees : GraphSync!Write(h, k, u)
    <3>1. PICK u \in GraphSync!Assignees : GraphSync!Write(h, k, u)
      BY <2>2
    <3>2. \A d \in GraphSync!Kinds \ {k} : version'[d] = version[d]
      BY <1>0, <3>1 DEF GraphSync!Write
    <3>3. /\ behind' = (behind \ GraphSync!Touched(k)) \cup GraphSync!Disturbed(k) /\ node' = node
          /\ GraphSync!Serve(h, [op |-> "read", entity |-> k, root |-> k, assignee |-> GraphSync!None])
      BY <3>1 DEF GraphSync!Write, GraphSync!graph
    <3>4. QED
      BY <1>1, <3>2, <3>3
  <2>3. QED
    BY <1>2, <2>1, <2>2
<1>3. CASE GraphSync!SyncRead(h)
  <2>1. frame[h].op = "read" /\ UNCHANGED <<version, node, behind>>
    BY <1>3 DEF GraphSync!SyncRead, GraphSync!At, GraphSync!sources, GraphSync!graph
  <2>2. /\ frame'[h].op = "upsert" /\ frame'[h].root = frame[h].root /\ frame'[h].entity = frame[h].entity
        /\ frame'[h].version = version[frame[h].entity]
    BY <1>0, <1>3 DEF GraphSync!SyncRead
  <2>3. CASE GraphSyncInSync(frame[h], e)
    BY <1>3, <2>1, <2>2, <2>3 DEF GraphSyncGoesOn, GraphSyncInSync, GraphSync!SyncRead
  <2>4. CASE ~GraphSyncInSync(frame[h], e)
    BY <2>1, <2>2, <2>4 DEF GraphSyncUntouched, GraphSyncInSync
  <2>5. QED
    BY <2>1, <2>3, <2>4
<1>4. CASE GraphSync!UpsertItem(h)
  <2>1. /\ frame[h].op = "upsert" /\ frame[h].entity = "item" /\ frame[h].root = "item"
        /\ UNCHANGED <<version, behind>> /\ node' = [node EXCEPT !["item"] = frame[h].version]
    BY <1>4 DEF GraphSync!UpsertItem, GraphSync!At, GraphSync!sources, GraphSyncSyncInv
  <2>2. frame'[h].op = "read" /\ frame'[h].entity = "deal" /\ frame'[h].root = "item"
    BY <1>0, <1>4 DEF GraphSync!UpsertItem
  <2>3. ASSUME e = "item" PROVE GraphSyncMirrors(h, e)
    BY <1>0, <2>1, <2>2, <2>3 DEF GraphSyncMirrors, GraphSyncInSync, GraphSync!Kinds
  <2>4. ASSUME e = "deal" PROVE GraphSyncGoesOn(h, e)
    BY <1>0, <2>1, <2>2, <2>4 DEF GraphSyncGoesOn, GraphSyncInSync, GraphSync!Kinds
  <2>5. QED
    BY <2>1, <2>3, <2>4 DEF GraphSync!Kinds
<1>5. CASE GraphSync!UpsertDeal(h)
  <2>1. /\ frame[h].op = "upsert" /\ frame[h].entity = "deal"
        /\ UNCHANGED <<version, behind>> /\ node' = [node EXCEPT !["deal"] = frame[h].version]
    BY <1>5 DEF GraphSync!UpsertDeal, GraphSync!At, GraphSync!sources
  <2>2. frame'[h].op \in {"created", "idle"}
    BY <1>0, <1>5 DEF GraphSync!UpsertDeal, GraphSync!Finish
  <2>3. ASSUME e = "deal" PROVE GraphSyncMirrors(h, e)
    BY <1>0, <2>1, <2>2, <2>3 DEF GraphSyncMirrors, GraphSyncInSync, GraphSync!Kinds
  <2>4. ASSUME e = "item" PROVE GraphSyncUntouched(h, e)
    BY <1>0, <2>1, <2>2, <2>4 DEF GraphSyncUntouched, GraphSyncInSync, GraphSync!Kinds
  <2>5. QED
    BY <2>1, <2>3, <2>4 DEF GraphSync!Kinds
<1>6. CASE GraphSync!LinkDeal(h) \/ GraphSync!LinkUser(h)
  <2>1. /\ frame[h].op \in {"created", "assigned"} /\ UNCHANGED <<version, node, behind>>
    BY <1>6 DEF GraphSync!LinkDeal, GraphSync!LinkUser, GraphSync!At, GraphSync!sources
  <2>2. frame'[h].op \in {"assigned", "idle"}
    <3>1. CASE GraphSync!LinkDeal(h)
      <4>1. frame[h] \in GraphSyncLinks
        BY <3>1, GraphSyncFrameParts DEF GraphSync!LinkDeal
      <4>2. [frame[h] EXCEPT !.op = "assigned"].op = "assigned"
        BY <4>1 DEF GraphSyncLinks
      <4>3. QED
        BY <1>0, <3>1, <4>2 DEF GraphSync!LinkDeal, GraphSync!Finish
    <3>2. CASE GraphSync!LinkUser(h)
      BY <1>0, <3>2 DEF GraphSync!LinkUser, GraphSync!Finish
    <3>3. QED
      BY <1>6, <3>1, <3>2
  <2>3. QED
    BY <2>1, <2>2 DEF GraphSyncUntouched, GraphSyncInSync
<1>7. CASE GraphSync!Lost(h)
  <2>1. /\ frame'[h].op = "idle" /\ UNCHANGED <<version, node>>
        /\ behind' = behind \cup (IF frame[h].op \in {"read", "upsert"} THEN GraphSync!Touched(frame[h].root)
                                  ELSE {frame[h].root})
    BY <1>0, <1>7 DEF GraphSync!Lost, GraphSync!Drop, GraphSync!Finish, GraphSync!sources, GraphSync!graph
  <2>2. ~GraphSyncInSync(frame[h], e)
    <3>1. SUFFICES ASSUME GraphSyncInSync(frame[h], e) PROVE e \in GraphSync!Touched(frame[h].root)
      BY <2>1 DEF GraphSyncInSync
    <3>2. frame[h].root \in GraphSync!Kinds /\ frame[h].entity \in GraphSync!Kinds
      BY <3>1, GraphSyncFrameParts DEF GraphSyncInSync, GraphSync!At, GraphSyncReads, GraphSyncUpserts
    <3>3. QED
      BY <3>1, <3>2 DEF GraphSyncInSync, GraphSync!Touched, GraphSyncSyncInv, GraphSync!Kinds
  <2>3. QED
    BY <2>1, <2>2 DEF GraphSyncUntouched, GraphSyncInSync
<1>8. QED
  BY <1>2, <1>3, <1>4, <1>5, <1>6, <1>7 DEF GraphSyncStepOf

LEMMA GraphSyncMirrorStep == ASSUME GraphSync!TypeOK, GraphSyncSyncInv, GraphSyncMirrorInv, [GraphSync!Next]_(GraphSync!vars)
                             PROVE  GraphSyncMirrorInv'
<1> DEFINE Ok(e) == /\ \A g, h \in GraphSync!Syncing(e) : g = h
                    /\ GraphSync!Syncing(e) = {} => node[e] = version[e]
                    /\ \A h \in GraphSync!Syncing(e) : frame[h].op = "upsert" /\ frame[h].entity = e => frame[h].version = version[e]
<1>1. ASSUME NEW h \in Handlers, GraphSyncStepOf(h), NEW e \in GraphSync!Kinds, e \notin behind' PROVE Ok(e)'
  <2>1. \A g \in Handlers \ {h} : frame'[g] = frame[g]
    BY <1>1, GraphSyncFrameStep
  <2>2. \A g \in Handlers : /\ g \in GraphSync!Syncing(e) <=> GraphSyncInSync(frame[g], e)
                            /\ g \in GraphSync!Syncing(e)' <=> GraphSyncInSync(frame'[g], e)
    BY GraphSyncSyncingMembers
  <2>3. GraphSync!Syncing(e) \subseteq Handlers /\ GraphSync!Syncing(e)' \subseteq Handlers
    BY DEF GraphSync!Syncing
  <2>4. \A g \in Handlers \ {h} : g \in GraphSync!Syncing(e)' <=> g \in GraphSync!Syncing(e)
    BY <2>1, <2>2
  <2>5. e \notin behind => Ok(e)
    BY DEF GraphSyncMirrorInv
  <2>6. CASE GraphSyncSetsOff(h, e)
    <3>1. GraphSync!Syncing(e)' = {h}
      BY <2>2, <2>3, <2>4, <2>6 DEF GraphSyncSetsOff
    <3>2. QED
      BY <2>6, <3>1 DEF GraphSyncSetsOff
  <2>7. CASE e \notin behind /\ GraphSyncUntouched(h, e)
    <3>1. h \notin GraphSync!Syncing(e) /\ h \notin GraphSync!Syncing(e)'
      BY <2>2, <2>7 DEF GraphSyncUntouched
    <3>2. GraphSync!Syncing(e)' = GraphSync!Syncing(e)
      BY <2>3, <2>4, <3>1
    <3>3. \A g \in GraphSync!Syncing(e) : frame'[g] = frame[g]
      BY <2>1, <2>3, <3>1
    <3>4. QED
      BY <2>5, <2>7, <3>2, <3>3 DEF GraphSyncUntouched
  <2>8. CASE e \notin behind /\ GraphSyncGoesOn(h, e)
    <3>1. h \in GraphSync!Syncing(e) /\ h \in GraphSync!Syncing(e)'
      BY <2>2, <2>8 DEF GraphSyncGoesOn
    <3>2. GraphSync!Syncing(e) = {h}
      BY <2>5, <2>8, <3>1
    <3>3. GraphSync!Syncing(e)' = {h}
      BY <2>3, <2>4, <3>1, <3>2
    <3>4. QED
      BY <2>8, <3>3 DEF GraphSyncGoesOn
  <2>9. CASE e \notin behind /\ GraphSyncMirrors(h, e)
    <3>1. h \in GraphSync!Syncing(e) /\ h \notin GraphSync!Syncing(e)'
      BY <2>2, <2>9 DEF GraphSyncMirrors
    <3>2. GraphSync!Syncing(e) = {h} /\ frame[h].version = version[e]
      BY <2>5, <2>9, <3>1 DEF GraphSyncMirrors
    <3>3. GraphSync!Syncing(e)' = {}
      BY <2>3, <2>4, <3>1, <3>2
    <3>4. QED
      BY <2>9, <3>2, <3>3 DEF GraphSyncMirrors
  <2>10. QED
    BY <1>1, <2>6, <2>7, <2>8, <2>9, GraphSyncMirrorCases
<1>2. ASSUME NEW k \in GraphSync!Kinds, GraphSync!SilentWrite(k), NEW e \in GraphSync!Kinds, e \notin behind'
      PROVE  Ok(e)'
  <2>1. e # k /\ e \notin behind /\ UNCHANGED <<frame, node>> /\ version'[e] = version[e]
    BY <1>2 DEF GraphSync!SilentWrite, GraphSync!graph, GraphSync!TypeOK
  <2>2. GraphSync!Syncing(e)' = GraphSync!Syncing(e)
    BY <2>1, GraphSyncSyncingMembers
  <2>3. QED
    BY <2>1, <2>2 DEF GraphSyncMirrorInv
<1>3. ASSUME UNCHANGED GraphSync!vars, NEW e \in GraphSync!Kinds, e \notin behind' PROVE Ok(e)'
  <2>1. e \notin behind /\ UNCHANGED <<frame, node, version>>
    BY <1>3 DEF GraphSync!vars, GraphSync!graph, GraphSync!sources
  <2>2. GraphSync!Syncing(e)' = GraphSync!Syncing(e)
    BY <2>1, GraphSyncSyncingMembers
  <2>3. QED
    BY <2>1, <2>2 DEF GraphSyncMirrorInv
<1>4. \A e \in GraphSync!Kinds \ behind' : Ok(e)'
  <2> HIDE DEF Ok
  <2>1. QED
    BY <1>1, <1>2, <1>3 DEF GraphSync!Next, GraphSyncStepOf
<1>5. QED
  BY <1>4 DEF GraphSyncMirrorInv

LEMMA GraphSyncLinkStep == ASSUME GraphSync!TypeOK, GraphSyncSyncInv, GraphSyncLinkInv, [GraphSync!Next]_(GraphSync!vars)
                           PROVE  GraphSyncLinkInv'
<1>1. ASSUME NEW h \in Handlers, GraphSyncStepOf(h), "item" \notin behind', version'["item"] > 0
      PROVE  GraphSyncLinked' \/ \E g \in Handlers : GraphSyncCarries(g)'
  <2>0. /\ \A f : GraphSync!GoOn(h, f) => frame'[h] = f
        /\ GraphSync!Idle.op = "idle"
    BY DEF GraphSync!GoOn, GraphSync!TypeOK, GraphSync!Idle
  <2>1. /\ \A g \in Handlers \ {h} : frame'[g] = frame[g]
        /\ frame[h].op # "idle"
           => frame[h].op \in {"read", "upsert", "created", "assigned"} /\ frame[h].root \in GraphSync!Kinds
    <3>1. frame[h].op # "idle"
           => frame[h].op \in {"read", "upsert", "created", "assigned"} /\ frame[h].root \in GraphSync!Kinds
      BY GraphSyncFrameParts DEF GraphSync!At, GraphSyncReads, GraphSyncUpserts, GraphSyncLinks, GraphSync!Kinds
    <3>2. QED
      BY <1>1, <3>1, GraphSyncFrameStep
  <2>2. CASE \E u \in GraphSync!Assignees : GraphSync!Write(h, "item", u)
    <3>1. frame'[h] = [op |-> "read", entity |-> "item", root |-> "item", assignee |-> GraphSync!None]
      BY <2>0, <2>2 DEF GraphSync!Write, GraphSync!Serve, GraphSync!GoOn
    <3>2. GraphSyncCarries(h)'
      BY <3>1 DEF GraphSyncCarries
    <3>3. QED
      BY <3>2
  <2>3. CASE GraphSync!Repair(h, "item")
    <3>1. frame'[h] = [op |-> "read", entity |-> "item", root |-> "item", assignee |-> GraphSync!None]
      BY <2>0, <2>3 DEF GraphSync!Repair, GraphSync!Serve, GraphSync!GoOn
    <3>2. GraphSyncCarries(h)'
      BY <3>1 DEF GraphSyncCarries
    <3>3. QED
      BY <3>2
  <2>4. ASSUME "item" \notin behind, version["item"] > 0, assignee' = assignee, edges \subseteq edges',
               GraphSyncCarries(h) => GraphSyncCarries(h)' \/ GraphSyncLinked'
        PROVE  GraphSyncLinked' \/ \E g \in Handlers : GraphSyncCarries(g)'
    <3>1. GraphSyncLinked => GraphSyncLinked'
      BY <2>4 DEF GraphSyncLinked
    <3>2. \A g \in Handlers \ {h} : GraphSyncCarries(g) => GraphSyncCarries(g)'
      BY <2>1, <2>4 DEF GraphSyncCarries
    <3>3. GraphSyncLinked \/ \E g \in Handlers : GraphSyncCarries(g)
      BY <2>4 DEF GraphSyncLinkInv
    <3>4. QED
      BY <2>4, <3>1, <3>2, <3>3
  <2>5. CASE GraphSync!Repair(h, "deal") \/ \E u \in GraphSync!Assignees : GraphSync!Write(h, "deal", u)
    <3>1. /\ assignee' = assignee /\ edges' = edges /\ version'["item"] = version["item"]
          /\ behind' = (behind \ {"deal"}) \cup GraphSync!Disturbed("deal") /\ frame[h] = GraphSync!Idle
      <4>1. GraphSync!Touched("deal") = {"deal"} /\ version \in [GraphSync!Kinds -> 0..MaxVersion]
        BY DEF GraphSync!Touched, GraphSync!TypeOK
      <4>2. CASE GraphSync!Repair(h, "deal")
        BY <4>1, <4>2 DEF GraphSync!Repair, GraphSync!Serve, GraphSync!sources, GraphSync!graph
      <4>3. CASE \E u \in GraphSync!Assignees : GraphSync!Write(h, "deal", u)
        BY <4>1, <4>3 DEF GraphSync!Write, GraphSync!Serve, GraphSync!graph
      <4>4. QED
        BY <2>5, <4>2, <4>3
    <3>2. ~GraphSyncCarries(h)
      BY <2>0, <3>1 DEF GraphSyncCarries
    <3>3. QED
      BY <1>1, <2>4, <3>1, <3>2
  <2>6. CASE GraphSync!SyncRead(h)
    <3>1. frame[h].op = "read" /\ frame[h] \in GraphSyncReads /\ UNCHANGED <<version, assignee, edges, behind>>
      BY <2>6, GraphSyncFrameParts DEF GraphSync!SyncRead, GraphSync!At, GraphSync!sources, GraphSync!graph
    <3>2. /\ frame'[h].op = "upsert" /\ frame'[h].root = frame[h].root
          /\ frame'[h].assignee = IF frame[h].entity = "item" THEN assignee ELSE frame[h].assignee
      BY <2>0, <2>6 DEF GraphSync!SyncRead
    <3>3. GraphSyncCarries(h) => GraphSyncCarries(h)'
      BY <3>1, <3>2 DEF GraphSyncCarries, GraphSyncSyncInv
    <3>4. QED
      BY <1>1, <2>4, <3>1, <3>3
  <2>7. CASE GraphSync!UpsertItem(h)
    <3>1. frame[h].op = "upsert" /\ UNCHANGED <<version, assignee, edges, behind>>
      BY <2>7 DEF GraphSync!UpsertItem, GraphSync!At, GraphSync!sources
    <3>2. frame'[h] = [op |-> "read", entity |-> "deal", root |-> "item", assignee |-> frame[h].assignee]
      BY <2>0, <2>7 DEF GraphSync!UpsertItem
    <3>3. GraphSyncCarries(h) => GraphSyncCarries(h)'
      BY <3>1, <3>2 DEF GraphSyncCarries
    <3>4. QED
      BY <1>1, <2>4, <3>1, <3>3
  <2>8. CASE GraphSync!UpsertDeal(h)
    <3>1. frame[h].op = "upsert" /\ UNCHANGED <<version, assignee, edges, behind>>
      BY <2>8 DEF GraphSync!UpsertDeal, GraphSync!At, GraphSync!sources
    <3>2. frame[h].root = "item" => frame'[h].op = "created" /\ frame'[h].assignee = frame[h].assignee
      BY <2>0, <2>8 DEF GraphSync!UpsertDeal
    <3>3. GraphSyncCarries(h) => GraphSyncCarries(h)'
      BY <3>1, <3>2 DEF GraphSyncCarries
    <3>4. QED
      BY <1>1, <2>4, <3>1, <3>3
  <2>9. CASE GraphSync!LinkDeal(h)
    <3>1. /\ frame[h].op = "created" /\ frame[h] \in GraphSyncLinks
          /\ UNCHANGED <<version, assignee, behind>> /\ edges' = edges \cup {GraphSync!Created}
      BY <2>9, GraphSyncFrameParts DEF GraphSync!LinkDeal, GraphSync!At, GraphSync!sources
    <3>2. frame[h].assignee # GraphSync!None => frame'[h].op = "assigned" /\ frame'[h].assignee = frame[h].assignee
      BY <2>0, <2>9, <3>1 DEF GraphSync!LinkDeal, GraphSyncLinks
    <3>3. GraphSyncCarries(h) => GraphSyncCarries(h)' \/ GraphSyncLinked'
      <4>1. CASE frame[h].assignee = GraphSync!None
        BY <3>1, <4>1 DEF GraphSyncCarries, GraphSyncLinked
      <4>2. CASE frame[h].assignee # GraphSync!None
        BY <3>1, <3>2, <4>2 DEF GraphSyncCarries, GraphSync!Created
      <4>3. QED
        BY <4>1, <4>2
    <3>4. QED
      BY <1>1, <2>4, <3>1, <3>3
  <2>10. CASE GraphSync!LinkUser(h)
    <3>1. /\ frame[h].op = "assigned"
          /\ UNCHANGED <<version, assignee, behind>> /\ edges' = edges \cup {GraphSync!Assigned(frame[h].assignee)}
      BY <2>10 DEF GraphSync!LinkUser, GraphSync!At, GraphSync!sources
    <3>2. GraphSyncCarries(h) => GraphSyncLinked'
      BY <3>1 DEF GraphSyncCarries, GraphSyncLinked, GraphSync!Assigned, GraphSync!Created
    <3>3. QED
      BY <1>1, <2>4, <3>1, <3>2
  <2>11. CASE GraphSync!Lost(h)
    <3>1. /\ UNCHANGED <<version, assignee, edges>> /\ frame[h].op # "idle"
          /\ behind' = behind \cup (IF frame[h].op \in {"read", "upsert"} THEN GraphSync!Touched(frame[h].root)
                                    ELSE {frame[h].root})
      BY <2>0, <2>11, GraphSyncFrameParts DEF GraphSync!Lost, GraphSync!Drop, GraphSync!sources,
         GraphSync!graph, GraphSync!At
    <3>2. ~GraphSyncCarries(h)
      <4>1. "item" \notin GraphSync!Touched(frame[h].root) \/ frame[h].op \notin {"read", "upsert"}
        BY <1>1, <3>1
      <4>2. frame[h].root # "item"
        BY <1>1, <3>1 DEF GraphSync!Touched, GraphSync!Kinds
      <4>3. frame[h].op \in {"read", "upsert"}
        BY <2>1, <3>1, <4>2, GraphSyncFrameParts DEF GraphSync!At, GraphSyncLinks
      <4>4. QED
        BY <4>2, <4>3 DEF GraphSyncCarries, GraphSyncSyncInv
    <3>3. QED
      BY <1>1, <2>4, <3>1, <3>2
  <2>12. QED
    BY <1>1, <2>2, <2>3, <2>5, <2>6, <2>7, <2>8, <2>9, <2>10, <2>11 DEF GraphSyncStepOf, GraphSync!Kinds
<1>2. ASSUME NEW e \in GraphSync!Kinds, GraphSync!SilentWrite(e), "item" \notin behind', version'["item"] > 0
      PROVE  GraphSyncLinked' \/ \E g \in Handlers : GraphSyncCarries(g)'
  <2>1. /\ e = "deal" /\ "item" \notin behind /\ version["item"] > 0
        /\ UNCHANGED <<frame, assignee, edges>>
    BY <1>2 DEF GraphSync!SilentWrite, GraphSync!graph, GraphSync!TypeOK, GraphSync!Kinds
  <2>2. QED
    BY <2>1 DEF GraphSyncLinkInv, GraphSyncLinked, GraphSyncCarries
<1>3. CASE UNCHANGED GraphSync!vars
  BY <1>3 DEF GraphSync!vars, GraphSync!graph, GraphSync!sources, GraphSyncLinkInv, GraphSyncLinked,
     GraphSyncCarries
<1>4. QED
  BY <1>1, <1>2, <1>3 DEF GraphSync!Next, GraphSyncStepOf, GraphSyncLinkInv

(* Once the syncs of an entity are over, its node shows its last write and *)
(* an item is linked to its deal and its assignee, where each write set    *)
(* off a sync and none overlapped or failed (graph-sync.service.ts).       *)
THEOREM GraphSyncMirrored == GraphSync!Spec => []GraphSync!GraphMirrors
<1>1. ASSUME GraphSync!Init PROVE GraphSyncMirrorInv /\ GraphSyncLinkInv
  <2>1. frame = [h \in Handlers |-> GraphSync!Idle] /\ version = [e \in GraphSync!Kinds |-> 0] /\ node = [e \in GraphSync!Kinds |-> 0]
    BY <1>1 DEF GraphSync!Init, GraphSync!ServerInit
  <2>2. \A e : GraphSync!Syncing(e) = {}
    BY <2>1 DEF GraphSync!Syncing
  <2>3. QED
    BY <2>1, <2>2 DEF GraphSyncMirrorInv, GraphSyncLinkInv, GraphSync!Kinds
<1>2. ASSUME GraphSyncMirrorInv, GraphSyncLinkInv PROVE GraphSync!GraphMirrors
  <2>1. GraphSync!Idle.op = "idle"
    BY DEF GraphSync!Idle
  <2>2. (\A h \in Handlers : frame[h] = GraphSync!Idle) => \A h \in Handlers : ~GraphSyncCarries(h)
    BY <2>1 DEF GraphSyncCarries
  <2>3. QED
    BY <1>2, <2>2 DEF GraphSyncMirrorInv, GraphSyncLinkInv, GraphSyncLinked, GraphSync!GraphMirrors
<1>3. QED
  BY <1>1, <1>2, GraphSyncTypeStart, GraphSyncTypeStep, GraphSyncSyncStep, GraphSyncMirrorStep,
     GraphSyncLinkStep, PTL DEF GraphSync!Spec

-----------------------------------------------------------------------------
(* The risks of the graph.                                                 *)

\* A step of the run h.
RiskGraphStepOf(h) == RiskGraph!RunRead(h) \/ RiskGraph!RunWrite(h) \/ RiskGraph!RunStore(h) \/ RiskGraph!Lost(h)

\* A run that no other overlaps compares with the scores as they are; once it has written, they
\* are the ones it computed.
RiskGraphRunInv ==
  /\ DOMAIN frame = Handlers
  /\ \A h \in Handlers : frame[h] = RiskGraph!Idle \/ frame[h].op \in {"write", "snapshot"}
  /\ ~disturbed =>
       /\ \A g, h \in Handlers : frame[g] # RiskGraph!Idle /\ frame[h] # RiskGraph!Idle => g = h
       /\ \A h \in RiskGraph!Serving("write") : frame[h].was = score
       /\ \A h \in RiskGraph!Serving("snapshot") : \A n \in Nodes : frame[h].risk[n] = score[n]
       /\ (\A h \in Handlers : frame[h] = RiskGraph!Idle) /\ snapshot # RiskGraph!None => snapshot = RiskGraph!MaxOf(score)

\* The highest score is that of the scores alone.
LEMMA RiskGraphMaxAgrees ==
  ASSUME NEW r, NEW s, \A n \in Nodes : r[n] = s[n]
  PROVE  RiskGraph!MaxOf(r) = RiskGraph!MaxOf(s)
<1>1. {r[n] : n \in Nodes} = {s[n] : n \in Nodes}
  OBVIOUS
<1>2. \A x : (\A n \in Nodes : r[n] <= x) <=> (\A n \in Nodes : s[n] <= x)
  OBVIOUS
<1>3. QED
  BY <1>1, <1>2 DEF RiskGraph!MaxOf

LEMMA RiskGraphRunStep == ASSUME RiskGraphRunInv, [RiskGraph!Next]_(RiskGraph!vars) PROVE RiskGraphRunInv'
<1>0. DOMAIN frame = Handlers /\ \A h \in Handlers : frame[h] = RiskGraph!Idle \/ frame[h].op \in {"write", "snapshot"}
  BY DEF RiskGraphRunInv
<1>1. ASSUME NEW h \in Handlers, NEW f, frame' = [frame EXCEPT ![h] = f],
             f = RiskGraph!Idle \/ f.op \in {"write", "snapshot"},
             ~disturbed' =>
               /\ \A g \in Handlers \ {h} : frame[g] = RiskGraph!Idle
               /\ f.op = "write" => f.was = score'
               /\ f.op = "snapshot" => \A n \in Nodes : f.risk[n] = score'[n]
               /\ f = RiskGraph!Idle /\ snapshot' # RiskGraph!None => snapshot' = RiskGraph!MaxOf(score')
      PROVE  RiskGraphRunInv'
  <2>1. DOMAIN frame' = Handlers /\ frame'[h] = f /\ \A g \in Handlers \ {h} : frame'[g] = frame[g]
    BY <1>0, <1>1
  <2>2. \A g \in Handlers : frame'[g] = RiskGraph!Idle \/ frame'[g].op \in {"write", "snapshot"}
    BY <1>0, <1>1, <2>1
  <2>3. ASSUME ~disturbed'
        PROVE  /\ \A g, k \in Handlers : frame'[g] # RiskGraph!Idle /\ frame'[k] # RiskGraph!Idle => g = k
               /\ \A g \in RiskGraph!Serving("write")' : frame'[g].was = score'
               /\ \A g \in RiskGraph!Serving("snapshot")' : \A n \in Nodes : frame'[g].risk[n] = score'[n]
               /\ (\A g \in Handlers : frame'[g] = RiskGraph!Idle) /\ snapshot' # RiskGraph!None => snapshot' = RiskGraph!MaxOf(score')
    <3>1. \A g \in Handlers : frame'[g] # RiskGraph!Idle => g = h
      BY <1>1, <2>1, <2>3
    <3>2. RiskGraph!Serving("write")' \subseteq {h} /\ RiskGraph!Serving("snapshot")' \subseteq {h}
      BY <3>1 DEF RiskGraph!Serving, RiskGraph!At, RiskGraph!Idle
    <3>3. /\ h \in RiskGraph!Serving("write")' => f.op = "write"
          /\ h \in RiskGraph!Serving("snapshot")' => f.op = "snapshot"
      BY <2>1 DEF RiskGraph!Serving, RiskGraph!At
    <3>4. QED
      BY <1>1, <2>1, <2>3, <3>1, <3>2, <3>3
  <2>4. RiskGraph!MaxOf(score)' = RiskGraph!MaxOf(score')
    BY DEF RiskGraph!MaxOf
  <2>5. QED
    BY <2>1, <2>2, <2>3, <2>4 DEF RiskGraphRunInv
<1>2. ASSUME NEW h \in Handlers, frame[h] # RiskGraph!Idle, ~disturbed
      PROVE  /\ \A g \in Handlers \ {h} : frame[g] = RiskGraph!Idle
             /\ RiskGraph!At(h, "write") => frame[h].was = score
             /\ RiskGraph!At(h, "snapshot") => \A n \in Nodes : frame[h].risk[n] = score[n]
  BY <1>2 DEF RiskGraphRunInv, RiskGraph!Serving
<1>3. ASSUME NEW h \in Handlers, RiskGraph!RunRead(h) PROVE RiskGraphRunInv'
  <2> DEFINE f == [op |-> "write", risk |-> RiskGraph!Computed, was |-> score]
  <2>1. frame' = [frame EXCEPT ![h] = f] /\ disturbed' = (\E g \in Handlers : frame[g] # RiskGraph!Idle) /\ score' = score
    BY <1>3 DEF RiskGraph!RunRead, RiskGraph!Serve
  <2>2. f.op = "write" /\ f.was = score /\ f # RiskGraph!Idle
    BY DEF RiskGraph!Idle
  <2> HIDE DEF f
  <2>3. QED
    BY <1>1, <2>1, <2>2
<1>4. ASSUME NEW h \in Handlers, RiskGraph!RunWrite(h) PROVE RiskGraphRunInv'
  <2> DEFINE r == frame[h].risk
             f == [op |-> "snapshot", risk |-> r]
  <2>1. /\ frame' = [frame EXCEPT ![h] = f] /\ RiskGraph!At(h, "write") /\ UNCHANGED disturbed
        /\ score' = [n \in Nodes |-> IF r[n] # frame[h].was[n] THEN r[n] ELSE score[n]]
    BY <1>4 DEF RiskGraph!RunWrite, RiskGraph!GoOn
  <2>2. f.op = "snapshot" /\ f.risk = r /\ f # RiskGraph!Idle /\ frame[h] # RiskGraph!Idle
    BY <2>1 DEF RiskGraph!Idle, RiskGraph!At
  <2> HIDE DEF f, r
  <2>3. ~disturbed => \A n \in Nodes : r[n] = score'[n]
    BY <1>2, <2>1, <2>2
  <2>4. QED
    BY <1>1, <1>2, <2>1, <2>2, <2>3
<1>5. ASSUME NEW h \in Handlers, RiskGraph!RunStore(h) PROVE RiskGraphRunInv'
  <2>1. /\ frame' = [frame EXCEPT ![h] = RiskGraph!Idle] /\ RiskGraph!At(h, "snapshot") /\ UNCHANGED <<score, disturbed>>
        /\ snapshot' = RiskGraph!MaxOf(frame[h].risk)
    BY <1>5 DEF RiskGraph!RunStore, RiskGraph!Finish, RiskGraph!GoOn
  <2>2. frame[h] # RiskGraph!Idle /\ RiskGraph!Idle.op = "idle"
    BY <2>1 DEF RiskGraph!Idle, RiskGraph!At
  <2>3. ~disturbed => snapshot' = RiskGraph!MaxOf(score')
    BY <1>2, <2>1, <2>2, RiskGraphMaxAgrees
  <2>4. QED
    BY <1>1, <1>2, <2>1, <2>2, <2>3
<1>6. ASSUME NEW h \in Handlers, RiskGraph!Lost(h) PROVE RiskGraphRunInv'
  <2>1. frame' = [frame EXCEPT ![h] = RiskGraph!Idle] /\ disturbed' = TRUE
    BY <1>6 DEF RiskGraph!Lost, RiskGraph!Drop, RiskGraph!Finish, RiskGraph!GoOn
  <2>2. QED
    BY <1>1, <2>1
<1>7. CASE (\E n \in Nodes, f \in Facts : RiskGraph!NodeChanges(n, f)) \/ (\E p \in RiskGraph!Pairs : RiskGraph!EdgeAdded(p)) \/ UNCHANGED RiskGraph!vars
  <2>1. UNCHANGED <<frame, score, snapshot, disturbed>>
    BY <1>7 DEF RiskGraph!NodeChanges, RiskGraph!EdgeAdded, RiskGraph!vars
  <2>2. RiskGraph!MaxOf(score)' = RiskGraph!MaxOf(score)
    BY <2>1 DEF RiskGraph!MaxOf
  <2>3. QED
    BY <2>1, <2>2 DEF RiskGraphRunInv, RiskGraph!Serving, RiskGraph!At
<1>8. QED
  BY <1>3, <1>4, <1>5, <1>6, <1>7 DEF RiskGraph!Next

(* The snapshot of the day agrees with the stored scores when no runs      *)
(* overlapped and none was lost, for any graph, factors and number of      *)
(* rounds, though a run writes only the scores it saw change               *)
(* (computeOrgRisk).                                                       *)
THEOREM RiskGraphSnapshots == RiskGraph!Spec => []RiskGraph!SnapshotAgrees
<1>1. ASSUME RiskGraph!Init PROVE RiskGraphRunInv
  <2>1. \A h \in Handlers : frame[h] = RiskGraph!Idle /\ frame[h].op = "idle"
    BY <1>1 DEF RiskGraph!Init, RiskGraph!ServerInit, RiskGraph!Idle
  <2>2. DOMAIN frame = Handlers /\ snapshot = RiskGraph!None
    BY <1>1 DEF RiskGraph!Init, RiskGraph!ServerInit
  <2>3. QED
    BY <2>1, <2>2 DEF RiskGraphRunInv, RiskGraph!Serving, RiskGraph!At
<1>2. RiskGraphRunInv => RiskGraph!SnapshotAgrees
  BY DEF RiskGraphRunInv, RiskGraph!SnapshotAgrees
<1>3. QED
  BY <1>1, <1>2, RiskGraphRunStep, PTL DEF RiskGraph!Spec

\* Sums.

\* What SumOver adds up for every part of S.
RiskGraphAdding(it, f, S) ==
  it = [s \in SUBSET S |-> IF s = {} THEN 0 ELSE LET x == CHOOSE y \in s : TRUE IN f[x] + it[s \ {x}]]

LEMMA RiskGraphAddingExists ==
  ASSUME NEW f, NEW S, IsFiniteSet(S), \A x \in S : f[x] \in Nat
  PROVE  \E it : RiskGraphAdding(it, f, S)
<1> DEFINE D == SUBSET S
           x(s) == CHOOSE y \in s : TRUE
           Body(it, s) == IF s = {} THEN 0 ELSE f[x(s)] + it[s \ {x(s)}]
           B == [it \in [D -> Nat] |-> [s \in D |-> Body(it, s)]]
           e == [s \in D |-> 0]
           m == [s \in D |-> Cardinality(s)]
           n == Cardinality(S)
<1>1. ASSUME NEW s \in D
      PROVE  /\ Cardinality(s) \in 0..n
             /\ s # {} => x(s) \in s /\ s \ {x(s)} \in D /\ Cardinality(s \ {x(s)}) < Cardinality(s)
  <2>1. IsFiniteSet(s) /\ Cardinality(s) \in Nat /\ Cardinality(s) <= n /\ n \in Nat
    BY FS_Subset, FS_CardinalityType
  <2>2. ASSUME s # {} PROVE x(s) \in s
    BY <2>2
  <2> HIDE DEF x
  <2>3. s # {} => Cardinality(s \ {x(s)}) = Cardinality(s) - 1
    BY <2>1, <2>2, FS_RemoveElement
  <2>4. QED
    BY <2>1, <2>2, <2>3
<1>2. ASSUME NEW it \in [D -> Nat], NEW s \in D PROVE Body(it, s) \in Nat
  <2> HIDE DEF x
  <2>1. s # {} => f[x(s)] \in Nat /\ it[s \ {x(s)}] \in Nat
    BY <1>1
  <2>2. QED
    BY <2>1
<1>3. ASSUME NEW it \in [D -> Nat], NEW g \in [D -> Nat], NEW s \in D, \A q \in D : m[q] < m[s] => it[q] = g[q]
      PROVE  Body(it, s) = Body(g, s)
  <2> HIDE DEF x
  <2>1. s # {} => it[s \ {x(s)}] = g[s \ {x(s)}]
    BY <1>1, <1>3
  <2>2. QED
    BY <2>1
<1>4. m \in [D -> 0..n]
  BY <1>1
<1>5. e \in [D -> Nat] /\ n \in Nat
  BY FS_CardinalityType
<1> HIDE DEF Body, m, e, n
<1>6. B \in [[D -> Nat] -> [D -> Nat]]
  BY <1>2
<1>7. \A g, k \in [D -> Nat] : \A p \in D :
        (\A q \in D : m[q] < m[p] => g[q] = k[q]) => B[g][p] = B[k][p]
  BY <1>3
<1>8. PICK it \in [D -> Nat] : it = B[it]
  <2> HIDE DEF B, D
  <2>1. Measured(D, Nat, e, B, n, m)
    BY <1>4, <1>5, <1>6, <1>7 DEF Measured
  <2>2. QED
    BY <2>1, Recursive
<1>9. it = [s \in D |-> Body(it, s)]
  BY <1>8
<1>10. QED
  BY <1>9 DEF Body, RiskGraphAdding

\* A sum of natural numbers is one, and is nothing only if they are.
LEMMA RiskGraphSum ==
  ASSUME NEW f, NEW S, IsFiniteSet(S), \A x \in S : f[x] \in Nat
  PROVE  /\ RiskGraph!SumOver(f, S) \in Nat
         /\ RiskGraph!SumOver(f, S) # 0 => \E x \in S : f[x] # 0
<1> DEFINE it == CHOOSE g : RiskGraphAdding(g, f, S)
<1>1. RiskGraphAdding(it, f, S)
  BY RiskGraphAddingExists
<1>2. RiskGraph!SumOver(f, S) = it[S]
  BY DEF RiskGraph!SumOver, RiskGraph!FoldFunctionOnSet, RiskGraph!MapThenFoldSet, RiskGraphAdding
<1> HIDE DEF it
<1> DEFINE Fine(s) == it[s] \in Nat /\ (it[s] # 0 => \E x \in s : f[x] # 0)
           Bad == {k \in Nat : \E s \in SUBSET S : Cardinality(s) = k /\ ~Fine(s)}
<1>3. \A s \in SUBSET S : IsFiniteSet(s) /\ Cardinality(s) \in Nat
  BY FS_Subset, FS_CardinalityType
<1>4. ASSUME Bad # {} PROVE FALSE
  <2>1. PICK k \in Bad : \A i \in Bad : k <= i
    BY <1>4, Least
  <2>2. PICK s \in SUBSET S : Cardinality(s) = k /\ ~Fine(s)
    BY <2>1
  <2>3. ASSUME NEW q \in SUBSET S, Cardinality(q) < k PROVE Fine(q)
    BY <1>3, <2>1, <2>3
  <2>4. CASE s = {}
    <3>1. it[s] = 0
      BY <1>1, <2>4 DEF RiskGraphAdding
    <3>2. QED
      BY <2>2, <3>1
  <2>5. CASE s # {}
    <3> DEFINE x == CHOOSE y \in s : TRUE
               q == s \ {x}
    <3>1. x \in s
      BY <2>5
    <3>2. it[s] = f[x] + it[q]
      BY <1>1, <2>5 DEF RiskGraphAdding
    <3> HIDE DEF x
    <3>3. Cardinality(q) = k - 1 /\ k \in Nat
      BY <1>3, <2>2, <3>1, FS_RemoveElement
    <3>4. Fine(q)
      BY <2>3, <3>3
    <3>5. f[x] \in Nat /\ it[q] \in Nat
      BY <3>1, <3>4
    <3>6. it[s] \in Nat /\ (it[s] # 0 => f[x] # 0 \/ it[q] # 0)
      BY <3>2, <3>5
    <3>7. QED
      BY <2>2, <3>1, <3>4, <3>6
  <2>6. QED
    BY <2>4, <2>5
<1>5. Fine(S)
  BY <1>3, <1>4
<1>6. QED
  BY <1>2, <1>5

\* Spreading.

LEMMA RiskGraphClamped ==
  ASSUME NEW r \in RiskGraph!Points, NEW x \in Nat
  PROVE  /\ RiskGraph!Clamp(100 * r + x) \in r..100
         /\ r = 0 /\ x = 0 => RiskGraph!Clamp(100 * r + x) = 0
BY DEF RiskGraph!Clamp, RiskGraph!Points

\* A round keeps scores what they are, lowers none, and raises none from nothing without an edge from a score.
LEMMA RiskGraphRoundSpreads ==
  ASSUME NEW risk \in RiskGraph!Scores, NEW n \in Nodes
  PROVE  /\ RiskGraph!Round(risk)[n] \in risk[n]..100 /\ risk[n] \in RiskGraph!Points
         /\ RiskGraph!Round(risk)[n] > 0 => risk[n] > 0 \/ \E m \in Nodes : <<m, n>> \in links /\ risk[m] > 0
<1> DEFINE into == {m \in Nodes : <<m, n>> \in links}
           f == [m \in Nodes |-> RiskGraph!Passed(risk[m])]
           x == RiskGraph!SumOver(f, into)
<1>1. \A m \in Nodes : risk[m] \in RiskGraph!Points /\ risk[m] \in Nat
  BY DEF RiskGraph!Scores, RiskGraph!Points
<1>2. ASSUME NEW m \in Nodes PROVE f[m] \in Nat /\ (f[m] # 0 => risk[m] > 0)
  <2> DEFINE r == risk[m]
  <2>1. r \in Nat /\ Share \in Nat
    BY <1>1, RiskConstants
  <2>2. f[m] = IF r * Share <= 50 THEN 0 ELSE r * Share
    BY DEF RiskGraph!Passed
  <2> HIDE DEF r, f
  <2>3. r * Share \in Nat /\ (r = 0 => r * Share = 0)
    BY <2>1
  <2>4. f[m] \in Nat /\ (f[m] # 0 => r > 0)
    BY <2>1, <2>2, <2>3
  <2>5. QED
    BY <2>4 DEF r
<1>3. IsFiniteSet(into)
  BY RiskConstants, FS_Subset
<1>4. RiskGraph!Round(risk)[n] = RiskGraph!Clamp(100 * risk[n] + x)
  BY DEF RiskGraph!Round
<1> HIDE DEF f
<1>5. x \in Nat /\ (x # 0 => \E m \in into : f[m] # 0)
  <2> HIDE DEF into
  <2>1. into \subseteq Nodes
    BY DEF into
  <2>2. QED
    BY <1>2, <1>3, <2>1, RiskGraphSum
<1>6. x # 0 => \E m \in Nodes : <<m, n>> \in links /\ risk[m] > 0
  BY <1>2, <1>5
<1> HIDE DEF x
<1>7. /\ RiskGraph!Clamp(100 * risk[n] + x) \in risk[n]..100
      /\ risk[n] = 0 /\ x = 0 => RiskGraph!Clamp(100 * risk[n] + x) = 0
  BY <1>1, <1>5, RiskGraphClamped
<1> DEFINE y == RiskGraph!Clamp(100 * risk[n] + x)
<1>8. RiskGraph!Round(risk)[n] = y /\ y \in risk[n]..100 /\ (risk[n] = 0 /\ x = 0 => y = 0)
  BY <1>4, <1>7
<1> HIDE DEF y
<1>9. risk[n] \in RiskGraph!Points /\ risk[n] \in Nat
  BY <1>1
<1>10. y > 0 => risk[n] > 0 \/ x # 0
  BY <1>8, <1>9
<1>11. QED
  BY <1>6, <1>8, <1>9, <1>10

LEMMA RiskGraphRoundTyped == ASSUME NEW risk \in RiskGraph!Scores
                             PROVE  RiskGraph!Round(risk) \in RiskGraph!Scores
<1>1. \A n \in Nodes : RiskGraph!Round(risk)[n] \in RiskGraph!Points
  BY RiskGraphRoundSpreads DEF RiskGraph!Points
<1>2. RiskGraph!Round(risk) = [n \in Nodes |-> RiskGraph!Round(risk)[n]]
  BY DEF RiskGraph!Round
<1>3. QED
  BY <1>1, <1>2 DEF RiskGraph!Scores

\* The rounds of Computed.
RiskGraphSpreading(a) == a = [k \in 0..Rounds |-> IF k = 0 THEN base ELSE RiskGraph!Round(a[k - 1])]

LEMMA RiskGraphSpreadingExists ==
  ASSUME base \in RiskGraph!Scores
  PROVE  \E a \in [0..Rounds -> RiskGraph!Scores] : RiskGraphSpreading(a)
<1> DEFINE G == [s \in RiskGraph!Scores |-> RiskGraph!Round(s)]
<1>1. Repeatable(0, Rounds, RiskGraph!Scores, base, G)
  BY RiskGraphRoundTyped, RiskConstants DEF Repeatable
<1>2. PICK a \in [0..Rounds -> RiskGraph!Scores] : a = [k \in 0..Rounds |-> IF k = 0 THEN base ELSE G[a[k - 1]]]
  <2> HIDE DEF G
  <2>1. QED
    BY <1>1, Iterated
<1>3. \A k \in 0..Rounds : k # 0 => G[a[k - 1]] = RiskGraph!Round(a[k - 1])
  BY RiskConstants
<1>4. QED
  <2> HIDE DEF G
  <2>1. a = [k \in 0..Rounds |-> IF k = 0 THEN base ELSE RiskGraph!Round(a[k - 1])]
    BY <1>2, <1>3
  <2>2. QED
    BY <2>1 DEF RiskGraphSpreading

\* Radius.

\* The levels of ImpactRadius.
RiskGraphLevels(l, start, direction, depth) ==
  l = [k \in 0..depth |->
        IF k = 0 THEN [visited |-> {start}, frontier |-> {start}]
        ELSE LET last == l[k - 1]
                 next == (UNION {RiskGraph!Neighbours(n, direction) : n \in last.frontier}) \ last.visited
             IN [visited |-> last.visited \cup next, frontier |-> next]]

\* How many levels are asked for.
RiskGraphIsDepth(depth) == depth \in Nat

LEMMA RiskGraphLevelsExist ==
  ASSUME NEW start \in Nodes, NEW direction, NEW depth, RiskGraphIsDepth(depth)
  PROVE  \E l : RiskGraphLevels(l, start, direction, depth)
<1> DEFINE V == [visited : SUBSET Nodes, frontier : SUBSET Nodes]
           next(r) == (UNION {RiskGraph!Neighbours(n, direction) : n \in r.frontier}) \ r.visited
           G == [r \in V |-> [visited |-> r.visited \cup next(r), frontier |-> next(r)]]
           x == [visited |-> {start}, frontier |-> {start}]
<1>1. \A r \in V : next(r) \in SUBSET Nodes
  BY DEF RiskGraph!Neighbours
<1>2. x \in V /\ G \in [V -> V]
  <2> HIDE DEF next
  <2>1. QED
    BY <1>1
<1>3. PICK l \in [0..depth -> V] : l = [k \in 0..depth |-> IF k = 0 THEN x ELSE G[l[k - 1]]]
  <2> HIDE DEF V, G, x
  <2>1. Repeatable(0, depth, V, x, G)
    BY <1>2 DEF Repeatable, RiskGraphIsDepth
  <2>2. QED
    BY <2>1, Iterated
<1>4. ASSUME NEW k \in 0..depth, k # 0
      PROVE  G[l[k - 1]] = [visited |-> l[k - 1].visited \cup next(l[k - 1]), frontier |-> next(l[k - 1])]
  <2>1. l[k - 1] \in V
    BY <1>4 DEF RiskGraphIsDepth
  <2> HIDE DEF V, next
  <2>2. QED
    BY <2>1
<1>5. l = [k \in 0..depth |->
            IF k = 0 THEN x
            ELSE [visited |-> l[k - 1].visited \cup next(l[k - 1]), frontier |-> next(l[k - 1])]]
  <2> HIDE DEF V, G, x, next
  <2>1. QED
    BY <1>3, <1>4
<1>6. QED
  BY <1>5 DEF RiskGraphLevels

\* What the level k of l lacks of its frontier's neighbours.
RiskGraphLacking(l, k, direction) == (UNION {RiskGraph!Neighbours(n, direction) : n \in l[k].frontier}) \ l[k].visited

\* A level has what the one before has, and its neighbours.
RiskGraphGrowing(l, k, direction) ==
  /\ l[k + 1].visited = l[k].visited \cup RiskGraphLacking(l, k, direction)
  /\ l[k + 1].frontier = RiskGraphLacking(l, k, direction)

\* The first level is where it starts.
RiskGraphStarting(l, start) == l[0].visited = {start} /\ l[0].frontier = {start}

LEMMA RiskGraphLevelGrows ==
  ASSUME NEW start, NEW direction, NEW depth, RiskGraphIsDepth(depth), NEW l, RiskGraphLevels(l, start, direction, depth)
  PROVE  /\ RiskGraphStarting(l, start)
         /\ \A k \in 0..depth : k # depth => RiskGraphGrowing(l, k, direction)
<1>1. l[0] = [visited |-> {start}, frontier |-> {start}]
  BY DEF RiskGraphLevels, RiskGraphIsDepth
<1>2. ASSUME NEW k \in 0..depth, k # depth PROVE RiskGraphGrowing(l, k, direction)
  <2> DEFINE j == k + 1
             x == (UNION {RiskGraph!Neighbours(n, direction) : n \in l[k].frontier}) \ l[k].visited
  <2>1. j \in 0..depth /\ j # 0 /\ j - 1 = k
    BY <1>2 DEF RiskGraphIsDepth
  <2> HIDE DEF j
  <2>2. l[j] = [visited |-> l[k].visited \cup x, frontier |-> x]
    BY <2>1 DEF RiskGraphLevels
  <2>3. x = RiskGraphLacking(l, k, direction)
    BY DEF RiskGraphLacking
  <2> HIDE DEF x
  <2>4. l[j].visited = l[k].visited \cup x /\ l[j].frontier = x
    BY <2>2
  <2>5. QED
    BY <2>3, <2>4 DEF j, RiskGraphGrowing
<1>3. RiskGraphStarting(l, start)
  BY <1>1 DEF RiskGraphStarting
<1>4. QED
  BY <1>2, <1>3

LEMMA RiskGraphLevelClosed ==
  ASSUME NEW start, NEW direction, NEW depth, RiskGraphIsDepth(depth), NEW l, RiskGraphLevels(l, start, direction, depth)
  PROVE  \A k \in 0..depth : k # depth =>
           /\ l[k].visited \subseteq l[k + 1].visited
           /\ \A n \in l[k].visited : RiskGraph!Neighbours(n, direction) \subseteq l[k + 1].visited
<1> DEFINE Closed(k) ==
             \A n \in l[k].visited : n \notin l[k].frontier => RiskGraph!Neighbours(n, direction) \subseteq l[k].visited
           T == {k \in 0..depth : Closed(k)}
<1>1. 0 \in T
  <2>1. 0 \in 0..depth
    BY DEF RiskGraphIsDepth
  <2>2. RiskGraphStarting(l, start)
    BY RiskGraphLevelGrows
  <2>3. QED
    BY <2>1, <2>2 DEF RiskGraphStarting
<1>2. ASSUME NEW k \in 0..depth, k # depth, Closed(k)
      PROVE  /\ Closed(k + 1)
             /\ l[k].visited \subseteq l[k + 1].visited
             /\ \A n \in l[k].visited : RiskGraph!Neighbours(n, direction) \subseteq l[k + 1].visited
  <2> DEFINE x == RiskGraphLacking(l, k, direction)
  <2>0. RiskGraphGrowing(l, k, direction)
    BY <1>2, RiskGraphLevelGrows
  <2>1. l[k + 1].visited = l[k].visited \cup x /\ l[k + 1].frontier = x
    BY <2>0 DEF RiskGraphGrowing
  <2>2. \A n \in l[k].visited : RiskGraph!Neighbours(n, direction) \subseteq l[k].visited \cup x
    BY <1>2 DEF RiskGraphLacking
  <2> HIDE DEF x
  <2>3. QED
    BY <2>1, <2>2
<1>3. \A k \in 0..depth : k \in T /\ k < depth => k + 1 \in T
  BY <1>2 DEF RiskGraphIsDepth
<1> HIDE DEF Closed
<1>4. \A k \in 0..depth : k \in T
  <2> HIDE DEF T
  <2>1. 0 \in Nat /\ depth \in Nat
    BY DEF RiskGraphIsDepth
  <2>2. QED
    BY <1>1, <1>3, <2>1, Climbs
<1>5. QED
  BY <1>2, <1>4

LEMMA RiskGraphRadiusIsLevel ==
  ASSUME NEW start \in Nodes, NEW direction, NEW depth, RiskGraphIsDepth(depth)
  PROVE  \E l : RiskGraphLevels(l, start, direction, depth) /\ RiskGraph!ImpactRadius(start, direction, depth) = l[depth].visited
<1> DEFINE l == CHOOSE g : RiskGraphLevels(g, start, direction, depth)
<1>1. RiskGraphLevels(l, start, direction, depth)
  BY RiskGraphLevelsExist
<1>2. RiskGraph!ImpactRadius(start, direction, depth) = l[depth].visited
  BY DEF RiskGraph!ImpactRadius, RiskGraphLevels
<1>3. QED
  BY <1>1, <1>2

(* A radius reaches exactly the nodes joined by a path of at most its      *)
(* depth (computeImpactRadius, traverse).                                  *)
THEOREM RiskGraphRadius == RiskGraph!Spec => []RiskGraph!RadiusIsPaths
<1>1. RiskGraph!RadiusIsPaths
  <2> SUFFICES ASSUME NEW start \in Nodes, NEW end \in Nodes, NEW direction \in {"OUT", "IN", "BOTH"}
               PROVE  (end \in RiskGraph!ImpactRadius(start, direction, 2)) <=>
                        \/ end = start
                        \/ end \in RiskGraph!Neighbours(start, direction)
                        \/ \E via \in Nodes : via \in RiskGraph!Neighbours(start, direction) /\ end \in RiskGraph!Neighbours(via, direction)
    BY DEF RiskGraph!RadiusIsPaths
  <2>1. PICK l : RiskGraphLevels(l, start, direction, 2) /\ RiskGraph!ImpactRadius(start, direction, 2) = l[2].visited
    BY RiskGraphRadiusIsLevel DEF RiskGraphIsDepth
  <2> DEFINE near == RiskGraph!Neighbours(start, direction)
             far == UNION {RiskGraph!Neighbours(n, direction) : n \in near \ {start}}
  <2>2. l[0].visited = {start} /\ l[0].frontier = {start}
    <3>1. RiskGraphIsDepth(2)
      BY DEF RiskGraphIsDepth
    <3>2. RiskGraphStarting(l, start)
      BY <2>1, <3>1, RiskGraphLevelGrows
    <3>3. QED
      BY <3>2 DEF RiskGraphStarting
  <2>3. l[1].visited = {start} \cup near /\ l[1].frontier = near \ {start}
    <3>1. RiskGraphGrowing(l, 0, direction)
      <4>1. RiskGraphIsDepth(2) /\ 0 \in 0..2 /\ 0 # 2
        BY DEF RiskGraphIsDepth
      <4>2. QED
        BY <2>1, <4>1, RiskGraphLevelGrows
    <3>2. RiskGraphLacking(l, 0, direction) = near \ {start}
      BY <2>2 DEF RiskGraphLacking
    <3> HIDE DEF near
    <3>3. l[0 + 1] = l[1]
      OBVIOUS
    <3>4. QED
      BY <2>2, <3>1, <3>2, <3>3 DEF RiskGraphGrowing
  <2>4. l[2].visited = {start} \cup near \cup (far \ ({start} \cup near))
    <3>1. RiskGraphGrowing(l, 1, direction)
      <4>1. RiskGraphIsDepth(2) /\ 1 \in 0..2 /\ 1 # 2
        BY DEF RiskGraphIsDepth
      <4>2. QED
        BY <2>1, <4>1, RiskGraphLevelGrows
    <3>2. RiskGraphLacking(l, 1, direction) = far \ ({start} \cup near)
      <4> HIDE DEF near
      <4>1. QED
        BY <2>3 DEF RiskGraphLacking
    <3> HIDE DEF near, far
    <3>3. l[1 + 1] = l[2]
      OBVIOUS
    <3>4. QED
      BY <2>3, <3>1, <3>2, <3>3 DEF RiskGraphGrowing
  <2>5. near \subseteq Nodes
    BY DEF RiskGraph!Neighbours
  <2>6. end \in far <=> \E via \in near : via # start /\ end \in RiskGraph!Neighbours(via, direction)
    OBVIOUS
  <2> HIDE DEF far
  <2>7. QED
    BY <2>1, <2>4, <2>5, <2>6
<1>2. QED
  BY <1>1, PTL

\* Types and scores.

\* What Computed computes: scores no lower than the base risks, and none without a source.
LEMMA RiskGraphComputedIs ==
  ASSUME base \in RiskGraph!Scores
  PROVE  /\ RiskGraph!Computed \in RiskGraph!Scores
         /\ \A n \in Nodes : /\ RiskGraph!Computed[n] \in base[n]..100
                             /\ RiskGraph!Computed[n] > 0 => \E m \in Nodes : base[m] > 0 /\ n \in RiskGraph!ImpactRadius(m, "OUT", Rounds)
<1> DEFINE a == CHOOSE g : RiskGraphSpreading(g)
           l == [m \in Nodes |-> CHOOSE g : RiskGraphLevels(g, m, "OUT", Rounds)]
<1>1. RiskGraphSpreading(a)
  BY RiskGraphSpreadingExists
<1>2. RiskGraph!Computed = a[Rounds]
  BY DEF RiskGraph!Computed, RiskGraphSpreading
<1>3. \A m \in Nodes : RiskGraphLevels(l[m], m, "OUT", Rounds)
  BY RiskGraphLevelsExist, RiskConstants DEF RiskGraphIsDepth
<1>4. \A m \in Nodes : RiskGraph!ImpactRadius(m, "OUT", Rounds) = l[m][Rounds].visited
  BY DEF RiskGraph!ImpactRadius, RiskGraphLevels
<1> HIDE DEF a, l
<1>5. Rounds \in Nat /\ 0 \in Nat /\ Rounds \in 0..Rounds /\ RiskGraphIsDepth(Rounds)
  BY RiskConstants DEF RiskGraphIsDepth
<1> DEFINE Fine(k, n) == /\ a[k][n] \in base[n]..100
                         /\ a[k][n] > 0 => \E m \in Nodes : base[m] > 0 /\ n \in l[m][k].visited
           T == {k \in 0..Rounds : a[k] \in RiskGraph!Scores /\ \A n \in Nodes : Fine(k, n)}
<1>6. \A n \in Nodes : base[n] \in 0..100
  BY DEF RiskGraph!Scores, RiskGraph!Points
<1>7. 0 \in T
  <2>1. a[0] = base
    BY <1>1, <1>5 DEF RiskGraphSpreading
  <2>2. \A n \in Nodes : n \in l[n][0].visited
    <3>1. \A n \in Nodes : RiskGraphStarting(l[n], n)
      BY <1>3, <1>5, RiskGraphLevelGrows
    <3>2. QED
      BY <3>1 DEF RiskGraphStarting
  <2>3. QED
    BY <1>5, <1>6, <2>1, <2>2
<1>8. ASSUME NEW k \in 0..Rounds, k \in T, k < Rounds PROVE k + 1 \in T
  <2> DEFINE j == k + 1
  <2>1. j \in 0..Rounds /\ j # 0 /\ j - 1 = k /\ k # Rounds
    BY <1>5, <1>8
  <2> HIDE DEF j
  <2>2. a[j] = RiskGraph!Round(a[k]) /\ a[k] \in RiskGraph!Scores
    BY <1>1, <1>8, <2>1 DEF RiskGraphSpreading
  <2>3. a[j] \in RiskGraph!Scores
    BY <2>2, RiskGraphRoundTyped
  <2>4. ASSUME NEW n \in Nodes PROVE Fine(j, n)
    <3>1. /\ a[j][n] \in a[k][n]..100 /\ a[k][n] \in RiskGraph!Points
          /\ a[j][n] > 0 => a[k][n] > 0 \/ \E m \in Nodes : <<m, n>> \in links /\ a[k][m] > 0
      BY <2>2, RiskGraphRoundSpreads
    <3>2. Fine(k, n)
      BY <1>8
    <3>3. a[j][n] \in base[n]..100
      BY <1>6, <3>1, <3>2 DEF RiskGraph!Points
    <3>4. \A m \in Nodes : /\ l[m][k].visited \subseteq l[m][j].visited
                           /\ \A y \in l[m][k].visited : RiskGraph!Neighbours(y, "OUT") \subseteq l[m][j].visited
      BY <1>3, <1>5, <2>1, RiskGraphLevelClosed DEF j
    <3>5. ASSUME a[k][n] > 0 PROVE \E m \in Nodes : base[m] > 0 /\ n \in l[m][j].visited
      BY <3>2, <3>4, <3>5
    <3>6. ASSUME NEW y \in Nodes, <<y, n>> \in links, a[k][y] > 0
          PROVE  \E m \in Nodes : base[m] > 0 /\ n \in l[m][j].visited
      <4>1. PICK m \in Nodes : base[m] > 0 /\ y \in l[m][k].visited
        BY <1>8, <3>6
      <4>2. n \in RiskGraph!Neighbours(y, "OUT")
        BY <3>6 DEF RiskGraph!Neighbours
      <4>3. QED
        BY <3>4, <4>1, <4>2
    <3>7. QED
      BY <3>1, <3>3, <3>5, <3>6
  <2> HIDE DEF Fine
  <2>5. QED
    BY <2>1, <2>3, <2>4 DEF j
<1> HIDE DEF T
<1>9. \A k \in 0..Rounds : k \in T
  BY <1>5, <1>7, <1>8, Climbs
<1>10. QED
  BY <1>2, <1>4, <1>5, <1>9 DEF T

LEMMA RiskGraphMaxTyped == ASSUME NEW r \in RiskGraph!Scores PROVE RiskGraph!MaxOf(r) \in RiskGraph!Points
<1> DEFINE S == {r[n] : n \in Nodes}
<1>1. S \in SUBSET (0..100) /\ S # {} /\ 100 \in Nat
  BY RiskConstants DEF RiskGraph!Scores, RiskGraph!Points
<1>2. \E top \in S : \A y \in S : y <= top
  <2> HIDE DEF S
  <2>1. QED
    BY <1>1, Greatest
<1>3. \E top \in S : \A n \in Nodes : r[n] <= top
  BY <1>2
<1>4. RiskGraph!MaxOf(r) \in S
  BY <1>3 DEF RiskGraph!MaxOf
<1>5. QED
  BY <1>1, <1>4 DEF RiskGraph!Points

LEMMA RiskGraphBaseTyped == ASSUME NEW f \in Facts PROVE RiskGraph!BaseRisk(f) \in RiskGraph!Points
<1>1. /\ f.type \in {"INVOICE", "WORK_ITEM", "DEAL", "INCIDENT", "COMPANY"} /\ f.boost \in Nat
      /\ RiskGraph!Late[f.type] \in Nat /\ RiskGraph!Risky[f.type] \in Nat
  BY RiskConstants DEF RiskGraph!Late, RiskGraph!Risky
<1> DEFINE a == IF f.late THEN RiskGraph!Late[f.type] ELSE 0
           b == IF f.status = "risky" THEN RiskGraph!Risky[f.type] ELSE 0
           c == IF f.type \in {"INVOICE", "DEAL"} THEN f.boost ELSE 0
<1>2. a \in Nat /\ b \in Nat /\ c \in Nat
  BY <1>1
<1>3. RiskGraph!BaseRisk(f) = IF f.status = "closed" THEN 0 ELSE IF a + b + c > 100 THEN 100 ELSE a + b + c
  BY DEF RiskGraph!BaseRisk
<1> HIDE DEF a, b, c
<1>4. QED
  BY <1>2, <1>3 DEF RiskGraph!Points

(* The graph, its scores and the runs keep their types: risk spreads in    *)
(* whole points from 0 to 100, for any graph and edges.                    *)
THEOREM RiskGraphTypeCorrect == RiskGraph!Spec => []RiskGraph!TypeOK
<1> DEFINE Frames == {RiskGraph!Idle} \cup [op : {"write"}, risk : RiskGraph!Scores, was : RiskGraph!Scores]
                                      \cup [op : {"snapshot"}, risk : RiskGraph!Scores]
<1>1. ASSUME RiskGraph!Init PROVE RiskGraph!TypeOK
  <2>1. frame = [h \in Handlers |-> RiskGraph!Idle]
    BY <1>1 DEF RiskGraph!Init, RiskGraph!ServerInit
  <2>2. 0 \in RiskGraph!Points /\ MaxEdits \in Nat
    BY RiskConstants DEF RiskGraph!Points
  <2>3. base \in RiskGraph!Scores /\ score \in RiskGraph!Scores
    BY <1>1, <2>2 DEF RiskGraph!Init, RiskGraph!Scores
  <2>4. links \subseteq RiskGraph!Pairs /\ snapshot \in RiskGraph!Points \cup {RiskGraph!None} /\ disturbed \in BOOLEAN
    BY <1>1 DEF RiskGraph!Init
  <2>5. edits \in 0..MaxEdits
    BY <1>1, <2>2 DEF RiskGraph!Init
  <2>6. base \in [Nodes -> RiskGraph!Points]
    BY <2>3 DEF RiskGraph!Scores
  <2>7. frame \in [Handlers -> {RiskGraph!Idle} \cup [op : {"write"}, risk : RiskGraph!Scores, was : RiskGraph!Scores]
                                                \cup [op : {"snapshot"}, risk : RiskGraph!Scores]]
    BY <2>1
  <2>8. QED
    BY <2>3, <2>4, <2>5, <2>6, <2>7 DEF RiskGraph!TypeOK
<1>2. ASSUME RiskGraph!TypeOK, [RiskGraph!Next]_(RiskGraph!vars) PROVE RiskGraph!TypeOK'
  <2>0. base \in RiskGraph!Scores /\ frame \in [Handlers -> Frames]
    BY <1>2 DEF RiskGraph!TypeOK, RiskGraph!Scores
  <2>1. ASSUME NEW n \in Nodes, NEW f \in Facts, RiskGraph!NodeChanges(n, f) PROVE RiskGraph!TypeOK'
    BY <1>2, <2>1, RiskGraphBaseTyped, RiskConstants DEF RiskGraph!TypeOK, RiskGraph!NodeChanges
  <2>2. ASSUME NEW p \in RiskGraph!Pairs, RiskGraph!EdgeAdded(p) PROVE RiskGraph!TypeOK'
    BY <1>2, <2>2, RiskConstants DEF RiskGraph!TypeOK, RiskGraph!EdgeAdded
  <2>3. ASSUME NEW h \in Handlers, NEW f \in Frames, frame' = [frame EXCEPT ![h] = f]
        PROVE  frame' \in [Handlers -> Frames]
    BY <2>0, <2>3
  <2>4. ASSUME NEW h \in Handlers, RiskGraph!RunRead(h) PROVE RiskGraph!TypeOK'
    <3>1. [op |-> "write", risk |-> RiskGraph!Computed, was |-> score] \in Frames
      BY <1>2, <2>0, RiskGraphComputedIs DEF RiskGraph!TypeOK
    <3>2. frame' \in [Handlers -> Frames]
      BY <2>3, <2>4, <3>1 DEF RiskGraph!RunRead, RiskGraph!Serve
    <3>3. QED
      BY <1>2, <2>4, <3>2 DEF RiskGraph!TypeOK, RiskGraph!RunRead, RiskGraph!graph
  <2>5. ASSUME NEW h \in Handlers, RiskGraph!RunWrite(h) PROVE RiskGraph!TypeOK'
    <3>1. frame[h] \in [op : {"write"}, risk : RiskGraph!Scores, was : RiskGraph!Scores]
      BY <2>0, <2>5 DEF RiskGraph!RunWrite, RiskGraph!At, RiskGraph!Idle
    <3>2. frame[h].risk \in RiskGraph!Scores /\ [op |-> "snapshot", risk |-> frame[h].risk] \in Frames
      BY <3>1
    <3>3. frame' \in [Handlers -> Frames]
      BY <2>3, <2>5, <3>2 DEF RiskGraph!RunWrite, RiskGraph!GoOn
    <3>4. score' \in RiskGraph!Scores
      BY <1>2, <2>5, <3>2 DEF RiskGraph!TypeOK, RiskGraph!RunWrite, RiskGraph!Scores
    <3>5. QED
      BY <1>2, <2>5, <3>3, <3>4 DEF RiskGraph!TypeOK, RiskGraph!RunWrite, RiskGraph!graph
  <2>6. ASSUME NEW h \in Handlers, RiskGraph!RunStore(h) PROVE RiskGraph!TypeOK'
    <3>1. frame[h] \in [op : {"snapshot"}, risk : RiskGraph!Scores]
      BY <2>0, <2>6 DEF RiskGraph!RunStore, RiskGraph!At, RiskGraph!Idle
    <3>2. snapshot' \in RiskGraph!Points
      BY <2>6, <3>1, RiskGraphMaxTyped DEF RiskGraph!RunStore
    <3>3. frame' \in [Handlers -> Frames]
      BY <2>3, <2>6 DEF RiskGraph!RunStore, RiskGraph!Finish, RiskGraph!GoOn
    <3>4. QED
      BY <1>2, <2>6, <3>2, <3>3 DEF RiskGraph!TypeOK, RiskGraph!RunStore, RiskGraph!graph
  <2>7. ASSUME NEW h \in Handlers, RiskGraph!Lost(h) PROVE RiskGraph!TypeOK'
    <3>1. frame' \in [Handlers -> Frames]
      BY <2>3, <2>7 DEF RiskGraph!Lost, RiskGraph!Drop, RiskGraph!Finish, RiskGraph!GoOn
    <3>2. QED
      BY <1>2, <2>7, <3>1 DEF RiskGraph!TypeOK, RiskGraph!Lost, RiskGraph!graph
  <2>8. CASE UNCHANGED RiskGraph!vars
    BY <1>2, <2>8 DEF RiskGraph!TypeOK, RiskGraph!vars, RiskGraph!graph
  <2>9. QED
    BY <1>2, <2>1, <2>2, <2>4, <2>5, <2>6, <2>7, <2>8 DEF RiskGraph!Next
<1>3. QED
  BY <1>1, <1>2, PTL DEF RiskGraph!Spec

(* Risk does not come from nowhere: a node with a score has a node with    *)
(* base risk as many edges up as there are rounds or fewer; spreading      *)
(* never lowers a score and keeps it within 100 (computeOrgRisk).          *)
THEOREM RiskGraphHasASource == RiskGraph!Spec => []RiskGraph!RiskHasASource
<1>1. ASSUME RiskGraph!TypeOK PROVE RiskGraph!RiskHasASource
  <2>1. base \in RiskGraph!Scores
    BY <1>1 DEF RiskGraph!TypeOK, RiskGraph!Scores
  <2>2. QED
    BY <2>1, RiskGraphComputedIs DEF RiskGraph!RiskHasASource, RiskGraph!Sources
<1>2. QED
  BY <1>1, RiskGraphTypeCorrect, PTL

-----------------------------------------------------------------------------
(* Who is on call.                                                         *)

\* Sets are counted as everywhere.
LEMMA OnCallCount ==
  \A S : OnCall!IsFiniteSet(S) = IsFiniteSet(S) /\ OnCall!Cardinality(S) = Cardinality(S)
BY DEF OnCall!IsFiniteSet, IsFiniteSet, OnCall!Cardinality, Cardinality

\* Types.

(* Schedules keep their windows, calendars and fallbacks, for any number   *)
(* of them and any hours of a day.                                         *)
THEOREM OnCallTypeCorrect == OnCall!Spec => []OnCall!TypeOK
<1>1. OnCall!Init => OnCall!TypeOK
  BY OnCallConstants DEF OnCall!Init, OnCall!TypeOK, OnCall!Schedules
<1>2. ASSUME OnCall!TypeOK, [OnCall!Next]_(OnCall!vars) PROVE OnCall!TypeOK'
  <2>1. CASE OnCall!HourPasses
    <3>1. (now + 1) % ShiftDay \in 0..(ShiftDay - 1)
      BY <1>2, OnCallConstants DEF OnCall!TypeOK
    <3>2. QED
      BY <1>2, <2>1, <3>1 DEF OnCall!TypeOK, OnCall!HourPasses
  <2>2. ASSUME NEW s \in OnCall!Schedules, OnCall!UpdateSchedule(s) PROVE OnCall!TypeOK'
    BY <1>2, <2>2 DEF OnCall!TypeOK, OnCall!UpdateSchedule
  <2>3. ASSUME NEW s \in OnCall!Schedules, OnCall!RemoveSchedule(s) PROVE OnCall!TypeOK'
    BY <1>2, <2>3, OnCallCount DEF OnCall!TypeOK, OnCall!RemoveSchedule
  <2>4. ASSUME NEW s \in OnCall!Schedules, OnCall!HolidayChanges(s) PROVE OnCall!TypeOK'
    BY <1>2, <2>4 DEF OnCall!TypeOK, OnCall!HolidayChanges
  <2>5. CASE UNCHANGED OnCall!vars
    BY <1>2, <2>5 DEF OnCall!TypeOK, OnCall!vars
  <2>6. QED
    BY <1>2, <2>1, <2>2, <2>3, <2>4, <2>5 DEF OnCall!Next
<1>3. QED
  BY <1>1, <1>2, PTL DEF OnCall!Spec

(* Two shifts that follow each other round the clock leave no hour without *)
(* cover and no hour with both (isInCoverageWindow).                       *)
THEOREM OnCallShifts == OnCall!Spec => []OnCall!ShiftsShareTheDay
<1>1. ASSUME OnCall!TypeOK PROVE OnCall!ShiftsShareTheDay
  <2> SUFFICES ASSUME NEW s \in OnCall!Schedules, NEW t \in OnCall!Schedules,
                      window[s][1] # window[s][2], window[s][1] = window[t][2], window[s][2] = window[t][1]
               PROVE  OnCall!InWindow(window[s]) # OnCall!InWindow(window[t])
    BY DEF OnCall!ShiftsShareTheDay
  <2>1. window[s] \in Nat \X Nat /\ window[t] \in Nat \X Nat /\ now \in Nat
    BY <1>1, OnCallConstants DEF OnCall!TypeOK
  <2>2. window[s][1] \in Nat /\ window[s][2] \in Nat
    BY <2>1
  <2> DEFINE a == window[s][1]
             b == window[s][2]
  <2>3. /\ OnCall!InWindow(window[s]) <=> (a < b /\ a <= now /\ now < b) \/ (a > b /\ (a <= now \/ now < b))
        /\ OnCall!InWindow(window[t]) <=> (b < a /\ b <= now /\ now < a) \/ (b > a /\ (b <= now \/ now < a))
    BY DEF OnCall!InWindow
  <2>4. a \in Nat /\ b \in Nat /\ a # b /\ now \in Nat
    BY <2>1, <2>2
  <2> HIDE DEF a, b
  <2>5. QED
    BY <2>3, <2>4
<1>2. QED
  BY <1>1, OnCallTypeCorrect, PTL

\* What fallbacks lead to.

OnCallFrom(S) == {fallback[s] : s \in S \cap enabled} \ {0}

\* What can be reached in n steps.
OnCallReaching(w) == w = [n \in 1..MaxSchedules |-> IF n = 1 THEN OnCallFrom(enabled) ELSE w[n - 1] \cup OnCallFrom(w[n - 1])]

LEMMA OnCallFromTyped ==
  ASSUME OnCall!TypeOK, NEW S
  PROVE  OnCallFrom(S) \in SUBSET OnCall!Schedules
<1>1. MaxSchedules \in Nat /\ enabled \subseteq OnCall!Schedules /\ fallback \in [OnCall!Schedules -> 0..MaxSchedules]
  BY OnCallConstants DEF OnCall!TypeOK
<1>2. \A s \in enabled : fallback[s] \in 0..MaxSchedules
  BY <1>1
<1>3. \A i \in 0..MaxSchedules : i # 0 => i \in OnCall!Schedules
  BY <1>1 DEF OnCall!Schedules
<1>4. QED
  BY <1>2, <1>3 DEF OnCallFrom

LEMMA OnCallReachingExists ==
  ASSUME OnCall!TypeOK
  PROVE  \E w \in [1..MaxSchedules -> SUBSET OnCall!Schedules] : OnCallReaching(w)
<1> DEFINE V == SUBSET OnCall!Schedules
           G == [S \in V |-> S \cup OnCallFrom(S)]
           x == OnCallFrom(enabled)
<1>1. x \in V /\ G \in [V -> V]
  BY OnCallFromTyped
<1>2. PICK w \in [1..MaxSchedules -> V] : w = [n \in 1..MaxSchedules |-> IF n = 1 THEN x ELSE G[w[n - 1]]]
  <2> HIDE DEF V, G, x
  <2>1. Repeatable(1, MaxSchedules, V, x, G)
    BY <1>1, OnCallConstants DEF Repeatable
  <2>2. QED
    BY <2>1, Iterated
<1>3. \A n \in 1..MaxSchedules : n # 1 => w[n - 1] \in V
  BY OnCallConstants
<1>4. \A n \in 1..MaxSchedules : (IF n = 1 THEN x ELSE G[w[n - 1]])
                                   = (IF n = 1 THEN OnCallFrom(enabled) ELSE w[n - 1] \cup OnCallFrom(w[n - 1]))
  BY <1>3
<1>5. w = [n \in 1..MaxSchedules |-> IF n = 1 THEN OnCallFrom(enabled) ELSE w[n - 1] \cup OnCallFrom(w[n - 1])]
  <2> HIDE DEF V, G, x
  <2>1. QED
    BY <1>2, <1>4
<1>6. QED
  BY <1>5 DEF OnCallReaching

\* Reachable holds what the enabled schedules fall back to and what that falls back to, and nothing else.
LEMMA OnCallReachableClosed ==
  ASSUME OnCall!TypeOK
  PROVE  /\ OnCall!Reachable \in SUBSET OnCall!Schedules
         /\ OnCallFrom(enabled) \subseteq OnCall!Reachable /\ OnCallFrom(OnCall!Reachable) \subseteq OnCall!Reachable
         /\ \A V : OnCallFrom(enabled) \subseteq V /\ OnCallFrom(V) \subseteq V => OnCall!Reachable \subseteq V
<1> DEFINE w == CHOOSE f : OnCallReaching(f)
<1>1. OnCallReaching(w)
  BY OnCallReachingExists
<1>2. OnCall!Reachable = w[MaxSchedules]
  BY DEF OnCall!Reachable, OnCallReaching, OnCallFrom
<1> HIDE DEF w
<1>3. MaxSchedules \in 1..MaxSchedules /\ 1 \in 1..MaxSchedules /\ MaxSchedules \in Nat /\ 1 \in Nat
  BY OnCallConstants
<1>4. w[1] = OnCallFrom(enabled)
  BY <1>1, <1>3 DEF OnCallReaching
<1>5. ASSUME NEW n \in 1..MaxSchedules, n < MaxSchedules
      PROVE  w[n + 1] = w[n] \cup OnCallFrom(w[n]) /\ n + 1 \in 1..MaxSchedules
  <2>1. n + 1 \in 1..MaxSchedules /\ n + 1 # 1 /\ (n + 1) - 1 = n
    BY <1>3, <1>5
  <2> DEFINE k == n + 1
  <2>2. w[k] = w[k - 1] \cup OnCallFrom(w[k - 1])
    <3> HIDE DEF k
    <3>1. k \in 1..MaxSchedules /\ k # 1
      BY <2>1 DEF k
    <3>2. QED
      BY <1>1, <3>1 DEF OnCallReaching
  <2>3. QED
    BY <2>1, <2>2
<1>6. ASSUME NEW V, OnCallFrom(enabled) \subseteq V, OnCallFrom(V) \subseteq V PROVE w[MaxSchedules] \subseteq V
  <2> DEFINE T == {n \in 1..MaxSchedules : w[n] \subseteq V}
  <2>1. 1 \in T
    BY <1>3, <1>4, <1>6
  <2>2. ASSUME NEW n \in 1..MaxSchedules, n \in T, n < MaxSchedules PROVE n + 1 \in T
    <3>1. OnCallFrom(w[n]) \subseteq OnCallFrom(V)
      BY <2>2 DEF OnCallFrom
    <3>2. QED
      BY <1>5, <1>6, <2>2, <3>1
  <2> HIDE DEF T
  <2>3. \A n \in 1..MaxSchedules : n \in T
    BY <1>3, <2>1, <2>2, Climbs
  <2>4. QED
    BY <1>3, <2>3 DEF T
<1>7. OnCallFrom(enabled) \subseteq w[MaxSchedules] /\ w[MaxSchedules] \in SUBSET OnCall!Schedules /\ OnCallFrom(w[MaxSchedules]) \subseteq w[MaxSchedules]
  <2> DEFINE T == {n \in 1..MaxSchedules : /\ OnCallFrom(enabled) \subseteq w[n] /\ w[n] \in SUBSET OnCall!Schedules
                                           /\ OnCallFrom(w[n]) \subseteq w[n] \/ Cardinality(w[n]) >= n}
  <2>0. IsFiniteSet(OnCall!Schedules) /\ Cardinality(OnCall!Schedules) = MaxSchedules
    BY <1>3, FS_Interval DEF OnCall!Schedules
  <2>1. 1 \in T
    <3>1. CASE OnCallFrom(enabled) = {}
      BY <1>3, <1>4, <3>1 DEF OnCallFrom
    <3>2. CASE OnCallFrom(enabled) # {}
      <4>1. IsFiniteSet(OnCallFrom(enabled))
        BY <2>0, OnCallFromTyped, FS_Subset
      <4>2. Cardinality(OnCallFrom(enabled)) \in Nat /\ Cardinality(OnCallFrom(enabled)) # 0
        BY <3>2, <4>1, FS_CardinalityType, FS_EmptySet
      <4>3. Cardinality(OnCallFrom(enabled)) >= 1
        BY <4>2
      <4>4. QED
        BY <1>3, <1>4, <4>3, OnCallFromTyped
    <3>3. QED
      BY <3>1, <3>2
  <2>2. ASSUME NEW n \in 1..MaxSchedules, n \in T, n < MaxSchedules PROVE n + 1 \in T
    <3>1. w[n + 1] = w[n] \cup OnCallFrom(w[n]) /\ n + 1 \in 1..MaxSchedules
      BY <1>5, <2>2
    <3>2. OnCallFrom(w[n]) \in SUBSET OnCall!Schedules
      BY OnCallFromTyped
    <3>3. CASE OnCallFrom(w[n]) \subseteq w[n]
      <4>1. w[n + 1] = w[n]
        BY <3>1, <3>3
      <4>2. QED
        BY <2>2, <3>1, <3>3, <4>1
    <3>4. CASE ~(OnCallFrom(w[n]) \subseteq w[n])
      <4>1. Cardinality(w[n]) >= n /\ w[n] \in SUBSET w[n + 1] /\ w[n + 1] # w[n] /\ w[n + 1] \in SUBSET OnCall!Schedules
        BY <2>2, <3>1, <3>2, <3>4
      <4>2. IsFiniteSet(w[n + 1])
        BY <2>0, <4>1, FS_Subset
      <4>3. Cardinality(w[n]) <= Cardinality(w[n + 1]) /\ Cardinality(w[n]) # Cardinality(w[n + 1]) /\ IsFiniteSet(w[n])
        BY <4>1, <4>2, FS_Subset
      <4>4. Cardinality(w[n]) \in Nat /\ Cardinality(w[n + 1]) \in Nat
        BY <4>2, <4>3, FS_CardinalityType
      <4>5. Cardinality(w[n + 1]) >= n + 1
        <5> DEFINE p == Cardinality(w[n])
                   q == Cardinality(w[n + 1])
        <5>1. p \in Nat /\ q \in Nat /\ p <= q /\ p # q /\ p >= n
          BY <4>1, <4>3, <4>4
        <5> HIDE DEF p, q
        <5>2. q >= n + 1
          BY <5>1
        <5>3. QED
          BY <5>2 DEF q
      <4>6. QED
        BY <2>2, <3>1, <4>1, <4>5
    <3>5. QED
      BY <3>3, <3>4
  <2> HIDE DEF T
  <2>3. \A n \in 1..MaxSchedules : n \in T
    BY <1>3, <2>1, <2>2, Climbs
  <2>4. /\ OnCallFrom(enabled) \subseteq w[MaxSchedules] /\ w[MaxSchedules] \in SUBSET OnCall!Schedules
        /\ OnCallFrom(w[MaxSchedules]) \subseteq w[MaxSchedules] \/ Cardinality(w[MaxSchedules]) >= MaxSchedules
    BY <1>3, <2>3 DEF T
  <2>5. ASSUME Cardinality(w[MaxSchedules]) >= MaxSchedules PROVE w[MaxSchedules] = OnCall!Schedules
    <3>1. Cardinality(w[MaxSchedules]) <= MaxSchedules /\ IsFiniteSet(w[MaxSchedules])
      BY <2>0, <2>4, FS_Subset
    <3>2. Cardinality(w[MaxSchedules]) \in Nat
      BY <3>1, FS_CardinalityType
    <3>3. Cardinality(w[MaxSchedules]) = Cardinality(OnCall!Schedules)
      BY <1>3, <2>0, <2>5, <3>1, <3>2
    <3>4. QED
      BY <2>0, <2>4, <3>3, FS_Subset
  <2>6. QED
    BY <2>4, <2>5, OnCallFromTyped
<1>8. QED
  BY <1>2, <1>6, <1>7

\* The search.

OnCallSearches == [root : 0..(MaxSchedules + 1), next : 0..MaxSchedules, visited : SUBSET OnCall!Schedules]

\* Past the schedule it has come to, and past one that does not answer.
OnCallNextRoot(at) == [root |-> at.root + 1, next |-> OnCall!FallbackOf(at.root + 1), visited |-> at.visited]
OnCallOnwards(at) == [root |-> at.root, next |-> OnCall!FallbackOf(at.next), visited |-> at.visited \cup {at.next}]

OnCallSought(f) ==
  f = [at \in OnCallSearches |->
        IF at.root > MaxSchedules THEN 0
        ELSE IF at.next = 0 \/ at.next \in at.visited THEN f[OnCallNextRoot(at)]
        ELSE IF at.next \in enabled /\ OnCall!Active(at.next) THEN at.next
        ELSE f[OnCallOnwards(at)]]

\* Schedules still to be begun with or to be visited.
OnCallAhead(at) == (MaxSchedules + 1 - at.root) + (MaxSchedules - Cardinality(at.visited))

LEMMA OnCallFallbackTyped == ASSUME OnCall!TypeOK, NEW s PROVE OnCall!FallbackOf(s) \in 0..MaxSchedules
<1>1. MaxSchedules \in Nat /\ enabled \subseteq OnCall!Schedules /\ fallback \in [OnCall!Schedules -> 0..MaxSchedules]
  BY OnCallConstants DEF OnCall!TypeOK
<1>2. 0 \in 0..MaxSchedules
  BY <1>1
<1>3. QED
  BY <1>1, <1>2 DEF OnCall!FallbackOf

LEMMA OnCallSearchSteps ==
  ASSUME OnCall!TypeOK, NEW at \in OnCallSearches
  PROVE  /\ OnCallAhead(at) \in 0..(MaxSchedules + 1 + MaxSchedules)
         /\ ~(at.root > MaxSchedules) /\ (at.next = 0 \/ at.next \in at.visited) =>
              /\ OnCallNextRoot(at) \in OnCallSearches /\ OnCallNextRoot(at).root = at.root + 1
              /\ OnCallNextRoot(at).next = OnCall!FallbackOf(at.root + 1) /\ OnCallNextRoot(at).visited = at.visited
              /\ OnCallAhead(OnCallNextRoot(at)) < OnCallAhead(at)
         /\ ~(at.next = 0 \/ at.next \in at.visited) =>
              /\ OnCallOnwards(at) \in OnCallSearches /\ OnCallOnwards(at).root = at.root
              /\ OnCallOnwards(at).next = OnCall!FallbackOf(at.next) /\ OnCallOnwards(at).visited = at.visited \cup {at.next}
              /\ OnCallAhead(OnCallOnwards(at)) < OnCallAhead(at)
<1>1. at.root \in 0..(MaxSchedules + 1) /\ at.next \in 0..MaxSchedules /\ at.visited \in SUBSET OnCall!Schedules /\ MaxSchedules \in Nat
  BY OnCallConstants DEF OnCallSearches
<1>3. IsFiniteSet(OnCall!Schedules) /\ Cardinality(OnCall!Schedules) = MaxSchedules
  <2>1. MaxSchedules \in Nat /\ 1 \in Nat
    BY <1>1
  <2>2. QED
    BY <2>1, FS_Interval DEF OnCall!Schedules
<1>4. ASSUME NEW S \in SUBSET OnCall!Schedules PROVE IsFiniteSet(S) /\ Cardinality(S) \in 0..MaxSchedules
  <2>1. IsFiniteSet(S) /\ Cardinality(S) <= MaxSchedules
    BY <1>3, FS_Subset
  <2>2. QED
    BY <1>1, <2>1, FS_CardinalityType
<1> DEFINE c == Cardinality(at.visited)
<1>5. c \in 0..MaxSchedules /\ OnCallAhead(at) = (MaxSchedules + 1 - at.root) + (MaxSchedules - c)
  BY <1>1, <1>4 DEF OnCallAhead
<1>6. OnCallAhead(at) \in 0..(MaxSchedules + 1 + MaxSchedules)
  <2> HIDE DEF c
  <2>1. QED
    BY <1>1, <1>5
<1>7. ASSUME ~(at.root > MaxSchedules)
      PROVE  /\ OnCallNextRoot(at) \in OnCallSearches /\ OnCallNextRoot(at).root = at.root + 1
             /\ OnCallNextRoot(at).next = OnCall!FallbackOf(at.root + 1) /\ OnCallNextRoot(at).visited = at.visited
             /\ OnCallAhead(OnCallNextRoot(at)) < OnCallAhead(at)
  <2>1. OnCallNextRoot(at) = [root |-> at.root + 1, next |-> OnCall!FallbackOf(at.root + 1), visited |-> at.visited]
    BY DEF OnCallNextRoot
  <2>2. at.root + 1 \in 0..(MaxSchedules + 1)
    BY <1>1, <1>7
  <2>3. OnCallAhead(OnCallNextRoot(at)) = (MaxSchedules + 1 - (at.root + 1)) + (MaxSchedules - c)
    BY <2>1 DEF OnCallAhead
  <2>4. OnCallAhead(OnCallNextRoot(at)) < OnCallAhead(at)
    <3> HIDE DEF c
    <3>1. QED
      BY <1>1, <1>5, <2>3
  <2>5. QED
    BY <1>1, <2>1, <2>2, <2>4, OnCallFallbackTyped DEF OnCallSearches
<1>8. ASSUME ~(at.next = 0 \/ at.next \in at.visited)
      PROVE  /\ OnCallOnwards(at) \in OnCallSearches /\ OnCallOnwards(at).root = at.root
             /\ OnCallOnwards(at).next = OnCall!FallbackOf(at.next) /\ OnCallOnwards(at).visited = at.visited \cup {at.next}
             /\ OnCallAhead(OnCallOnwards(at)) < OnCallAhead(at)
  <2>1. OnCallOnwards(at) = [root |-> at.root, next |-> OnCall!FallbackOf(at.next), visited |-> at.visited \cup {at.next}]
    BY DEF OnCallOnwards
  <2>2. at.visited \cup {at.next} \in SUBSET OnCall!Schedules
    BY <1>1, <1>8 DEF OnCall!Schedules
  <2>3. Cardinality(at.visited \cup {at.next}) = c + 1 /\ c + 1 \in 0..MaxSchedules
    <3>1. Cardinality(at.visited \cup {at.next}) = c + 1
      BY <1>1, <1>4, <1>8, FS_AddElement
    <3>2. QED
      BY <1>4, <2>2, <3>1
  <2>4. OnCallAhead(OnCallOnwards(at)) = (MaxSchedules + 1 - at.root) + (MaxSchedules - (c + 1))
    BY <2>1, <2>3 DEF OnCallAhead
  <2>5. OnCallAhead(OnCallOnwards(at)) < OnCallAhead(at)
    <3> HIDE DEF c
    <3>1. QED
      BY <1>1, <1>5, <2>3, <2>4
  <2>6. QED
    BY <1>1, <2>1, <2>2, <2>5, OnCallFallbackTyped DEF OnCallSearches
<1>9. QED
  BY <1>6, <1>7, <1>8

LEMMA OnCallSoughtExists == ASSUME OnCall!TypeOK PROVE \E f : OnCallSought(f)
<1> DEFINE V == 0..MaxSchedules
           Body(f, at) == IF at.root > MaxSchedules THEN 0
                          ELSE IF at.next = 0 \/ at.next \in at.visited THEN f[OnCallNextRoot(at)]
                          ELSE IF at.next \in enabled /\ OnCall!Active(at.next) THEN at.next
                          ELSE f[OnCallOnwards(at)]
           B == [f \in [OnCallSearches -> V] |-> [at \in OnCallSearches |-> Body(f, at)]]
           e == [at \in OnCallSearches |-> 0]
           m == [at \in OnCallSearches |-> OnCallAhead(at)]
           n == MaxSchedules + 1 + MaxSchedules
<1>1. MaxSchedules \in Nat /\ n \in Nat /\ 0 \in V
  BY OnCallConstants
<1>2. ASSUME NEW f \in [OnCallSearches -> V], NEW at \in OnCallSearches PROVE Body(f, at) \in V
  <2>1. at.next \in V
    BY DEF OnCallSearches
  <2>2. QED
    BY <1>1, <2>1, OnCallSearchSteps
<1>3. ASSUME NEW f \in [OnCallSearches -> V], NEW g \in [OnCallSearches -> V], NEW at \in OnCallSearches,
             \A q \in OnCallSearches : m[q] < m[at] => f[q] = g[q]
      PROVE  Body(f, at) = Body(g, at)
  <2>1. ASSUME ~(at.root > MaxSchedules), at.next = 0 \/ at.next \in at.visited
        PROVE  f[OnCallNextRoot(at)] = g[OnCallNextRoot(at)]
    BY <1>3, <2>1, OnCallSearchSteps
  <2>2. ASSUME ~(at.next = 0 \/ at.next \in at.visited) PROVE f[OnCallOnwards(at)] = g[OnCallOnwards(at)]
    BY <1>3, <2>2, OnCallSearchSteps
  <2>3. QED
    BY <2>1, <2>2
<1>4. m \in [OnCallSearches -> 0..n]
  BY OnCallSearchSteps
<1>5. e \in [OnCallSearches -> V]
  BY <1>1
<1> HIDE DEF Body, m, e, n
<1>6. B \in [[OnCallSearches -> V] -> [OnCallSearches -> V]]
  BY <1>2
<1>7. \A f, g \in [OnCallSearches -> V] : \A p \in OnCallSearches :
        (\A q \in OnCallSearches : m[q] < m[p] => f[q] = g[q]) => B[f][p] = B[g][p]
  BY <1>3
<1> HIDE DEF V
<1>8. PICK f \in [OnCallSearches -> V] : f = B[f]
  <2> HIDE DEF B
  <2>1. Measured(OnCallSearches, V, e, B, n, m)
    BY <1>1, <1>4, <1>5, <1>6, <1>7 DEF Measured
  <2>2. QED
    BY <2>1, Recursive
<1>9. f = [at \in OnCallSearches |-> Body(f, at)]
  BY <1>8
<1>10. QED
  BY <1>9 DEF Body, OnCallSought

OnCallPromised == {s \in enabled : OnCall!Active(s)} \cap OnCall!Reachable

\* Where a search may be: what it has visited did not answer and leads only to what it has visited or comes to next, and so
\* do the schedules it has begun with.
OnCallSearching(at) ==
  /\ \A v \in at.visited : /\ ~(v \in enabled /\ OnCall!Active(v))
                           /\ OnCall!FallbackOf(v) \in at.visited \cup {0, at.next}
  /\ \A s \in enabled : s <= at.root => fallback[s] \in at.visited \cup {0, at.next}
  /\ at.next # 0 => at.next \in OnCall!Reachable
  /\ at.root = MaxSchedules + 1 => at.next = 0

\* The search finds a schedule that was promised, if there is any.
OnCallRight(r) == IF r = 0 THEN OnCallPromised = {} ELSE r \in OnCallPromised

LEMMA OnCallSearchFinds ==
  ASSUME OnCall!TypeOK, NEW f, OnCallSought(f)
  PROVE  \A at \in OnCallSearches : OnCallSearching(at) => OnCallRight(f[at])
<1> DEFINE Bad == {k \in Nat : \E at \in OnCallSearches : OnCallAhead(at) = k /\ OnCallSearching(at) /\ ~OnCallRight(f[at])}
<1>0. MaxSchedules \in Nat /\ enabled \in SUBSET OnCall!Schedules /\ fallback \in [OnCall!Schedules -> 0..MaxSchedules]
  BY OnCallConstants DEF OnCall!TypeOK
<1>1. SUFFICES ASSUME Bad # {} PROVE FALSE
  <2>1. \A at \in OnCallSearches : OnCallAhead(at) \in Nat
    BY <1>0, OnCallSearchSteps
  <2>2. QED
    BY <1>1, <2>1
<1>2. PICK k \in Bad : \A i \in Bad : k <= i
  BY <1>1, Least
<1>3. PICK at \in OnCallSearches : OnCallAhead(at) = k /\ OnCallSearching(at) /\ ~OnCallRight(f[at])
  BY <1>2
<1>4. ASSUME NEW q \in OnCallSearches, OnCallAhead(q) < k, OnCallSearching(q) PROVE OnCallRight(f[q])
  <2>1. OnCallAhead(q) \in Nat /\ k \in Nat
    BY <1>0, OnCallSearchSteps
  <2>2. QED
    BY <1>2, <1>4, <2>1
<1> HIDE DEF Bad
<1>5. at.root \in 0..(MaxSchedules + 1) /\ at.next \in 0..MaxSchedules /\ at.visited \in SUBSET OnCall!Schedules
  BY DEF OnCallSearches
<1>6. /\ OnCall!Reachable \in SUBSET OnCall!Schedules
      /\ OnCallFrom(enabled) \subseteq OnCall!Reachable /\ OnCallFrom(OnCall!Reachable) \subseteq OnCall!Reachable
      /\ \A V : OnCallFrom(enabled) \subseteq V /\ OnCallFrom(V) \subseteq V => OnCall!Reachable \subseteq V
  BY OnCallReachableClosed
<1>7. CASE at.root > MaxSchedules
  <2>1. f[at] = 0
    BY <1>7 DEF OnCallSought
  <2>2. at.root = MaxSchedules + 1 /\ at.next = 0
    BY <1>0, <1>3, <1>5, <1>7 DEF OnCallSearching
  <2>3. OnCallFrom(enabled) \subseteq at.visited
    <3>1. ASSUME NEW s \in enabled, fallback[s] # 0 PROVE fallback[s] \in at.visited
      <4>1. s <= at.root
        BY <1>0, <2>2 DEF OnCall!Schedules
      <4>2. QED
        BY <1>3, <2>2, <3>1, <4>1 DEF OnCallSearching
    <3>2. QED
      BY <3>1 DEF OnCallFrom
  <2>4. OnCallFrom(at.visited) \subseteq at.visited
    BY <1>3, <2>2 DEF OnCallFrom, OnCallSearching, OnCall!FallbackOf
  <2>5. OnCall!Reachable \subseteq at.visited
    BY <1>6, <2>3, <2>4
  <2>6. OnCallPromised = {}
    BY <1>3, <2>5 DEF OnCallPromised, OnCallSearching
  <2>7. QED
    BY <1>3, <2>1, <2>6 DEF OnCallRight
<1>8. CASE ~(at.root > MaxSchedules) /\ (at.next = 0 \/ at.next \in at.visited)
  <2> DEFINE q == OnCallNextRoot(at)
  <2>1. f[at] = f[q]
    BY <1>8 DEF OnCallSought
  <2>2. /\ q \in OnCallSearches /\ q.root = at.root + 1 /\ q.next = OnCall!FallbackOf(at.root + 1) /\ q.visited = at.visited
        /\ OnCallAhead(q) < k
    BY <1>3, <1>8, OnCallSearchSteps
  <2> HIDE DEF q
  <2>3. \A v \in q.visited : ~(v \in enabled /\ OnCall!Active(v)) /\ OnCall!FallbackOf(v) \in q.visited \cup {0, q.next}
    BY <1>3, <1>8, <2>2 DEF OnCallSearching
  <2>4. ASSUME NEW s \in enabled, s <= q.root PROVE fallback[s] \in q.visited \cup {0, q.next}
    <3>1. s \in Nat
      BY <1>0 DEF OnCall!Schedules
    <3>2. s <= at.root \/ s = at.root + 1
      BY <1>5, <2>2, <2>4, <3>1
    <3>3. QED
      BY <1>3, <1>8, <2>2, <2>4, <3>2 DEF OnCallSearching, OnCall!FallbackOf
  <2>5. ASSUME q.next # 0 PROVE q.next \in OnCall!Reachable
    <3>1. at.root + 1 \in enabled /\ q.next = fallback[at.root + 1]
      BY <2>2, <2>5 DEF OnCall!FallbackOf
    <3>2. QED
      BY <1>6, <2>5, <3>1 DEF OnCallFrom
  <2>6. q.root = MaxSchedules + 1 => q.next = 0
    <3>1. MaxSchedules + 1 \notin enabled
      BY <1>0 DEF OnCall!Schedules
    <3>2. QED
      BY <2>2, <3>1 DEF OnCall!FallbackOf
  <2>7. QED
    BY <1>3, <1>4, <2>1, <2>2, <2>3, <2>4, <2>5, <2>6 DEF OnCallSearching
<1>9. CASE ~(at.root > MaxSchedules) /\ ~(at.next = 0 \/ at.next \in at.visited) /\ at.next \in enabled /\ OnCall!Active(at.next)
  <2>1. f[at] = at.next
    BY <1>9 DEF OnCallSought
  <2>2. QED
    BY <1>3, <1>9, <2>1 DEF OnCallSearching, OnCallRight, OnCallPromised
<1>10. CASE ~(at.root > MaxSchedules) /\ ~(at.next = 0 \/ at.next \in at.visited) /\ ~(at.next \in enabled /\ OnCall!Active(at.next))
  <2> DEFINE q == OnCallOnwards(at)
  <2>1. f[at] = f[q]
    BY <1>10 DEF OnCallSought
  <2>2. /\ q \in OnCallSearches /\ q.root = at.root /\ q.next = OnCall!FallbackOf(at.next) /\ q.visited = at.visited \cup {at.next}
        /\ OnCallAhead(q) < k
    BY <1>3, <1>10, OnCallSearchSteps
  <2> HIDE DEF q
  <2>3. \A v \in q.visited : ~(v \in enabled /\ OnCall!Active(v)) /\ OnCall!FallbackOf(v) \in q.visited \cup {0, q.next}
    BY <1>3, <1>10, <2>2 DEF OnCallSearching
  <2>4. \A s \in enabled : s <= q.root => fallback[s] \in q.visited \cup {0, q.next}
    BY <1>3, <2>2 DEF OnCallSearching
  <2>5. ASSUME q.next # 0 PROVE q.next \in OnCall!Reachable
    <3>1. at.next \in enabled /\ q.next = fallback[at.next] /\ at.next \in OnCall!Reachable
      BY <1>3, <1>10, <2>2, <2>5 DEF OnCall!FallbackOf, OnCallSearching
    <3>2. QED
      BY <1>6, <2>5, <3>1 DEF OnCallFrom
  <2>6. q.root # MaxSchedules + 1
    BY <1>0, <1>5, <1>10, <2>2
  <2>7. QED
    BY <1>3, <1>4, <2>1, <2>2, <2>3, <2>4, <2>5, <2>6 DEF OnCallSearching
<1>11. QED
  BY <1>7, <1>8, <1>9, <1>10

LEMMA OnCallChainIsRight == ASSUME OnCall!TypeOK PROVE OnCallRight(OnCall!FallbackChain)
<1> DEFINE f == CHOOSE g : OnCallSought(g)
           at == [root |-> 0, next |-> 0, visited |-> {}]
<1>1. OnCallSought(f)
  BY OnCallSoughtExists
<1>2. OnCall!FallbackChain = f[at]
  BY DEF OnCall!FallbackChain, OnCallSought, OnCallSearches, OnCallNextRoot, OnCallOnwards
<1>3. MaxSchedules \in Nat \ {0} /\ enabled \in SUBSET OnCall!Schedules
  BY OnCallConstants DEF OnCall!TypeOK
<1>4. at \in OnCallSearches
  BY <1>3 DEF OnCallSearches
<1>5. OnCallSearching(at)
  BY <1>3 DEF OnCallSearching, OnCall!Schedules
<1> HIDE DEF f, at
<1>6. QED
  BY <1>1, <1>2, <1>4, <1>5, OnCallSearchFinds

(* Whoever is paged is on an active schedule, and nobody is paged only     *)
(* when no schedule is active; a step that insists on the fallback gets a  *)
(* schedule others fall back to whenever an active one can be reached,     *)
(* also where fallbacks go in circles (resolveNow, resolveFallbackChain).  *)
THEOREM OnCallResolved == OnCall!Spec => []OnCall!ResolvedAnswers
<1>1. ASSUME OnCall!TypeOK PROVE OnCall!ResolvedAnswers
  <2> DEFINE active == {s \in enabled : OnCall!Active(s)}
             oldest == CHOOSE s \in active : \A t \in active : s <= t
             r == OnCall!FallbackChain
  <2>1. OnCallRight(r)
    BY <1>1, OnCallChainIsRight
  <2>2. OnCallPromised = active \cap OnCall!Reachable
    BY DEF OnCallPromised
  <2>3. active \in SUBSET Nat /\ 0 \notin active
    <3>1. enabled \subseteq 1..MaxSchedules
      BY <1>1 DEF OnCall!TypeOK, OnCall!Schedules
    <3>2. \A s \in 1..MaxSchedules : s \in Nat /\ s # 0
      BY OnCallConstants
    <3>3. QED
      BY <3>1, <3>2
  <2>4. active # {} => oldest \in active
    <3> HIDE DEF active
    <3>1. ASSUME active # {} PROVE \E s \in active : \A t \in active : s <= t
      BY <2>3, <3>1, Least
    <3>2. QED
      BY <3>1
  <2>5. OnCall!ResolveNow(FALSE) = IF active # {} THEN oldest ELSE r
    BY DEF OnCall!ResolveNow
  <2>6. OnCall!ResolveNow(TRUE) = IF r # 0 THEN r ELSE OnCall!ResolveNow(FALSE)
    BY DEF OnCall!ResolveNow
  <2>7. OnCall!ResolvedAnswers <=>
          /\ OnCall!ResolveNow(FALSE) \in IF active = {} THEN {0} ELSE active
          /\ OnCall!ResolveNow(TRUE) \in IF active \cap OnCall!Reachable # {} THEN active \cap OnCall!Reachable ELSE {OnCall!ResolveNow(FALSE)}
    BY DEF OnCall!ResolvedAnswers
  <2> HIDE DEF active, oldest, r
  <2>8. QED
    BY <2>1, <2>2, <2>3, <2>4, <2>5, <2>6, <2>7 DEF OnCallRight
<1>2. QED
  BY <1>1, OnCallTypeCorrect, PTL

-----------------------------------------------------------------------------
(* The turns of an on-call schedule.                                       *)

\* Sets are counted as everywhere.
LEMMA RotationCount ==
  \A S : Rotation!IsFiniteSet(S) = IsFiniteSet(S) /\ Rotation!Cardinality(S) = Cardinality(S)
BY DEF Rotation!IsFiniteSet, IsFiniteSet, Rotation!Cardinality, Cardinality

\* Types.

(* The schedule, its members and overrides keep their types, for any days, *)
(* places and users.                                                       *)
THEOREM RotationTypeCorrect == Rotation!Spec => []Rotation!TypeOK
<1>1. Rotation!Init => Rotation!TypeOK
  BY RotationConstants DEF Rotation!Init, Rotation!TypeOK
<1>2. ASSUME Rotation!TypeOK, [Rotation!Next]_(Rotation!vars) PROVE Rotation!TypeOK'
  <2>1. CASE Rotation!HourPasses
    BY <1>2, <2>1, RotationConstants DEF Rotation!TypeOK, Rotation!HourPasses
  <2>2. CASE \E start \in 0..(Day + 1), hour \in 0..(Day - 1), d \in Turns : Rotation!UpdateSchedule(start, hour, d)
    BY <1>2, <2>2, RotationConstants DEF Rotation!TypeOK, Rotation!UpdateSchedule, Rotation!Edit
  <2>3. CASE \E u \in Users \cup {Rotation!None} : Rotation!OverrideChanges(u)
    BY <1>2, <2>3, RotationConstants DEF Rotation!TypeOK, Rotation!OverrideChanges, Rotation!Edit
  <2>4. CASE \E u \in Users \cup {Rotation!None} : \E o \in 1..Places : Rotation!MemberChanges(o, u)
    BY <1>2, <2>4, RotationConstants DEF Rotation!TypeOK, Rotation!MemberChanges, Rotation!Edit
  <2>5. CASE UNCHANGED Rotation!vars
    BY <1>2, <2>5 DEF Rotation!TypeOK, Rotation!vars
  <2>6. QED
    BY <1>2, <2>1, <2>2, <2>3, <2>4, <2>5 DEF Rotation!Next
<1>3. QED
  BY <1>1, <1>2, PTL DEF Rotation!Spec

\* Turns.

\* Division with remainder: its definition, and what becomes of it from one number to the next.
LEMMA RotationDivided ==
  ASSUME NEW a \in Nat, NEW n \in Nat \ {0}
  PROVE  a = n * (a \div n) + (a % n) /\ a % n \in 0..(n - 1) /\ a \div n \in Nat
OBVIOUS

LEMMA RotationNextQuotient ==
  ASSUME NEW a \in Nat, NEW n \in Nat \ {0}
  PROVE  (a + 1) \div n = IF a % n = n - 1 THEN (a \div n) + 1 ELSE a \div n
OBVIOUS

LEMMA RotationNextRemainder ==
  ASSUME NEW a \in Nat, NEW n \in Nat \ {0}
  PROVE  (a + 1) % n = IF a % n = n - 1 THEN 0 ELSE (a % n) + 1
<1> DEFINE q == a \div n
           r == a % n
           p == (a + 1) \div n
           t == (a + 1) % n
<1>1. a + 1 \in Nat
  OBVIOUS
<1>2. a + 1 = n * p + t /\ t \in 0..(n - 1) /\ p \in Nat
  BY <1>1, RotationDivided
<1>3. a = n * q + r /\ r \in 0..(n - 1) /\ q \in Nat
  BY RotationDivided
<1>4. p = IF r = n - 1 THEN q + 1 ELSE q
  BY RotationNextQuotient
<1> HIDE DEF q, r, p, t
<1>5. n * (q + 1) = n * q + n /\ n * q \in Nat
  BY <1>3
<1>6. n * p = IF r = n - 1 THEN n * q + n ELSE n * q
  BY <1>4, <1>5
<1>7. t = IF r = n - 1 THEN 0 ELSE r + 1
  <2> DEFINE m == n * q
             k == n * p
  <2>1. m \in Nat /\ k = (IF r = n - 1 THEN m + n ELSE m) /\ a + 1 = k + t /\ a = m + r
    BY <1>2, <1>3, <1>5, <1>6
  <2> HIDE DEF m, k
  <2>2. QED
    BY <1>2, <1>3, <2>1
<1>8. QED
  BY <1>7 DEF r, t

LEMMA RotationRest ==
  ASSUME NEW r \in Nat, NEW n \in Nat \ {0}, r < n
  PROVE  r % n = r /\ (r + n) % n = r /\ n % n = 0
OBVIOUS

LEMMA RotationDividedTwice ==
  ASSUME NEW a \in Nat, NEW b \in Nat \ {0}, NEW c \in Nat \ {0}
  PROVE  a \div (c * b) = (a \div b) \div c
OBVIOUS

LEMMA RotationQuotient ==
  ASSUME NEW q \in Nat, NEW r \in Nat, NEW n \in Nat \ {0}, r < n
  PROVE  (q * n + r) \div n = q
OBVIOUS

\* What is left of a day on the clock that is set back.
LEMMA RotationPseudoClock ==
  ASSUME Rotation!TypeOK, NEW t \in Nat
  PROVE  \E x \in 0..(Day - 1) :
           /\ Rotation!PseudoLocal(t) = (t \div Day) * Day + x
           /\ t % Day = handoff => x = 0
           /\ handoff = 0 => x = t % Day
<1>1. Day \in Nat \ {0} /\ handoff \in 0..(Day - 1)
  BY RotationConstants DEF Rotation!TypeOK
<1>2. t % Day \in 0..(Day - 1)
  BY <1>1, RotationDivided
<1> DEFINE y == (t % Day) + Day - handoff
<1>3. y \in Nat /\ (t % Day = handoff => y = Day) /\ (handoff = 0 => y = (t % Day) + Day)
  BY <1>1, <1>2
<1>4. Rotation!PseudoLocal(t) = (t \div Day) * Day + (y % Day)
  BY DEF Rotation!PseudoLocal
<1> HIDE DEF y
<1>5. y % Day \in 0..(Day - 1)
  BY <1>1, <1>3, RotationDivided
<1>6. t % Day = handoff => y % Day = 0
  BY <1>1, <1>3, RotationRest
<1>7. handoff = 0 => y % Day = t % Day
  BY <1>1, <1>2, <1>3, RotationRest
<1>8. QED
  BY <1>4, <1>5, <1>6, <1>7

LEMMA RotationClockTyped == ASSUME Rotation!TypeOK, NEW t \in Nat PROVE Rotation!PseudoLocal(t) \in Nat
<1>1. Day \in Nat \ {0}
  BY RotationConstants
<1>2. PICK x \in 0..(Day - 1) : Rotation!PseudoLocal(t) = (t \div Day) * Day + x
  BY RotationPseudoClock
<1>3. t \div Day \in Nat
  BY <1>1, RotationDivided
<1>4. (t \div Day) * Day \in Nat /\ x \in Nat
  BY <1>1, <1>3
<1>5. QED
  BY <1>2, <1>4

\* The slot of a schedule that starts at its hand-off hour: the days since its start, in turns.
LEMMA RotationSlotOfDay ==
  ASSUME Rotation!TypeOK, startAt % Day = handoff
  PROVE  Rotation!SlotIndex = IF now \div Day > startAt \div Day THEN (now \div Day - startAt \div Day) \div turn ELSE 0
<1> DEFINE q == now \div Day
           s == startAt \div Day
           elapsed == IF Rotation!PseudoLocal(now) > Rotation!PseudoLocal(startAt) THEN Rotation!PseudoLocal(now) - Rotation!PseudoLocal(startAt) ELSE 0
<1>1. Day \in Nat \ {0} /\ turn \in Nat \ {0} /\ now \in Nat /\ startAt \in Nat
  BY RotationConstants DEF Rotation!TypeOK
<1>2. q \in Nat /\ s \in Nat
  BY <1>1, RotationDivided
<1>3. PICK x \in 0..(Day - 1) : Rotation!PseudoLocal(now) = q * Day + x
  BY <1>1, RotationPseudoClock
<1>4. Rotation!PseudoLocal(startAt) = s * Day
  <2>1. PICK y \in 0..(Day - 1) : Rotation!PseudoLocal(startAt) = s * Day + y /\ y = 0
    BY <1>1, RotationPseudoClock
  <2>2. s * Day \in Nat
    BY <1>1, <1>2
  <2>3. QED
    BY <2>1, <2>2
<1>5. Rotation!SlotIndex = elapsed \div (turn * Day)
  BY DEF Rotation!SlotIndex
<1> HIDE DEF q, s
<1>6. elapsed = IF q * Day + x > s * Day THEN (q * Day + x) - s * Day ELSE 0
  BY <1>3, <1>4
<1> HIDE DEF elapsed
<1>7. CASE q > s
  <2>1. q - s \in Nat /\ q * Day - s * Day = (q - s) * Day /\ q * Day \in Nat /\ s * Day \in Nat
    BY <1>1, <1>2, <1>7
  <2>2. (q - s) * Day >= Day
    <3> DEFINE d == q - s
    <3>1. d \in Nat \ {0}
      BY <1>2, <1>7
    <3> HIDE DEF d
    <3>2. d * Day >= Day
      BY <1>1, <3>1
    <3>3. QED
      BY <3>2 DEF d
  <2>3. elapsed = (q - s) * Day + x /\ elapsed \in Nat
    BY <1>1, <1>3, <1>6, <2>1, <2>2
  <2>4. elapsed \div (turn * Day) = (elapsed \div Day) \div turn
    BY <1>1, <2>3, RotationDividedTwice
  <2>5. elapsed \div Day = q - s
    <3> DEFINE d == q - s
    <3>1. d \in Nat /\ elapsed = d * Day + x /\ x \in Nat /\ x < Day
      BY <1>1, <1>3, <2>1, <2>3
    <3>2. d \in Nat
      BY <3>1
    <3> HIDE DEF d
    <3>3. (d * Day + x) \div Day = d
      BY <1>1, <3>1, RotationQuotient
    <3>4. QED
      BY <3>1, <3>3 DEF d
  <2>6. QED
    BY <1>5, <1>7, <2>4, <2>5 DEF q, s
<1>8. CASE ~(q > s)
  <2>1. elapsed \in Nat /\ elapsed < Day
    <3>1. q = s \/ s >= q + 1
      BY <1>2, <1>8
    <3>2. s >= q + 1 => s * Day >= q * Day + Day
      <4>1. ASSUME s >= q + 1 PROVE s * Day >= (q + 1) * Day
        BY <1>1, <1>2, <4>1
      <4>2. (q + 1) * Day = q * Day + Day
        BY <1>1, <1>2
      <4>3. QED
        BY <4>1, <4>2
    <3>3. q * Day \in Nat /\ s * Day \in Nat
      BY <1>1, <1>2
    <3> DEFINE u == q * Day
               v == s * Day
    <3>4. u \in Nat /\ v \in Nat /\ (u = v \/ v >= u + Day) /\ elapsed = IF u + x > v THEN u + x - v ELSE 0
      BY <1>6, <3>1, <3>2, <3>3
    <3> HIDE DEF u, v
    <3>5. QED
      BY <1>1, <1>3, <3>4
  <2>2. elapsed \div Day = 0
    <3>1. (0 * Day + elapsed) \div Day = 0
      BY <1>1, <2>1, RotationQuotient
    <3>2. 0 * Day + elapsed = elapsed
      BY <1>1, <2>1
    <3>3. QED
      BY <3>1, <3>2
  <2>3. elapsed \div (turn * Day) = (elapsed \div Day) \div turn
    BY <1>1, <2>1, RotationDividedTwice
  <2>4. 0 \div turn = 0
    BY <1>1
  <2>5. QED
    BY <1>5, <1>8, <2>2, <2>3, <2>4 DEF q, s
<1>9. QED
  BY <1>7, <1>8

\* The slot without a hand-off hour: the hours since the start, in turns.
LEMMA RotationSlotOfHour ==
  ASSUME Rotation!TypeOK, handoff = 0
  PROVE  Rotation!SlotIndex = (IF now > startAt THEN now - startAt ELSE 0) \div (turn * Day)
<1>1. Day \in Nat \ {0} /\ now \in Nat /\ startAt \in Nat
  BY RotationConstants DEF Rotation!TypeOK
<1>2. ASSUME NEW t \in Nat PROVE Rotation!PseudoLocal(t) = t
  <2>1. Rotation!PseudoLocal(t) = (t \div Day) * Day + (t % Day)
    BY RotationPseudoClock
  <2>2. t = Day * (t \div Day) + (t % Day) /\ t \div Day \in Nat
    BY <1>1, RotationDivided
  <2>3. (t \div Day) * Day = Day * (t \div Day)
    BY <1>1, <2>2
  <2>4. QED
    BY <2>1, <2>2, <2>3
<1>3. QED
  BY <1>1, <1>2 DEF Rotation!SlotIndex

\* Each hour that passes leaves the slot or begins the next one.
LEMMA RotationSlotStep ==
  ASSUME Rotation!TypeOK, Rotation!TypeOK', Rotation!Aligned, now' = now + 1, UNCHANGED <<startAt, handoff, turn>>
  PROVE  Rotation!SlotIndex \in Nat /\ Rotation!SlotIndex' \in {Rotation!SlotIndex, Rotation!SlotIndex + 1}
<1>1. Day \in Nat \ {0} /\ turn \in Nat \ {0} /\ now \in Nat /\ startAt \in Nat
  BY RotationConstants DEF Rotation!TypeOK
<1>2. CASE startAt % Day = handoff
  <2> DEFINE q == now \div Day
             s == startAt \div Day
             p == (now + 1) \div Day
  <2>1. q \in Nat /\ s \in Nat /\ p \in {q, q + 1}
    BY <1>1, RotationDivided, RotationNextQuotient
  <2>2. Rotation!SlotIndex = IF q > s THEN (q - s) \div turn ELSE 0
    BY <1>2, RotationSlotOfDay
  <2>3. Rotation!SlotIndex' = IF p > s THEN (p - s) \div turn ELSE 0
    <3>1. (Rotation!TypeOK /\ startAt % Day = handoff =>
            Rotation!SlotIndex = IF now \div Day > startAt \div Day THEN (now \div Day - startAt \div Day) \div turn ELSE 0)'
      BY RotationSlotOfDay, PTL
    <3>2. startAt' = startAt /\ turn' = turn /\ handoff' = handoff
      OBVIOUS
    <3>3. QED
      BY <1>2, <3>1, <3>2
  <2> HIDE DEF q, s, p
  <2>4. ASSUME NEW d \in Nat PROVE d \div turn \in Nat /\ (d + 1) \div turn \in {d \div turn, (d \div turn) + 1}
    BY <1>1, RotationDivided, RotationNextQuotient
  <2>5. 0 \div turn = 0
    BY <1>1
  <2>6. CASE q > s
    <3>1. q - s \in Nat /\ p - s \in {q - s, (q - s) + 1} /\ p > s
      BY <2>1, <2>6
    <3>2. QED
      BY <2>2, <2>3, <2>4, <2>6, <3>1
  <2>7. CASE ~(q > s)
    <3>1. p > s => p - s = 0 + 1
      BY <2>1, <2>7
    <3>2. (0 + 1) \div turn \in {0, 1}
      BY <2>4, <2>5
    <3>3. QED
      BY <2>2, <2>3, <2>7, <3>1, <3>2
  <2>8. QED
    BY <2>6, <2>7
<1>3. CASE handoff = 0
  <2> DEFINE e == IF now > startAt THEN now - startAt ELSE 0
             f == IF now + 1 > startAt THEN now + 1 - startAt ELSE 0
             n == turn * Day
  <2>1. e \in Nat /\ f \in {e, e + 1} /\ n \in Nat \ {0}
    <3>1. turn * Day \in Nat \ {0}
      BY <1>1
    <3>2. QED
      BY <1>1, <3>1
  <2>2. Rotation!SlotIndex = e \div n
    BY <1>3, RotationSlotOfHour
  <2>3. Rotation!SlotIndex' = f \div n
    <3>1. (Rotation!TypeOK /\ handoff = 0 =>
            Rotation!SlotIndex = (IF now > startAt THEN now - startAt ELSE 0) \div (turn * Day))'
      BY RotationSlotOfHour, PTL
    <3>2. startAt' = startAt /\ turn' = turn /\ handoff' = handoff
      OBVIOUS
    <3>3. Rotation!SlotIndex' = (IF now' > startAt' THEN now' - startAt' ELSE 0) \div (turn' * Day)
      BY <1>3, <3>1, <3>2
    <3>4. QED
      BY <1>1, <3>2, <3>3
  <2> HIDE DEF e, f, n
  <2>4. QED
    BY <2>1, <2>2, <2>3, RotationDivided, RotationNextQuotient
<1>4. QED
  BY <1>2, <1>3 DEF Rotation!Aligned

LEMMA RotationHandsOverStep == ASSUME Rotation!TypeOK, Rotation!TypeOK', Rotation!Next PROVE Rotation!HandsOver
<1> SUFFICES ASSUME Rotation!QuietHour
             PROVE  /\ Rotation!Picked' \in {Rotation!Picked, (Rotation!Picked % Cardinality(Rotation!Orders)) + 1}
                    /\ Rotation!SlotIndex' >= Rotation!SlotIndex
  BY RotationCount DEF Rotation!HandsOver
<1>1. now \in Nat /\ now' = now + 1 /\ Rotation!Aligned /\ Rotation!Orders # {}
  BY RotationConstants DEF Rotation!TypeOK, Rotation!QuietHour
<1>2. Rotation!HourPasses
  BY <1>1 DEF Rotation!Next, Rotation!HourPasses, Rotation!UpdateSchedule, Rotation!OverrideChanges,
     Rotation!MemberChanges
<1>3. UNCHANGED <<startAt, handoff, turn, place>>
  BY <1>2 DEF Rotation!HourPasses
<1>4. Rotation!SlotIndex \in Nat /\ Rotation!SlotIndex' \in {Rotation!SlotIndex, Rotation!SlotIndex + 1}
  BY <1>1, <1>3, RotationSlotStep
<1>5. Rotation!Orders' = Rotation!Orders
  BY <1>3 DEF Rotation!Orders
<1> DEFINE n == Cardinality(Rotation!Orders)
           i == Rotation!SlotIndex
           j == Rotation!SlotIndex'
<1>6. n \in Nat \ {0} /\ Cardinality(Rotation!Orders') = n
  <2>1. IsFiniteSet(1..Places)
    BY RotationConstants, FS_Interval
  <2>2. IsFiniteSet(Rotation!Orders)
    BY <2>1, FS_Subset DEF Rotation!Orders
  <2>3. QED
    BY <1>1, <1>5, <2>2, FS_CardinalityType, FS_EmptySet
<1>7. Rotation!Picked = (i % n) + 1 /\ Rotation!Picked' = (j % n) + 1
  BY <1>5, RotationCount DEF Rotation!Picked
<1>8. i \in Nat /\ j \in {i, i + 1}
  BY <1>4
<1> HIDE DEF n, i, j
<1>9. i % n \in 0..(n - 1)
  BY <1>6, <1>8, RotationDivided
<1>10. (i + 1) % n = IF i % n = n - 1 THEN 0 ELSE (i % n) + 1
  BY <1>6, <1>8, RotationNextRemainder
<1>11. ((i % n) + 1) % n = IF i % n = n - 1 THEN 0 ELSE (i % n) + 1
  <2>1. CASE i % n = n - 1
    <3>1. (i % n) + 1 = n /\ n % n = 0
      BY <1>6, <2>1, RotationRest
    <3>2. QED
      BY <2>1, <3>1
  <2>2. CASE i % n # n - 1
    BY <1>6, <1>9, <2>2, RotationRest
  <2>3. QED
    BY <2>1, <2>2
<1>12. Rotation!Picked' \in {Rotation!Picked, (Rotation!Picked % n) + 1}
  BY <1>7, <1>8, <1>10, <1>11
<1>13. j >= i
  BY <1>8
<1>14. QED
  BY <1>12, <1>13 DEF n, i, j

(* On a schedule that starts at its hand-off hour, an hour that passes     *)
(* leaves the turn with the member who has it or passes it to the next     *)
(* one, and never back (computeSlotIndex, pickUserForTier).                *)
THEOREM RotationTurnsInOrder == Rotation!Spec => Rotation!TurnsPassInOrder
<1>1. Rotation!Spec => []Rotation!TypeOK
  BY RotationTypeCorrect
<1>2. Rotation!TypeOK /\ Rotation!TypeOK' /\ [Rotation!Next]_(Rotation!vars) => [Rotation!HandsOver]_(Rotation!vars)
  BY RotationHandsOverStep
<1>3. QED
  BY <1>1, <1>2, PTL DEF Rotation!Spec, Rotation!TurnsPassInOrder

\* Every place in the order of the members has one.
LEMMA RotationEveryTurnTaken ==
  ASSUME NEW n \in 1..Cardinality(Rotation!Orders)
  PROVE  Rotation!MemberAt(n) # Rotation!None
<1> DEFINE c == Cardinality(Rotation!Orders)
           upto(o) == {p \in Rotation!Orders : p <= o}
           at(o) == Cardinality(upto(o))
<1>1. Rotation!Orders \subseteq Nat /\ IsFiniteSet(Rotation!Orders) /\ c \in Nat
  <2>1. IsFiniteSet(1..Places) /\ Rotation!Orders \subseteq 1..Places
    BY RotationConstants, FS_Interval DEF Rotation!Orders
  <2>2. IsFiniteSet(Rotation!Orders)
    BY <2>1, FS_Subset
  <2>3. QED
    BY <2>1, <2>2, FS_CardinalityType
<1>2. ASSUME NEW o \in Rotation!Orders PROVE at(o) \in 1..c /\ IsFiniteSet(upto(o)) /\ o \in upto(o)
  <2>1. upto(o) \in SUBSET Rotation!Orders /\ o \in upto(o)
    BY <1>1
  <2> HIDE DEF upto
  <2>2. IsFiniteSet(upto(o)) /\ Cardinality(upto(o)) <= c
    BY <1>1, <2>1, FS_Subset
  <2>3. Cardinality(upto(o)) \in Nat /\ Cardinality(upto(o)) # 0
    BY <2>1, <2>2, FS_CardinalityType, FS_EmptySet
  <2>4. QED
    BY <1>1, <2>1, <2>2, <2>3
<1>3. ASSUME NEW o \in Rotation!Orders, NEW p \in Rotation!Orders, o < p PROVE at(o) # at(p)
  <2>0. o \in Nat /\ p \in Nat
    BY <1>1
  <2>1. upto(o) \in SUBSET upto(p) /\ p \notin upto(o)
    <3>1. \A q \in Rotation!Orders : q \in Nat /\ (q <= o => q <= p)
      BY <1>1, <1>3, <2>0
    <3>2. ~(p <= o)
      BY <1>3, <2>0
    <3>3. QED
      BY <3>1, <3>2
  <2> HIDE DEF upto
  <2>2. QED
    BY <1>2, <2>1, FS_Subset
<1> DEFINE f == [o \in Rotation!Orders |-> at(o)]
<1>4. f \in Injection(Rotation!Orders, 1..c)
  <2>1. f \in [Rotation!Orders -> 1..c]
    BY <1>2
  <2>2. ASSUME NEW o \in Rotation!Orders, NEW p \in Rotation!Orders, f[o] = f[p] PROVE o = p
    <3>1. at(o) = at(p)
      BY <2>2
    <3> HIDE DEF at
    <3>2. QED
      BY <1>1, <1>3, <3>1
  <2>3. QED
    BY <2>1, <2>2 DEF Injection, IsInjective
<1>5. f \in Surjection(Rotation!Orders, 1..c)
  <2>1. IsFiniteSet(1..c) /\ Cardinality(1..c) = c
    BY <1>1, FS_Interval
  <2> HIDE DEF f
  <2>2. QED
    BY <1>1, <1>4, <2>1, FS_Injection
<1>6. \E o \in Rotation!Orders : at(o) = n
  BY <1>5 DEF Surjection
<1> HIDE DEF f
<1> DEFINE o == CHOOSE q \in Rotation!Orders : at(q) = n
<1>7. o \in Rotation!Orders
  BY <1>6
<1>8. Rotation!MemberAt(n) = place[o]
  BY RotationCount DEF Rotation!MemberAt
<1> HIDE DEF o
<1>9. QED
  BY <1>7, <1>8 DEF Rotation!Orders

(* Without an override somebody is on call as soon as the tier has an      *)
(* active member (pickUserForTier).                                        *)
THEOREM RotationSomebodyOnCall == Rotation!Spec => []Rotation!SomebodyIsOnCall
<1>1. ASSUME Rotation!TypeOK PROVE Rotation!SomebodyIsOnCall
  <2> SUFFICES ASSUME \E o \in 1..Places : place[o] # Rotation!None, override = Rotation!None
               PROVE  Rotation!MemberAt(Rotation!Picked) # Rotation!None
    BY DEF Rotation!SomebodyIsOnCall, Rotation!OnCallUser, Rotation!Orders
  <2> DEFINE n == Cardinality(Rotation!Orders)
  <2>1. n \in Nat \ {0}
    <3>1. IsFiniteSet(1..Places)
      BY RotationConstants, FS_Interval
    <3>2. IsFiniteSet(Rotation!Orders) /\ Rotation!Orders # {}
      BY <3>1, FS_Subset DEF Rotation!Orders
    <3>3. QED
      BY <3>2, FS_CardinalityType, FS_EmptySet
  <2>2. Rotation!SlotIndex \in Nat
    <3> DEFINE a == Rotation!PseudoLocal(now)
               b == Rotation!PseudoLocal(startAt)
    <3>1. a \in Nat /\ b \in Nat
      BY <1>1, RotationClockTyped DEF Rotation!TypeOK
    <3>2. turn * Day \in Nat \ {0}
      BY <1>1, RotationConstants DEF Rotation!TypeOK
    <3>3. Rotation!SlotIndex = (IF a > b THEN a - b ELSE 0) \div (turn * Day)
      BY DEF Rotation!SlotIndex
    <3> HIDE DEF a, b
    <3> DEFINE e == IF a > b THEN a - b ELSE 0
               k == turn * Day
    <3>4. e \in Nat /\ k \in Nat \ {0} /\ Rotation!SlotIndex = e \div k
      BY <3>1, <3>2, <3>3
    <3> HIDE DEF e, k
    <3>5. QED
      BY <3>4, RotationDivided
  <2>3. Rotation!Picked \in 1..n
    <3> DEFINE r == Rotation!SlotIndex % n
    <3>1. r \in 0..(n - 1) /\ Rotation!Picked = r + 1
      BY <2>1, <2>2, RotationDivided, RotationCount DEF Rotation!Picked
    <3> HIDE DEF r, n
    <3>2. QED
      BY <2>1, <3>1
  <2>4. QED
    BY <2>3, RotationEveryTurnTaken
<1>2. QED
  BY <1>1, RotationTypeCorrect, PTL

-----------------------------------------------------------------------------
(* Edits of an escalation policy.                                          *)

\* Sets are counted as everywhere.
LEMMA PolicyStepsCount ==
  \A S : PolicySteps!IsFiniteSet(S) = IsFiniteSet(S) /\ PolicySteps!Cardinality(S) = Cardinality(S)
BY DEF PolicySteps!IsFiniteSet, IsFiniteSet, PolicySteps!Cardinality, Cardinality

\* A step of the scan h.
PolicyStepsStepOf(h) ==
  \/ \E force \in BOOLEAN : PolicySteps!ScanRead(h, force)
  \/ PolicySteps!ScanLook(h) \/ PolicySteps!ScanRow(h) \/ PolicySteps!CutOff(h)
  \/ \E suppressed \in BOOLEAN : PolicySteps!ScanRoute(h, suppressed)

\* The scans that are about to record the place n, and those that have it still to route.
PolicyStepsRecording(n) == {h \in PolicySteps!Serving("row") : PolicySteps!First(frame[h]) = n}
PolicyStepsAwaiting(n) ==
  {h \in PolicySteps!Serving("route") : n \in DOMAIN frame[h].todo}
  \cup {h \in PolicySteps!Serving("row") : n \in DOMAIN frame[h].todo \ {PolicySteps!First(frame[h])}}

\* A scan between two of its steps has places left to do.
PolicyStepsScanInv ==
  /\ frame = [h \in Handlers |-> frame[h]]
  /\ DOMAIN steps \subseteq Nat
  /\ \A h \in Handlers :
       \/ frame[h] = PolicySteps!Idle
       \/ /\ frame[h] = [op |-> frame[h].op, now |-> frame[h].now, force |-> frame[h].force, todo |-> frame[h].todo]
          /\ frame[h].op \in {"look", "route", "row"}
          /\ DOMAIN frame[h].todo \subseteq Nat
          /\ frame[h].op # "look" => DOMAIN frame[h].todo # {}

\* Until a place has its row, whoever routed it is about to store the row, or was cut off; from
\* then on only the scans that saw it without can still route it.
PolicyStepsRouteInv ==
  /\ routed \in [PolicySteps!StepPlaces -> Nat] /\ cuts \in Nat
  /\ \A n \in PolicySteps!StepPlaces :
       IF n \in DOMAIN done
       THEN routed[n] + Cardinality(PolicyStepsAwaiting(n)) <= Cardinality(Handlers) + cuts
       ELSE routed[n] <= Cardinality(PolicyStepsRecording(n)) + cuts

\* The steps are in the order of their minutes.
PolicyStepsSorted(list) ==
  /\ \E k \in Nat : DOMAIN list = 1..k
  /\ \A n \in DOMAIN list : list[n].after \in Nat
  /\ \A m, n \in DOMAIN list : m <= n => list[m].after <= list[n].after

\* What a scan has to do, t: steps of the policy s at their places, and before each of them only
\* such as are to be done first, or have a row in d.
PolicyStepsInTurn(s, t, d) ==
  \A n \in DOMAIN t :
    /\ n \in DOMAIN s /\ t[n] = s[n]
    /\ \A m \in 1..(n - 1) : s[m].eligible => m \in DOMAIN t \cup DOMAIN d

\* Until the policy is edited, every scan works on its steps, in their order.
PolicyStepsTurnInv ==
  /\ age \in Nat /\ edits \in Nat /\ PolicyStepsSorted(steps)
  /\ edits = 0 => \A h \in Handlers : frame[h] # PolicySteps!Idle => PolicyStepsInTurn(steps, frame[h].todo, done)
  /\ PolicySteps!UneditedRowsInOrder

-----------------------------------------------------------------------------

LEMMA PolicyStepsFirstIsOne ==
  ASSUME NEW f, DOMAIN f.todo \subseteq Nat, DOMAIN f.todo # {}
  PROVE  PolicySteps!First(f) \in DOMAIN f.todo /\ \A n \in DOMAIN f.todo : PolicySteps!First(f) <= n
<1>1. \E x \in DOMAIN f.todo : \A y \in DOMAIN f.todo : x <= y
  BY Least
<1>2. QED
  BY <1>1 DEF PolicySteps!First, PolicySteps!Min

LEMMA PolicyStepsNormalizedPlaces ==
  ASSUME NEW l \in Offered
  PROVE  DOMAIN PolicySteps!Normalized(l) \subseteq Nat
<1>1. PolicySteps!Known(l) \subseteq DOMAIN l
  BY DEF PolicySteps!Known
<1>2. IsFiniteSet(PolicySteps!Known(l))
  BY <1>1, PolicyConstants, FS_Subset
<1>3. Cardinality(PolicySteps!Known(l)) \in Nat
  BY <1>2, FS_CardinalityType
<1>4. DOMAIN PolicySteps!Normalized(l) = 1..Cardinality(PolicySteps!Known(l))
  BY PolicyStepsCount DEF PolicySteps!Normalized
<1>5. QED
  BY <1>3, <1>4

\* Where a step of h takes it: what each does to the frame of h and to the rows.
PolicyStepsReads(h) ==
  /\ frame[h].op = "idle"
  /\ \E t : \E force, minute :
       /\ frame'[h] = [op |-> "look", now |-> minute, force |-> force, todo |-> t]
       /\ DOMAIN t \subseteq DOMAIN steps
  /\ UNCHANGED <<done, routed, cuts>>
PolicyStepsLooks(h) ==
  /\ frame[h].op = "look"
  /\ \/ frame'[h] = PolicySteps!Idle
     \/ \E t :
          /\ frame'[h] = [frame[h] EXCEPT !.op = "route", !.todo = t]
          /\ DOMAIN t \subseteq DOMAIN frame[h].todo /\ DOMAIN t # {}
          /\ DOMAIN t \cap DOMAIN done = {}
  /\ UNCHANGED <<done, routed, cuts>>
PolicyStepsRoutes(h) ==
  /\ frame[h].op = "route"
  /\ frame'[h] = [frame[h] EXCEPT !.op = "row"]
  /\ \/ routed' = routed
     \/ routed' = [routed EXCEPT ![PolicySteps!First(frame[h])] = @ + 1]
  /\ UNCHANGED <<done, cuts>>
PolicyStepsRecords(h) ==
  /\ frame[h].op = "row"
  /\ DOMAIN done' = DOMAIN done \cup {PolicySteps!First(frame[h])}
  /\ \/ frame'[h] = PolicySteps!Idle /\ DOMAIN frame[h].todo \ {PolicySteps!First(frame[h])} = {}
     \/ \E t :
          /\ frame'[h] = [frame[h] EXCEPT !.op = "route", !.todo = t]
          /\ DOMAIN t = DOMAIN frame[h].todo \ {PolicySteps!First(frame[h])} /\ DOMAIN t # {}
  /\ UNCHANGED <<routed, cuts>>
PolicyStepsEnds(h) == frame'[h] = PolicySteps!Idle /\ cuts' = cuts + 1 /\ UNCHANGED <<done, routed>>

LEMMA PolicyStepsTurns ==
  ASSUME PolicyStepsScanInv, NEW h \in Handlers, PolicyStepsStepOf(h)
  PROVE  /\ steps' = steps
         /\ \A g \in Handlers \ {h} : frame'[g] = frame[g]
         /\ frame' = [g \in Handlers |-> frame'[g]]
         /\ PolicyStepsReads(h) \/ PolicyStepsLooks(h) \/ PolicyStepsRoutes(h) \/ PolicyStepsRecords(h) \/ PolicyStepsEnds(h)
<1>0. frame = [g \in Handlers |-> frame[g]]
  BY DEF PolicyStepsScanInv
<1>1. ASSUME NEW f, PolicySteps!GoOn(h, f)
      PROVE  /\ \A g \in Handlers \ {h} : frame'[g] = frame[g]
             /\ frame' = [g \in Handlers |-> frame'[g]]
             /\ frame'[h] = f
  <2>1. frame' = [g \in Handlers |-> IF g = h THEN f ELSE frame[g]]
    BY <1>0, <1>1 DEF PolicySteps!GoOn
  <2>2. QED
    BY <2>1
<1>2. ASSUME NEW left \in SUBSET DOMAIN frame[h].todo, PolicySteps!GoOn(h, PolicySteps!Onward(frame[h], left)), frame[h].op # "idle"
      PROVE  \/ frame'[h] = PolicySteps!Idle /\ left = {}
             \/ \E t : /\ frame'[h] = [frame[h] EXCEPT !.op = "route", !.todo = t]
                       /\ DOMAIN t = left /\ left # {}
  <2>1. frame'[h] = PolicySteps!Onward(frame[h], left)
    BY <1>1, <1>2
  <2>2. CASE left = {}
    BY <2>1, <2>2 DEF PolicySteps!Onward
  <2>3. CASE left # {}
    <3> DEFINE t == PolicySteps!Restrict(frame[h].todo, left)
    <3>1. DOMAIN t = left
      BY DEF PolicySteps!Restrict
    <3>2. frame[h] = [op |-> frame[h].op, now |-> frame[h].now, force |-> frame[h].force, todo |-> frame[h].todo]
      BY <1>2 DEF PolicyStepsScanInv, PolicySteps!Idle
    <3>3. frame'[h] = [frame[h] EXCEPT !.op = "route", !.todo = t]
      BY <2>1, <2>3, <3>2 DEF PolicySteps!Onward
    <3> HIDE DEF t
    <3>4. QED
      BY <2>3, <3>1, <3>3
  <2>4. QED
    BY <2>2, <2>3
<1>3. ASSUME NEW force \in BOOLEAN, PolicySteps!ScanRead(h, force)
      PROVE  /\ \A g \in Handlers \ {h} : frame'[g] = frame[g]
             /\ frame' = [g \in Handlers |-> frame'[g]]
             /\ PolicyStepsReads(h) /\ steps' = steps
  <2> DEFINE due == {n \in DOMAIN steps :
                       steps[n].eligible /\ (force \/ (age >= steps[n].after /\ age >= Sla))}
             t == PolicySteps!Restrict(steps, due)
  <2>1. DOMAIN t = due
    BY DEF PolicySteps!Restrict
  <2>2. due \subseteq DOMAIN steps
    OBVIOUS
  <2>3. /\ PolicySteps!Serve(h, [op |-> "look", now |-> age, force |-> force, todo |-> t])
        /\ UNCHANGED <<steps, done, routed, cuts>>
    BY <1>3 DEF PolicySteps!ScanRead
  <2> HIDE DEF due, t
  <2>4. /\ frame[h].op = "idle"
        /\ PolicySteps!GoOn(h, [op |-> "look", now |-> age, force |-> force, todo |-> t])
    <3>1. PolicySteps!Idle.op = "idle"
      BY DEF PolicySteps!Idle
    <3>2. QED
      BY <2>3, <3>1 DEF PolicySteps!Serve, PolicySteps!GoOn
  <2>5. QED
    BY <1>1, <2>1, <2>2, <2>3, <2>4 DEF PolicyStepsReads
<1>4. CASE \E force \in BOOLEAN : PolicySteps!ScanRead(h, force)
  BY <1>3, <1>4
<1>5. CASE PolicySteps!ScanLook(h)
  <2> DEFINE recent == ~frame[h].force /\ \E n \in DOMAIN done : frame[h].now < done[n].at + Cooldown
             left == IF recent THEN {} ELSE DOMAIN frame[h].todo \ DOMAIN done
  <2>1. /\ frame[h].op = "look" /\ PolicySteps!GoOn(h, PolicySteps!Onward(frame[h], left))
        /\ UNCHANGED <<steps, done, routed, cuts>>
    BY <1>5 DEF PolicySteps!ScanLook, PolicySteps!At
  <2>2. left \in SUBSET DOMAIN frame[h].todo /\ left \cap DOMAIN done = {}
    OBVIOUS
  <2> HIDE DEF left
  <2>3. QED
    <3>1. \/ frame'[h] = PolicySteps!Idle /\ left = {}
          \/ \E t : /\ frame'[h] = [frame[h] EXCEPT !.op = "route", !.todo = t]
                    /\ DOMAIN t = left /\ left # {}
      BY <1>2, <2>1, <2>2
    <3>2. PolicyStepsLooks(h)
      BY <2>1, <2>2, <3>1 DEF PolicyStepsLooks
    <3>3. QED
      BY <1>1, <2>1, <3>2
<1>6. CASE PolicySteps!ScanRow(h)
  <2> DEFINE first == PolicySteps!First(frame[h])
             left == DOMAIN frame[h].todo \ {first}
  <2>1. /\ frame[h].op = "row" /\ PolicySteps!GoOn(h, PolicySteps!Onward(frame[h], left))
        /\ UNCHANGED <<steps, routed, cuts>>
    BY <1>6 DEF PolicySteps!ScanRow, PolicySteps!At
  <2>2. DOMAIN done' = DOMAIN done \cup {first}
    BY <1>6 DEF PolicySteps!ScanRow
  <2>3. left \in SUBSET DOMAIN frame[h].todo
    OBVIOUS
  <2>4. /\ \A g \in Handlers \ {h} : frame'[g] = frame[g]
        /\ frame' = [g \in Handlers |-> frame'[g]]
    BY <1>1, <2>1
  <2>5. \/ frame'[h] = PolicySteps!Idle /\ left = {}
        \/ \E t : /\ frame'[h] = [frame[h] EXCEPT !.op = "route", !.todo = t]
                  /\ DOMAIN t = left /\ left # {}
    BY <1>2, <2>1, <2>3
  <2>6. QED
    BY <2>1, <2>2, <2>4, <2>5 DEF PolicyStepsRecords
<1>7. CASE PolicySteps!CutOff(h)
  BY <1>1, <1>7 DEF PolicySteps!CutOff, PolicySteps!Drop, PolicySteps!Finish, PolicyStepsEnds
<1>8. CASE \E suppressed \in BOOLEAN : PolicySteps!ScanRoute(h, suppressed)
  BY <1>1, <1>8 DEF PolicySteps!ScanRoute, PolicySteps!At, PolicyStepsRoutes
<1>9. QED
  BY <1>4, <1>5, <1>6, <1>7, <1>8 DEF PolicyStepsStepOf

LEMMA PolicyStepsScanStep == ASSUME PolicyStepsScanInv, [PolicySteps!Next]_(PolicySteps!vars)
                             PROVE  PolicyStepsScanInv'
<1> DEFINE Ok(f, s) ==
      \/ f = PolicySteps!Idle
      \/ /\ f = [op |-> f.op, now |-> f.now, force |-> f.force, todo |-> f.todo]
         /\ f.op \in {"look", "route", "row"}
         /\ DOMAIN f.todo \subseteq Nat
         /\ f.op # "look" => DOMAIN f.todo # {}
<1>1. ASSUME NEW h \in Handlers, PolicyStepsStepOf(h) PROVE PolicyStepsScanInv'
  <2>1. /\ steps' = steps /\ DOMAIN steps \subseteq Nat
        /\ \A g \in Handlers \ {h} : frame'[g] = frame[g]
        /\ frame' = [g \in Handlers |-> frame'[g]]
    BY <1>1, PolicyStepsTurns DEF PolicyStepsScanInv
  <2>2. Ok(frame[h], steps)
    BY DEF PolicyStepsScanInv
  <2>3. ASSUME NEW t, NEW minute, NEW force, DOMAIN t \subseteq Nat,
               frame'[h] = [op |-> "look", now |-> minute, force |-> force, todo |-> t]
        PROVE  Ok(frame'[h], steps)
    BY <2>3
  <2>4. ASSUME NEW t, DOMAIN t \subseteq Nat, DOMAIN t # {}, frame[h].op # "idle",
               frame'[h] = [frame[h] EXCEPT !.op = "route", !.todo = t]
        PROVE  Ok(frame'[h], steps)
    <3>1. frame[h] = [op |-> frame[h].op, now |-> frame[h].now, force |-> frame[h].force, todo |-> frame[h].todo]
      BY <2>2, <2>4 DEF PolicySteps!Idle
    <3>2. frame'[h] = [op |-> "route", now |-> frame[h].now, force |-> frame[h].force, todo |-> t]
      BY <2>4, <3>1
    <3>3. QED
      BY <2>4, <3>2
  <2>5. ASSUME frame[h].op = "route", frame'[h] = [frame[h] EXCEPT !.op = "row"]
        PROVE  Ok(frame'[h], steps)
    <3>1. /\ frame[h] = [op |-> frame[h].op, now |-> frame[h].now, force |-> frame[h].force, todo |-> frame[h].todo]
          /\ DOMAIN frame[h].todo \subseteq Nat /\ DOMAIN frame[h].todo # {}
      BY <2>2, <2>5 DEF PolicySteps!Idle
    <3>2. frame'[h] = [op |-> "row", now |-> frame[h].now, force |-> frame[h].force, todo |-> frame[h].todo]
      BY <2>5, <3>1
    <3>3. QED
      BY <3>1, <3>2
  <2>6. frame[h].op # "idle" => DOMAIN frame[h].todo \subseteq Nat
    BY <2>2 DEF PolicySteps!Idle
  <2>7. Ok(frame'[h], steps)
    <3>1. frame'[h] = PolicySteps!Idle => Ok(frame'[h], steps)
      OBVIOUS
    <3> HIDE DEF Ok
    <3>2. CASE PolicyStepsReads(h)
      BY <2>1, <2>3, <3>2 DEF PolicyStepsReads
    <3>3. CASE PolicyStepsLooks(h)
      BY <2>4, <2>6, <3>1, <3>3 DEF PolicyStepsLooks
    <3>4. CASE PolicyStepsRoutes(h)
      BY <2>5, <3>4 DEF PolicyStepsRoutes
    <3>5. CASE PolicyStepsRecords(h)
      BY <2>4, <2>6, <3>1, <3>5 DEF PolicyStepsRecords
    <3>6. CASE PolicyStepsEnds(h)
      BY <3>1, <3>6 DEF PolicyStepsEnds
    <3>7. QED
      BY <1>1, <3>2, <3>3, <3>4, <3>5, <3>6, PolicyStepsTurns
  <2>8. \A g \in Handlers : Ok(frame'[g], steps)
    <3>1. \A g \in Handlers : Ok(frame[g], steps)
      BY DEF PolicyStepsScanInv
    <3> HIDE DEF Ok
    <3>2. QED
      BY <2>1, <2>7, <3>1
  <2>9. QED
    BY <2>1, <2>8 DEF PolicyStepsScanInv
<1>2. CASE \E l \in Offered : PolicySteps!Edit(l)
  <2>1. PICK l \in Offered : PolicySteps!Edit(l)
    BY <1>2
  <2>2. steps' = PolicySteps!Normalized(l) /\ frame' = frame
    BY <2>1 DEF PolicySteps!Edit
  <2>3. DOMAIN steps' \subseteq Nat
    BY <2>2, PolicyStepsNormalizedPlaces
  <2>4. QED
    BY <2>2, <2>3 DEF PolicyStepsScanInv
<1>3. CASE PolicySteps!MinutePasses \/ UNCHANGED PolicySteps!vars
  BY <1>3 DEF PolicySteps!MinutePasses, PolicySteps!vars, PolicyStepsScanInv
<1>4. QED
  BY <1>1, <1>2, <1>3 DEF PolicySteps!Next, PolicyStepsStepOf

\* What a step of h does to the place n.
LEMMA PolicyStepsRouteCases ==
  ASSUME PolicyStepsScanInv, routed \in [PolicySteps!StepPlaces -> Nat], NEW h \in Handlers, PolicyStepsStepOf(h), NEW n \in PolicySteps!StepPlaces
  PROVE  /\ routed'[n] \in Nat
         /\ \/ /\ n \notin DOMAIN done /\ n \notin DOMAIN done'
               /\ (h \in PolicyStepsRecording(n) <=> h \in PolicyStepsRecording(n)')
               /\ routed'[n] = routed[n] /\ cuts' = cuts
            \/ /\ n \notin DOMAIN done /\ n \notin DOMAIN done'
               /\ h \notin PolicyStepsRecording(n) /\ h \in PolicyStepsRecording(n)'
               /\ routed'[n] <= routed[n] + 1 /\ cuts' = cuts
            \/ /\ n \notin DOMAIN done /\ n \in DOMAIN done'
               /\ h \notin PolicyStepsAwaiting(n) /\ h \notin PolicyStepsAwaiting(n)'
               /\ routed'[n] = routed[n] /\ cuts' = cuts
            \/ /\ n \in DOMAIN done /\ n \in DOMAIN done'
               /\ h \in PolicyStepsAwaiting(n)' => h \in PolicyStepsAwaiting(n)
               /\ routed'[n] = routed[n] /\ cuts' = cuts
            \/ /\ n \in DOMAIN done /\ n \in DOMAIN done'
               /\ h \in PolicyStepsAwaiting(n) /\ h \notin PolicyStepsAwaiting(n)'
               /\ routed'[n] <= routed[n] + 1 /\ cuts' = cuts
            \/ /\ (n \in DOMAIN done <=> n \in DOMAIN done')
               /\ h \notin PolicyStepsAwaiting(n)' /\ h \notin PolicyStepsRecording(n)'
               /\ routed'[n] = routed[n] /\ cuts' = cuts + 1
<1>0. PolicySteps!Idle.op = "idle"
  BY DEF PolicySteps!Idle
<1>1. /\ h \in PolicyStepsRecording(n) <=> frame[h].op = "row" /\ PolicySteps!First(frame[h]) = n
      /\ h \in PolicyStepsRecording(n)' <=> frame'[h].op = "row" /\ PolicySteps!First(frame'[h]) = n
  BY DEF PolicyStepsRecording, PolicySteps!Serving, PolicySteps!At, PolicySteps!First
<1>2. /\ h \in PolicyStepsAwaiting(n) <=> \/ frame[h].op = "route" /\ n \in DOMAIN frame[h].todo
                                          \/ frame[h].op = "row" /\ n \in DOMAIN frame[h].todo \ {PolicySteps!First(frame[h])}
      /\ h \in PolicyStepsAwaiting(n)' <=> \/ frame'[h].op = "route" /\ n \in DOMAIN frame'[h].todo
                                           \/ frame'[h].op = "row" /\ n \in DOMAIN frame'[h].todo \ {PolicySteps!First(frame'[h])}
  BY DEF PolicyStepsAwaiting, PolicySteps!Serving, PolicySteps!At, PolicySteps!First
<1>3. routed[n] \in Nat
  OBVIOUS
<1>4. frame[h].op # "idle" =>
        /\ frame[h] = [op |-> frame[h].op, now |-> frame[h].now, force |-> frame[h].force, todo |-> frame[h].todo]
        /\ frame[h].op # "look" => PolicySteps!First(frame[h]) \in DOMAIN frame[h].todo
  BY PolicyStepsFirstIsOne DEF PolicyStepsScanInv, PolicySteps!Idle
<1>5. ASSUME NEW t, frame'[h] = [frame[h] EXCEPT !.op = "route", !.todo = t], frame[h].op # "idle"
      PROVE  frame'[h].op = "route" /\ frame'[h].todo = t
  <2>1. frame'[h] = [op |-> "route", now |-> frame[h].now, force |-> frame[h].force, todo |-> t]
    BY <1>4, <1>5
  <2>2. QED
    BY <2>1
<1>6. CASE PolicyStepsReads(h)
  <2>1. frame'[h].op = "look"
    BY <1>6 DEF PolicyStepsReads
  <2>2. QED
    BY <1>1, <1>2, <1>3, <1>6, <2>1 DEF PolicyStepsReads
<1>7. CASE PolicyStepsLooks(h)
  <2>1. frame'[h].op = "idle" \/ (frame'[h].op = "route" /\ DOMAIN frame'[h].todo \cap DOMAIN done = {})
    BY <1>0, <1>5, <1>7 DEF PolicyStepsLooks
  <2>2. QED
    BY <1>1, <1>2, <1>3, <1>7, <2>1 DEF PolicyStepsLooks
<1>8. CASE PolicyStepsRoutes(h)
  <2>1. frame'[h].op = "row" /\ frame'[h].todo = frame[h].todo
    <3>1. frame'[h] = [op |-> "row", now |-> frame[h].now, force |-> frame[h].force, todo |-> frame[h].todo]
      BY <1>4, <1>8 DEF PolicyStepsRoutes
    <3>2. QED
      BY <3>1
  <2>2. PolicySteps!First(frame'[h]) = PolicySteps!First(frame[h]) /\ PolicySteps!First(frame[h]) \in DOMAIN frame[h].todo
    BY <1>4, <1>8, <2>1 DEF PolicySteps!First, PolicyStepsRoutes
  <2>3. /\ routed'[n] \in Nat
        /\ routed'[n] = routed[n] \/ (n = PolicySteps!First(frame[h]) /\ routed'[n] = routed[n] + 1)
    BY <1>3, <1>8 DEF PolicyStepsRoutes
  <2>4. h \notin PolicyStepsRecording(n) /\ (h \in PolicyStepsRecording(n)' <=> n = PolicySteps!First(frame[h]))
    BY <1>1, <1>8, <2>1, <2>2 DEF PolicyStepsRoutes
  <2>5. /\ h \in PolicyStepsAwaiting(n) <=> n \in DOMAIN frame[h].todo
        /\ h \in PolicyStepsAwaiting(n)' <=> n \in DOMAIN frame[h].todo \ {PolicySteps!First(frame[h])}
    BY <1>2, <1>8, <2>1, <2>2 DEF PolicyStepsRoutes
  <2>6. done' = done /\ cuts' = cuts
    BY <1>8 DEF PolicyStepsRoutes
  <2> DEFINE x == routed[n]
             y == routed'[n]
  <2>7. x \in Nat /\ y \in Nat /\ (y = x \/ (n = PolicySteps!First(frame[h]) /\ y = x + 1))
    BY <1>3, <2>3
  <2> HIDE DEF x, y
  <2>8. y <= x + 1
    BY <2>7
  <2>9. QED
    BY <2>2, <2>4, <2>5, <2>6, <2>7, <2>8 DEF x, y
<1>9. CASE PolicyStepsRecords(h)
  <2>1. \/ frame'[h].op = "idle" /\ DOMAIN frame[h].todo \ {PolicySteps!First(frame[h])} = {}
        \/ frame'[h].op = "route" /\ DOMAIN frame'[h].todo = DOMAIN frame[h].todo \ {PolicySteps!First(frame[h])}
    BY <1>0, <1>5, <1>9 DEF PolicyStepsRecords
  <2>2. h \notin PolicyStepsRecording(n)' /\ (h \in PolicyStepsRecording(n) <=> n = PolicySteps!First(frame[h]))
    BY <1>1, <1>9, <2>1 DEF PolicyStepsRecords
  <2>3. /\ h \in PolicyStepsAwaiting(n) <=> n \in DOMAIN frame[h].todo \ {PolicySteps!First(frame[h])}
        /\ h \in PolicyStepsAwaiting(n)' <=> n \in DOMAIN frame[h].todo \ {PolicySteps!First(frame[h])}
    BY <1>2, <1>9, <2>1 DEF PolicyStepsRecords
  <2>4. routed' = routed /\ cuts' = cuts
    BY <1>9 DEF PolicyStepsRecords
  <2>5. QED
    BY <1>3, <1>9, <2>2, <2>3, <2>4 DEF PolicyStepsRecords
<1>10. CASE PolicyStepsEnds(h)
  BY <1>0, <1>1, <1>2, <1>3, <1>10 DEF PolicyStepsEnds
<1>11. QED
  BY <1>6, <1>7, <1>8, <1>9, <1>10, PolicyStepsTurns

LEMMA PolicyStepsRouteStep == ASSUME PolicyStepsScanInv, PolicyStepsRouteInv, [PolicySteps!Next]_(PolicySteps!vars)
                              PROVE  PolicyStepsRouteInv'
<1>1. ASSUME NEW h \in Handlers, PolicyStepsStepOf(h) PROVE PolicyStepsRouteInv'
  <2>1. \A g \in Handlers \ {h} : frame'[g] = frame[g]
    BY <1>1, PolicyStepsTurns
  <2>2. routed' \in [PolicySteps!StepPlaces -> Nat] /\ cuts' \in Nat
    <3>1. routed \in [PolicySteps!StepPlaces -> Nat] /\ cuts \in Nat
      BY DEF PolicyStepsRouteInv
    <3>2. /\ cuts' = cuts \/ cuts' = cuts + 1
          /\ routed' = routed \/ routed' = [routed EXCEPT ![PolicySteps!First(frame[h])] = @ + 1]
      BY <1>1, PolicyStepsTurns DEF PolicyStepsReads, PolicyStepsLooks, PolicyStepsRoutes,
         PolicyStepsRecords, PolicyStepsEnds
    <3>3. QED
      BY <3>1, <3>2
  <2>3. ASSUME NEW n \in PolicySteps!StepPlaces
        PROVE  IF n \in DOMAIN done'
               THEN routed'[n] + Cardinality(PolicyStepsAwaiting(n)') <= Cardinality(Handlers) + cuts'
               ELSE routed'[n] <= Cardinality(PolicyStepsRecording(n)') + cuts'
    <3> DEFINE A == PolicyStepsAwaiting(n)
               B == PolicyStepsAwaiting(n)'
               C == PolicyStepsRecording(n)
               D == PolicyStepsRecording(n)'
               m == Cardinality(Handlers)
               x == routed[n]
               y == routed'[n]
               p == n \in DOMAIN done
               q == n \in DOMAIN done'
    <3>1. /\ A \in SUBSET Handlers /\ B \in SUBSET Handlers /\ B \ {h} = A \ {h}
          /\ C \in SUBSET Handlers /\ D \in SUBSET Handlers /\ D \ {h} = C \ {h}
          /\ A \cap C = {}
      BY <2>1 DEF PolicyStepsAwaiting, PolicyStepsRecording, PolicySteps!Serving, PolicySteps!At,
         PolicySteps!First
    <3>2. x \in Nat /\ y \in Nat /\ cuts \in Nat /\ cuts' \in Nat
      BY <2>2 DEF PolicyStepsRouteInv
    <3>3. IF p THEN x + Cardinality(A) <= m + cuts ELSE x <= Cardinality(C) + cuts
      BY DEF PolicyStepsRouteInv
    <3>4. \/ ~p /\ ~q /\ (h \in C <=> h \in D) /\ y = x /\ cuts' = cuts
          \/ ~p /\ ~q /\ h \notin C /\ h \in D /\ y <= x + 1 /\ cuts' = cuts
          \/ ~p /\ q /\ h \notin A /\ h \notin B /\ y = x /\ cuts' = cuts
          \/ p /\ q /\ (h \in B => h \in A) /\ y = x /\ cuts' = cuts
          \/ p /\ q /\ h \in A /\ h \notin B /\ y <= x + 1 /\ cuts' = cuts
          \/ (p <=> q) /\ h \notin B /\ h \notin D /\ y = x /\ cuts' = cuts + 1
      <4>1. routed \in [PolicySteps!StepPlaces -> Nat]
        BY DEF PolicyStepsRouteInv
      <4> HIDE DEF A, B, C, D, x, y, p, q
      <4>2. QED
        BY <1>1, <4>1, PolicyStepsRouteCases DEF A, B, C, D, x, y, p, q
    <3> HIDE DEF A, B, C, D, m, x, y, p, q
    <3>5. /\ Cardinality(A) \in Nat /\ Cardinality(B) \in Nat /\ Cardinality(C) \in Nat /\ Cardinality(D) \in Nat
          /\ m \in Nat
      BY <3>1, SomeCounted, HandlersCounted DEF m
    <3>6. /\ h \notin B => Cardinality(B) <= Cardinality(A)
          /\ h \in A /\ h \notin B => Cardinality(B) = Cardinality(A) - 1
          /\ (h \in A <=> h \in B) => B = A
      BY <3>1, OneMoves
    <3>7. /\ h \notin D => Cardinality(D) <= Cardinality(C)
          /\ h \in C /\ h \notin D => Cardinality(D) = Cardinality(C) - 1
          /\ h \notin C /\ h \in D => Cardinality(D) = Cardinality(C) + 1
          /\ (h \in C <=> h \in D) => D = C
      BY <3>1, OneMoves
    <3>8. Cardinality(A) + Cardinality(C) <= m
      BY <3>1, ApartFit DEF m
    <3>9. h \in C /\ h \notin D => Cardinality(C) = Cardinality(D) + 1
      BY <3>5, <3>7
    <3>10. IF q THEN y + Cardinality(B) <= m + cuts' ELSE y <= Cardinality(D) + cuts'
      <4>1. CASE ~p /\ ~q /\ (h \in C <=> h \in D) /\ y = x /\ cuts' = cuts
        BY <3>2, <3>3, <3>5, <3>7, <4>1
      <4>2. CASE ~p /\ ~q /\ h \notin C /\ h \in D /\ y <= x + 1 /\ cuts' = cuts
        BY <3>2, <3>3, <3>5, <3>7, <4>2
      <4>3. CASE ~p /\ q /\ h \notin A /\ h \notin B /\ y = x /\ cuts' = cuts
        BY <3>2, <3>3, <3>5, <3>6, <3>8, <4>3
      <4>4. CASE p /\ q /\ (h \in B => h \in A) /\ y = x /\ cuts' = cuts
        <5>1. Cardinality(B) <= Cardinality(A)
          BY <3>5, <3>6, <4>4
        <5>2. QED
          BY <3>2, <3>3, <3>5, <4>4, <5>1
      <4>5. CASE p /\ q /\ h \in A /\ h \notin B /\ y <= x + 1 /\ cuts' = cuts
        BY <3>2, <3>3, <3>5, <3>6, <4>5
      <4>6. CASE (p <=> q) /\ h \notin B /\ h \notin D /\ y = x /\ cuts' = cuts + 1
        <5>1. CASE p
          BY <3>2, <3>3, <3>5, <3>6, <4>6, <5>1
        <5>2. CASE ~p
          <6>1. Cardinality(C) <= Cardinality(D) + 1
            BY <3>5, <3>7, <3>9, <4>6
          <6>2. QED
            BY <3>2, <3>3, <3>5, <4>6, <5>2, <6>1
        <5>3. QED
          BY <5>1, <5>2
      <4>7. QED
        BY <3>4, <4>1, <4>2, <4>3, <4>4, <4>5, <4>6
    <3>11. QED
      BY <3>10 DEF q, y, m, B, D
  <2>4. QED
    BY <2>2, <2>3 DEF PolicyStepsRouteInv
<1>2. CASE (\E l \in Offered : PolicySteps!Edit(l)) \/ PolicySteps!MinutePasses \/ UNCHANGED PolicySteps!vars
  <2>1. UNCHANGED <<frame, done, routed, cuts>>
    BY <1>2 DEF PolicySteps!Edit, PolicySteps!MinutePasses, PolicySteps!vars
  <2>2. \A n : PolicyStepsAwaiting(n)' = PolicyStepsAwaiting(n) /\ PolicyStepsRecording(n)' = PolicyStepsRecording(n)
    BY <2>1 DEF PolicyStepsAwaiting, PolicyStepsRecording, PolicySteps!Serving, PolicySteps!At,
       PolicySteps!First
  <2>3. QED
    BY <2>1, <2>2 DEF PolicyStepsRouteInv
<1>3. QED
  BY <1>1, <1>2 DEF PolicySteps!Next, PolicyStepsStepOf

(* However the policy is edited while the alert is open, no place in it is *)
(* routed more often than there are scans that overlap or are cut off      *)
(* (updateEscalationPolicy, runEscalationScanForOrg).                      *)
THEOREM PolicyStepsPlaceRoutings == PolicySteps!Spec => []PolicySteps!PlaceRoutingsBounded
<1>1. ASSUME PolicySteps!Init PROVE PolicyStepsScanInv /\ PolicyStepsRouteInv
  <2>1. frame = [h \in Handlers |-> PolicySteps!Idle] /\ routed = [n \in PolicySteps!StepPlaces |-> 0] /\ cuts = 0 /\ DOMAIN done = {}
    BY <1>1 DEF PolicySteps!Init, PolicySteps!ServerInit
  <2>2. DOMAIN steps \subseteq Nat
    BY <1>1, PolicyStepsNormalizedPlaces DEF PolicySteps!Init
  <2>3. \A n \in PolicySteps!StepPlaces : Cardinality(PolicyStepsRecording(n)) \in Nat
    <3>1. ASSUME NEW n \in PolicySteps!StepPlaces PROVE PolicyStepsRecording(n) \in SUBSET Handlers
      BY DEF PolicyStepsRecording, PolicySteps!Serving
    <3>2. QED
      BY <3>1, SomeCounted
  <2>4. \A n \in PolicySteps!StepPlaces : routed[n] <= Cardinality(PolicyStepsRecording(n)) + cuts
    BY <2>1, <2>3
  <2>5. QED
    BY <2>1, <2>2, <2>4 DEF PolicyStepsScanInv, PolicyStepsRouteInv
<1>2. ASSUME PolicyStepsRouteInv PROVE PolicySteps!PlaceRoutingsBounded
  <2>1. ASSUME NEW n \in PolicySteps!StepPlaces PROVE routed[n] <= Cardinality(Handlers) + cuts
    <3>1. PolicyStepsAwaiting(n) \in SUBSET Handlers /\ PolicyStepsRecording(n) \in SUBSET Handlers
      BY DEF PolicyStepsAwaiting, PolicyStepsRecording, PolicySteps!Serving
    <3> DEFINE a == Cardinality(PolicyStepsAwaiting(n))
               b == Cardinality(PolicyStepsRecording(n))
               m == Cardinality(Handlers)
               x == routed[n]
    <3>2. a \in Nat /\ b \in Nat /\ b <= m /\ m \in Nat
      BY <3>1, SomeCounted, HandlersCounted
    <3>3. x \in Nat /\ cuts \in Nat /\ (x + a <= m + cuts \/ x <= b + cuts)
      BY <1>2 DEF PolicyStepsRouteInv
    <3> HIDE DEF a, b, m, x
    <3>4. x <= m + cuts
      BY <3>2, <3>3
    <3>5. QED
      BY <3>4 DEF x, m
  <2>2. QED
    BY <2>1, PolicyStepsCount DEF PolicySteps!PlaceRoutingsBounded
<1>3. QED
  BY <1>1, <1>2, PolicyStepsScanStep, PolicyStepsRouteStep, PTL DEF PolicySteps!Spec

\* The order of the steps.

\* Counting the entries up to one numbers them in their order.
LEMMA PolicyStepsNormalizedInOrder ==
  ASSUME NEW l \in Offered
  PROVE  /\ PolicyStepsSorted(PolicySteps!Normalized(l)) /\ DOMAIN PolicySteps!Normalized(l) = 1..Cardinality(PolicySteps!Known(l))
         /\ \A n \in DOMAIN PolicySteps!Normalized(l) :
              \E i \in PolicySteps!Known(l) : PolicySteps!Normalized(l)[n] = [l[i] EXCEPT !.after = PolicySteps!After(l, i)]
<1> DEFINE c == Cardinality(PolicySteps!Known(l))
           upto(i) == {j \in PolicySteps!Known(l) : \/ PolicySteps!After(l, j) < PolicySteps!After(l, i)
                                                    \/ PolicySteps!After(l, j) = PolicySteps!After(l, i) /\ j <= i}
<1>1. PolicySteps!Known(l) \subseteq Nat /\ IsFiniteSet(PolicySteps!Known(l)) /\ c \in Nat
  <2>1. PolicySteps!Known(l) \subseteq DOMAIN l
    BY DEF PolicySteps!Known
  <2>2. IsFiniteSet(PolicySteps!Known(l))
    BY <2>1, PolicyConstants, FS_Subset
  <2>3. QED
    BY <2>1, <2>2, PolicyConstants, FS_CardinalityType
<1>2. \A i \in PolicySteps!Known(l) : PolicySteps!After(l, i) \in Nat /\ l[i] \in [after : Nat, route : STRING, eligible : BOOLEAN]
  BY PolicyConstants DEF PolicySteps!Known, PolicySteps!After
<1>3. ASSUME NEW i \in PolicySteps!Known(l)
      PROVE  /\ PolicySteps!Place(l, i) = Cardinality(upto(i)) /\ PolicySteps!Place(l, i) \in 1..c
             /\ IsFiniteSet(upto(i)) /\ i \in upto(i)
  <2>1. PolicySteps!Place(l, i) = Cardinality(upto(i))
    BY PolicyStepsCount DEF PolicySteps!Place
  <2>2. upto(i) \in SUBSET PolicySteps!Known(l) /\ i \in upto(i)
    BY <1>1, <1>2
  <2> HIDE DEF upto
  <2>3. IsFiniteSet(upto(i)) /\ Cardinality(upto(i)) <= c
    BY <1>1, <2>2, FS_Subset
  <2>4. Cardinality(upto(i)) \in Nat /\ Cardinality(upto(i)) # 0
    BY <2>2, <2>3, FS_CardinalityType, FS_EmptySet
  <2>5. QED
    BY <1>1, <2>1, <2>2, <2>3, <2>4
<1>4. ASSUME NEW i \in PolicySteps!Known(l), NEW k \in PolicySteps!Known(l),
             PolicySteps!After(l, i) < PolicySteps!After(l, k) \/ (PolicySteps!After(l, i) = PolicySteps!After(l, k) /\ i < k)
      PROVE  PolicySteps!Place(l, i) < PolicySteps!Place(l, k)
  <2>1. i \in Nat /\ k \in Nat /\ PolicySteps!After(l, i) \in Nat /\ PolicySteps!After(l, k) \in Nat
    BY <1>1, <1>2
  <2>2. upto(i) \in SUBSET upto(k)
    <3>1. ASSUME NEW j \in upto(i) PROVE j \in upto(k)
      <4>1. /\ j \in PolicySteps!Known(l) /\ j \in Nat /\ PolicySteps!After(l, j) \in Nat
            /\ PolicySteps!After(l, j) < PolicySteps!After(l, i) \/ (PolicySteps!After(l, j) = PolicySteps!After(l, i) /\ j <= i)
        BY <1>1, <1>2
      <4>2. QED
        BY <1>4, <2>1, <4>1
    <3>2. QED
      BY <3>1
  <2>3. k \notin upto(i)
    BY <1>4, <2>1
  <2> HIDE DEF upto
  <2>4. Cardinality(upto(i)) <= Cardinality(upto(k)) /\ Cardinality(upto(i)) # Cardinality(upto(k))
    BY <1>3, <2>2, <2>3, FS_Subset
  <2>5. QED
    BY <1>1, <1>3, <2>4
<1>5. \A n \in 1..c : \E i \in PolicySteps!Known(l) : PolicySteps!Place(l, i) = n
  <2> DEFINE f == [i \in PolicySteps!Known(l) |-> PolicySteps!Place(l, i)]
  <2>1. \A i, k \in PolicySteps!Known(l) : f[i] = f[k] => i = k
    <3>1. ASSUME NEW i \in PolicySteps!Known(l), NEW k \in PolicySteps!Known(l), PolicySteps!Place(l, i) = PolicySteps!Place(l, k)
          PROVE  i = k
      <4>1. ~(PolicySteps!Place(l, i) < PolicySteps!Place(l, k)) /\ ~(PolicySteps!Place(l, k) < PolicySteps!Place(l, i))
        <5>1. PolicySteps!Place(l, i) \in 1..c /\ PolicySteps!Place(l, k) \in 1..c
          BY <1>3
        <5>2. \A x, y \in 1..c : x = y => ~(x < y) /\ ~(y < x)
          BY <1>1
        <5>3. QED
          BY <3>1, <5>1, <5>2
      <4>2. QED
        BY <1>1, <1>2, <1>4, <4>1
    <3>2. QED
      BY <3>1
  <2>2. f \in [PolicySteps!Known(l) -> 1..c]
    BY <1>3
  <2>3. f \in Injection(PolicySteps!Known(l), 1..c)
    BY <2>1, <2>2 DEF Injection, IsInjective
  <2>4. IsFiniteSet(1..c) /\ Cardinality(1..c) = c
    BY <1>1, FS_Interval
  <2>5. f \in Surjection(PolicySteps!Known(l), 1..c)
    <3> HIDE DEF f
    <3>1. QED
      BY <2>3, <2>4, FS_Injection
  <2>6. QED
    BY <2>5 DEF Surjection
<1> DEFINE s == PolicySteps!Normalized(l)
           at(n) == CHOOSE j \in PolicySteps!Known(l) : PolicySteps!Place(l, j) = n
<1>6. DOMAIN s = 1..c
  BY PolicyStepsCount DEF PolicySteps!Normalized
<1>7. \A n \in 1..c : at(n) \in PolicySteps!Known(l) /\ PolicySteps!Place(l, at(n)) = n
  BY <1>5
<1>8. ASSUME NEW n \in 1..c PROVE s[n].after = PolicySteps!After(l, at(n))
  <2>1. s[n] = [l[at(n)] EXCEPT !.after = PolicySteps!After(l, at(n))]
    BY <1>8, PolicyStepsCount DEF PolicySteps!Normalized
  <2>2. l[at(n)] \in [after : Nat, route : STRING, eligible : BOOLEAN]
    BY <1>2, <1>7
  <2> HIDE DEF at, s
  <2>3. QED
    BY <2>1, <2>2
<1>9. ASSUME NEW m \in 1..c, NEW n \in 1..c, m <= n PROVE s[m].after <= s[n].after
  <2>1. /\ at(m) \in PolicySteps!Known(l) /\ at(n) \in PolicySteps!Known(l) /\ PolicySteps!Place(l, at(m)) = m /\ PolicySteps!Place(l, at(n)) = n
        /\ PolicySteps!After(l, at(m)) \in Nat /\ PolicySteps!After(l, at(n)) \in Nat
    BY <1>2, <1>7
  <2>2. s[m].after = PolicySteps!After(l, at(m)) /\ s[n].after = PolicySteps!After(l, at(n))
    BY <1>8
  <2> HIDE DEF at, s
  <2>3. ~(PolicySteps!After(l, at(n)) < PolicySteps!After(l, at(m)))
    BY <1>1, <1>4, <1>9, <2>1
  <2>4. QED
    BY <2>1, <2>2, <2>3
<1>10. \A n \in 1..c : s[n].after \in Nat
  BY <1>2, <1>7, <1>8
<1>11. \A n \in 1..c : s[n] = [l[at(n)] EXCEPT !.after = PolicySteps!After(l, at(n))]
  BY PolicyStepsCount DEF PolicySteps!Normalized
<1>12. \A n \in DOMAIN s : \E i \in PolicySteps!Known(l) : s[n] = [l[i] EXCEPT !.after = PolicySteps!After(l, i)]
  <2> HIDE DEF s, c, at
  <2>1. QED
    BY <1>6, <1>7, <1>11
<1>13. PolicyStepsSorted(s)
  <2> HIDE DEF s, c
  <2>1. QED
    BY <1>1, <1>6, <1>9, <1>10 DEF PolicyStepsSorted
<1>14. QED
  BY <1>6, <1>12, <1>13

\* A scan works on its steps in their order, and records them so.
LEMMA PolicyStepsTurnStep == ASSUME PolicyStepsScanInv, PolicyStepsTurnInv, [PolicySteps!Next]_(PolicySteps!vars)
                             PROVE  PolicyStepsTurnInv'
<1>1. ASSUME NEW h \in Handlers, NEW f, PolicySteps!GoOn(h, f), UNCHANGED <<steps, age, edits>>,
             edits = 0 => \A n \in DOMAIN done : n \in DOMAIN done',
             edits = 0 /\ f # PolicySteps!Idle => PolicyStepsInTurn(steps, f.todo, done'),
             PolicySteps!UneditedRowsInOrder'
      PROVE  PolicyStepsTurnInv'
  <2>1. \A g \in Handlers : frame'[g] = IF g = h THEN f ELSE frame[g]
    BY <1>1 DEF PolicySteps!GoOn, PolicyStepsScanInv
  <2>2. ASSUME edits = 0, NEW g \in Handlers, frame'[g] # PolicySteps!Idle
        PROVE  PolicyStepsInTurn(steps, frame'[g].todo, done')
    <3>1. CASE g = h
      BY <1>1, <2>1, <2>2, <3>1
    <3>2. CASE g # h
      <4>1. frame'[g] = frame[g] /\ PolicyStepsInTurn(steps, frame[g].todo, done)
        BY <2>1, <2>2, <3>2 DEF PolicyStepsTurnInv
      <4>2. QED
        BY <1>1, <2>2, <4>1 DEF PolicyStepsInTurn
    <3>3. QED
      BY <3>1, <3>2
  <2>3. QED
    BY <1>1, <2>2 DEF PolicyStepsTurnInv
<1>2. ASSUME done' = done, UNCHANGED <<steps, edits>> PROVE PolicySteps!UneditedRowsInOrder'
  BY <1>2 DEF PolicyStepsTurnInv, PolicySteps!UneditedRowsInOrder
<1>3. ASSUME NEW h \in Handlers, frame[h].op # "idle"
      PROVE  /\ frame[h] = [op |-> frame[h].op, now |-> frame[h].now, force |-> frame[h].force, todo |-> frame[h].todo]
             /\ edits = 0 => PolicyStepsInTurn(steps, frame[h].todo, done)
             /\ DOMAIN frame[h].todo \subseteq Nat
             /\ frame[h].op # "look" => DOMAIN frame[h].todo # {}
  <2>1. frame[h] # PolicySteps!Idle
    BY <1>3 DEF PolicySteps!Idle
  <2>2. QED
    BY <1>3, <2>1 DEF PolicyStepsScanInv, PolicyStepsTurnInv
<1>4. ASSUME NEW h \in Handlers, frame[h].op # "idle", NEW d, NEW left \in SUBSET DOMAIN frame[h].todo,
             \A n \in DOMAIN done \cup (DOMAIN frame[h].todo \ left) : n \in DOMAIN d,
             edits = 0, PolicySteps!Onward(frame[h], left) # PolicySteps!Idle
      PROVE  PolicyStepsInTurn(steps, PolicySteps!Onward(frame[h], left).todo, d)
  <2> DEFINE t == PolicySteps!Restrict(frame[h].todo, left)
  <2>1. PolicySteps!Onward(frame[h], left).todo = t
    BY <1>3, <1>4 DEF PolicySteps!Onward
  <2>2. DOMAIN t = left /\ \A n \in left : t[n] = frame[h].todo[n]
    BY DEF PolicySteps!Restrict
  <2>3. PolicyStepsInTurn(steps, frame[h].todo, done)
    BY <1>3, <1>4
  <2> HIDE DEF t
  <2>4. PolicyStepsInTurn(steps, t, d)
    BY <1>4, <2>2, <2>3 DEF PolicyStepsInTurn
  <2>5. QED
    BY <2>1, <2>4
<1>5. ASSUME NEW h \in Handlers, NEW force \in BOOLEAN, PolicySteps!ScanRead(h, force) PROVE PolicyStepsTurnInv'
  <2> DEFINE due == {n \in DOMAIN steps :
                       steps[n].eligible /\ (force \/ (age >= steps[n].after /\ age >= Sla))}
             t == PolicySteps!Restrict(steps, due)
             f == [op |-> "look", now |-> age, force |-> force, todo |-> t]
  <2>1. PolicySteps!GoOn(h, f) /\ UNCHANGED <<steps, age, done, edits>>
    BY <1>5 DEF PolicySteps!ScanRead, PolicySteps!Serve, PolicySteps!GoOn
  <2>2. DOMAIN t = due /\ \A n \in due : t[n] = steps[n]
    BY DEF PolicySteps!Restrict
  <2>3. ASSUME NEW n \in due, NEW m \in 1..(n - 1), steps[m].eligible PROVE m \in due
    <3>1. PICK k \in Nat : DOMAIN steps = 1..k
      BY DEF PolicyStepsTurnInv, PolicyStepsSorted
    <3>2. n \in 1..k /\ m \in 1..k /\ m <= n
      BY <3>1
    <3>3. steps[m].after <= steps[n].after /\ steps[m].after \in Nat /\ steps[n].after \in Nat /\ age \in Nat
      BY <3>1, <3>2 DEF PolicyStepsTurnInv, PolicyStepsSorted
    <3>4. force \/ (age >= steps[m].after /\ age >= Sla)
      BY <3>3
    <3>5. QED
      BY <2>3, <3>1, <3>2, <3>4
  <2>4. PolicyStepsInTurn(steps, t, done)
    <3>1. \A n \in due : n \in DOMAIN steps
      OBVIOUS
    <3> HIDE DEF due, t
    <3>2. QED
      BY <2>2, <2>3, <3>1 DEF PolicyStepsInTurn
  <2>5. f.todo = t
    OBVIOUS
  <2> HIDE DEF f, t, due
  <2>6. QED
    BY <1>1, <1>2, <2>1, <2>4, <2>5
<1>6. ASSUME NEW h \in Handlers, PolicySteps!ScanLook(h) PROVE PolicyStepsTurnInv'
  <2> DEFINE recent == ~frame[h].force /\ \E n \in DOMAIN done : frame[h].now < done[n].at + Cooldown
             left == IF recent THEN {} ELSE DOMAIN frame[h].todo \ DOMAIN done
             f == PolicySteps!Onward(frame[h], left)
  <2>1. /\ frame[h].op = "look" /\ PolicySteps!GoOn(h, f)
        /\ UNCHANGED <<steps, age, done, edits>>
    BY <1>6 DEF PolicySteps!ScanLook, PolicySteps!At
  <2>2. left \in SUBSET DOMAIN frame[h].todo
    OBVIOUS
  <2>3. f # PolicySteps!Idle => left = DOMAIN frame[h].todo \ DOMAIN done
    BY DEF PolicySteps!Onward
  <2> HIDE DEF recent, left
  <2>4. edits = 0 /\ f # PolicySteps!Idle => PolicyStepsInTurn(steps, f.todo, done)
    BY <1>4, <2>1, <2>2, <2>3
  <2> HIDE DEF f
  <2>5. QED
    BY <1>1, <1>2, <2>1, <2>4
<1>7. ASSUME NEW h \in Handlers, NEW suppressed \in BOOLEAN, PolicySteps!ScanRoute(h, suppressed)
      PROVE  PolicyStepsTurnInv'
  <2> DEFINE f == [frame[h] EXCEPT !.op = "row"]
  <2>1. /\ frame[h].op = "route" /\ PolicySteps!GoOn(h, f)
        /\ UNCHANGED <<steps, age, done, edits>>
    BY <1>7 DEF PolicySteps!ScanRoute, PolicySteps!At
  <2>2. /\ frame[h] = [op |-> frame[h].op, now |-> frame[h].now, force |-> frame[h].force, todo |-> frame[h].todo]
        /\ edits = 0 => PolicyStepsInTurn(steps, frame[h].todo, done)
    BY <1>3, <2>1
  <2>3. f = [op |-> "row", now |-> frame[h].now, force |-> frame[h].force, todo |-> frame[h].todo]
    BY <2>2
  <2>4. f.todo = frame[h].todo
    BY <2>3
  <2> HIDE DEF f
  <2>5. QED
    BY <1>1, <1>2, <2>1, <2>2, <2>4
<1>8. ASSUME NEW h \in Handlers, PolicySteps!ScanRow(h) PROVE PolicyStepsTurnInv'
  <2> DEFINE todo == frame[h].todo
             first == PolicySteps!First(frame[h])
             left == DOMAIN todo \ {first}
             f == PolicySteps!Onward(frame[h], left)
  <2>1. frame[h].op = "row" /\ PolicySteps!GoOn(h, f) /\ UNCHANGED <<steps, age, edits>>
    BY <1>8 DEF PolicySteps!ScanRow, PolicySteps!At
  <2>2. done' = IF first \in DOMAIN done THEN done
                ELSE [n \in DOMAIN done \cup {first} |->
                        IF n = first THEN [step |-> todo[first], at |-> age] ELSE done[n]]
    BY <1>8 DEF PolicySteps!ScanRow
  <2>3. first \in DOMAIN todo /\ DOMAIN todo \subseteq Nat /\ \A n \in DOMAIN todo : first <= n
    <3>1. DOMAIN todo \subseteq Nat /\ DOMAIN todo # {}
      <4>1. frame[h].op # "idle" /\ frame[h].op # "look"
        BY <2>1
      <4>2. QED
        BY <1>3, <4>1
    <3>2. QED
      BY <3>1, PolicyStepsFirstIsOne
  <2>4. edits = 0 => PolicyStepsInTurn(steps, todo, done)
    BY <1>3, <2>1
  <2> HIDE DEF first, todo
  <2>5. DOMAIN done' = DOMAIN done \cup {first}
    BY <2>2
  <2>6. edits = 0 /\ f # PolicySteps!Idle => PolicyStepsInTurn(steps, f.todo, done')
    BY <1>4, <2>1, <2>5 DEF todo
  <2>7. PolicySteps!UneditedRowsInOrder'
    <3>1. ASSUME edits = 0, NEW n \in DOMAIN done'
          PROVE  /\ n \in DOMAIN steps /\ done'[n].step = steps[n]
                 /\ \A m \in 1..(n - 1) : steps[m].eligible => m \in DOMAIN done'
      <4>1. CASE n \in DOMAIN done
        <5>1. done'[n] = done[n]
          BY <2>2, <4>1
        <5>2. QED
          BY <2>5, <3>1, <4>1, <5>1 DEF PolicyStepsTurnInv, PolicySteps!UneditedRowsInOrder
      <4>2. CASE n \notin DOMAIN done
        <5>1. n = first /\ done'[n] = [step |-> todo[first], at |-> age]
          BY <2>2, <2>5, <3>1, <4>2
        <5>2. n \in DOMAIN steps /\ done'[n].step = steps[n]
          BY <2>3, <2>4, <3>1, <5>1 DEF PolicyStepsInTurn
        <5>3. ASSUME NEW m \in 1..(n - 1), steps[m].eligible PROVE m \in DOMAIN done'
          <6>1. m \in DOMAIN todo \cup DOMAIN done
            BY <2>3, <2>4, <3>1, <5>1, <5>3 DEF PolicyStepsInTurn
          <6>2. m \notin DOMAIN todo
            BY <2>3, <5>1, <5>3
          <6>3. QED
            BY <2>5, <6>1, <6>2
        <5>4. QED
          BY <5>2, <5>3
      <4>3. QED
        BY <4>1, <4>2
    <3>2. QED
      BY <2>1, <3>1 DEF PolicySteps!UneditedRowsInOrder
  <2> HIDE DEF f
  <2>8. QED
    BY <1>1, <2>1, <2>5, <2>6, <2>7
<1>9. ASSUME NEW h \in Handlers, PolicySteps!CutOff(h) PROVE PolicyStepsTurnInv'
  BY <1>1, <1>2, <1>9 DEF PolicySteps!CutOff, PolicySteps!Drop, PolicySteps!Finish, PolicySteps!GoOn
<1>10. ASSUME NEW l \in Offered, PolicySteps!Edit(l) PROVE PolicyStepsTurnInv'
  <2>1. age' = age /\ edits' = edits + 1 /\ steps' = PolicySteps!Normalized(l)
    BY <1>10 DEF PolicySteps!Edit
  <2>2. edits' \in Nat /\ edits' # 0 /\ age' \in Nat
    BY <2>1 DEF PolicyStepsTurnInv
  <2>3. PolicyStepsSorted(steps')
    BY <2>1, PolicyStepsNormalizedInOrder
  <2>4. QED
    BY <2>2, <2>3 DEF PolicyStepsTurnInv, PolicySteps!UneditedRowsInOrder
<1>11. ASSUME PolicySteps!MinutePasses \/ UNCHANGED PolicySteps!vars PROVE PolicyStepsTurnInv'
  <2>1. UNCHANGED <<frame, steps, done, edits>> /\ age' \in Nat
    BY <1>11 DEF PolicySteps!MinutePasses, PolicySteps!vars, PolicyStepsTurnInv
  <2>2. QED
    BY <1>2, <2>1 DEF PolicyStepsTurnInv
<1>12. QED
  BY <1>5, <1>6, <1>7, <1>8, <1>9, <1>10, <1>11 DEF PolicySteps!Next

(* While the policy stays as it was when the alert was raised, the rows    *)
(* name the steps at their places, and a place is recorded only when all   *)
(* that come before it and apply to the alert are                          *)
(* (normalizeEscalationSteps, runEscalationScanForOrg).                    *)
THEOREM PolicyStepsRowsInOrder == PolicySteps!Spec => []PolicySteps!UneditedRowsInOrder
<1>1. ASSUME PolicySteps!Init PROVE PolicyStepsScanInv /\ PolicyStepsTurnInv
  <2>1. PICK l \in Offered : steps = PolicySteps!Normalized(l)
    BY <1>1 DEF PolicySteps!Init
  <2>2. PolicyStepsSorted(steps) /\ DOMAIN steps \subseteq Nat
    BY <2>1, PolicyStepsNormalizedInOrder, PolicyStepsNormalizedPlaces
  <2>3. frame = [h \in Handlers |-> PolicySteps!Idle] /\ age = 0 /\ edits = 0 /\ DOMAIN done = {}
    BY <1>1 DEF PolicySteps!Init, PolicySteps!ServerInit
  <2>4. QED
    BY <2>2, <2>3 DEF PolicyStepsScanInv, PolicyStepsTurnInv, PolicySteps!UneditedRowsInOrder
<1>2. PolicyStepsTurnInv => PolicySteps!UneditedRowsInOrder
  BY DEF PolicyStepsTurnInv
<1>3. QED
  BY <1>1, <1>2, PolicyStepsScanStep, PolicyStepsTurnStep, PTL DEF PolicySteps!Spec

\* Types.

\* A list of at most MaxSteps steps.
PolicyStepsIsPolicy(list) ==
  \E k \in 0..MaxSteps :
    DOMAIN list = 1..k /\ list = [n \in 1..k |-> list[n]] /\ \A n \in 1..k : PolicySteps!IsStep(list[n])

\* What a scan has to do.
PolicyStepsToDo(f) ==
  /\ f = [op |-> f.op, now |-> f.now, force |-> f.force, todo |-> f.todo]
  /\ f.op \in {"look", "route", "row"} /\ f.now \in 0..MaxAge
  /\ DOMAIN f.todo \subseteq PolicySteps!StepPlaces /\ \A n \in DOMAIN f.todo : PolicySteps!IsStep(f.todo[n])
  /\ f.op # "look" => DOMAIN f.todo # {}

PolicyStepsTypeInv ==
  /\ frame = [h \in Handlers |-> frame[h]]
  /\ \A h \in Handlers : frame[h] = PolicySteps!Idle \/ PolicyStepsToDo(frame[h])
  /\ PolicyStepsIsPolicy(steps)
  /\ age \in 0..MaxAge
  /\ DOMAIN done \subseteq PolicySteps!StepPlaces
  /\ \A n \in DOMAIN done : PolicySteps!IsStep(done[n].step) /\ done[n].at \in 0..age
  /\ routed \in [PolicySteps!StepPlaces -> Nat]
  /\ edits \in 0..MaxPolicyEdits /\ cuts \in 0..MaxCuts

LEMMA PolicyStepsNormalizedTyped == ASSUME NEW l \in Offered
                                    PROVE  PolicyStepsIsPolicy(PolicySteps!Normalized(l))
<1> DEFINE s == PolicySteps!Normalized(l)
           k == Cardinality(PolicySteps!Known(l))
<1>1. k \in 0..MaxSteps
  <2>1. PolicySteps!Known(l) \subseteq DOMAIN l
    BY DEF PolicySteps!Known
  <2>2. IsFiniteSet(PolicySteps!Known(l))
    BY <2>1, PolicyConstants, FS_Subset
  <2>3. Cardinality(PolicySteps!Known(l)) \in Nat
    BY <2>2, FS_CardinalityType
  <2>4. PolicySteps!Known(l) = {i \in DOMAIN l : l[i].route # "misspelt"}
    BY DEF PolicySteps!Known, PolicySteps!NoRoute
  <2>5. QED
    BY <2>3, <2>4, PolicyConstants
<1>2. DOMAIN s = 1..k /\ s = [n \in 1..k |-> s[n]]
  BY PolicyStepsCount DEF PolicySteps!Normalized
<1>3. ASSUME NEW n \in 1..k PROVE PolicySteps!IsStep(s[n])
  <2>1. PICK i \in PolicySteps!Known(l) : s[n] = [l[i] EXCEPT !.after = PolicySteps!After(l, i)]
    BY <1>2, PolicyStepsNormalizedInOrder
  <2>2. /\ i \in DOMAIN l /\ l[i].route # PolicySteps!NoRoute
        /\ l[i] \in [after : Nat, route : STRING, eligible : BOOLEAN]
        /\ PolicySteps!After(l, i) \in Nat /\ PolicySteps!After(l, i) >= 1
    <3>1. i \in DOMAIN l /\ l[i].route # PolicySteps!NoRoute
      BY DEF PolicySteps!Known
    <3>2. l[i] \in [after : Nat, route : STRING, eligible : BOOLEAN]
      BY <3>1, PolicyConstants
    <3>3. PolicySteps!After(l, i) = IF l[i].after < 1 THEN 1 ELSE l[i].after
      BY DEF PolicySteps!After
    <3>4. QED
      BY <3>1, <3>2, <3>3
  <2>3. l[i] \in PolicySteps!Sent
    BY <2>2 DEF PolicySteps!Sent, PolicySteps!Range
  <2> HIDE DEF s
  <2>4. s[n].after = PolicySteps!After(l, i)
    BY <2>1, <2>2
  <2>5. s[n] = [l[i] EXCEPT !.after = s[n].after]
    BY <2>1, <2>4
  <2>6. QED
    BY <2>2, <2>3, <2>4, <2>5 DEF PolicySteps!IsStep
<1> HIDE DEF s, k
<1>4. QED
  BY <1>1, <1>2, <1>3 DEF PolicyStepsIsPolicy, s

\* Part of the places of a list is a list with the same steps at them.
LEMMA PolicyStepsRestricted ==
  ASSUME NEW t, NEW S, S \subseteq DOMAIN t
  PROVE  DOMAIN PolicySteps!Restrict(t, S) = S /\ \A n \in S : PolicySteps!Restrict(t, S)[n] = t[n]
BY DEF PolicySteps!Restrict

LEMMA PolicyStepsOnwardTyped ==
  ASSUME NEW f, PolicyStepsToDo(f), NEW left \in SUBSET DOMAIN f.todo
  PROVE  PolicySteps!Onward(f, left) = PolicySteps!Idle \/ PolicyStepsToDo(PolicySteps!Onward(f, left))
<1>1. CASE left = {}
  BY <1>1 DEF PolicySteps!Onward
<1>2. CASE left # {}
  <2> DEFINE t == PolicySteps!Restrict(f.todo, left)
             g == [op |-> "route", now |-> f.now, force |-> f.force, todo |-> t]
  <2>1. DOMAIN t = left /\ \A n \in left : t[n] = f.todo[n]
    BY PolicyStepsRestricted
  <2>2. PolicySteps!Onward(f, left) = [f EXCEPT !.op = "route", !.todo = t]
    BY <1>2 DEF PolicySteps!Onward, PolicyStepsToDo
  <2> HIDE DEF t
  <2>3. PolicySteps!Onward(f, left) = g
    BY <2>2 DEF PolicyStepsToDo
  <2>4. PolicyStepsToDo(g)
    BY <1>2, <2>1 DEF PolicyStepsToDo
  <2>5. QED
    BY <2>3, <2>4
<1>3. QED
  BY <1>1, <1>2

LEMMA PolicyStepsTypeStep == ASSUME PolicyStepsTypeInv, [PolicySteps!Next]_(PolicySteps!vars)
                             PROVE  PolicyStepsTypeInv'
<1>1. ASSUME NEW h \in Handlers, NEW f, f = PolicySteps!Idle \/ PolicyStepsToDo(f), PolicySteps!GoOn(h, f)
      PROVE  frame' = [g \in Handlers |-> frame'[g]] /\ \A g \in Handlers : frame'[g] = PolicySteps!Idle \/ PolicyStepsToDo(frame'[g])
  <2>1. frame' = [g \in Handlers |-> IF g = h THEN f ELSE frame[g]]
    BY <1>1 DEF PolicyStepsTypeInv, PolicySteps!GoOn
  <2>2. QED
    BY <1>1, <2>1 DEF PolicyStepsTypeInv
<1>2. ASSUME NEW h \in Handlers, frame[h].op # "idle" PROVE PolicyStepsToDo(frame[h])
  BY <1>2 DEF PolicyStepsTypeInv, PolicySteps!Idle
<1>3. ASSUME NEW n \in Nat PROVE n + 1 \in Nat
  BY <1>3
<1>4. ASSUME NEW h \in Handlers, NEW force \in BOOLEAN, PolicySteps!ScanRead(h, force) PROVE PolicyStepsTypeInv'
  <2> DEFINE due == {n \in DOMAIN steps :
                       steps[n].eligible /\ (force \/ (age >= steps[n].after /\ age >= Sla))}
             t == PolicySteps!Restrict(steps, due)
             f == [op |-> "look", now |-> age, force |-> force, todo |-> t]
  <2>1. DOMAIN t = due /\ \A n \in due : t[n] = steps[n]
    BY PolicyStepsRestricted
  <2>2. due \subseteq DOMAIN steps
    OBVIOUS
  <2>3. PolicySteps!GoOn(h, f) /\ UNCHANGED <<steps, age, done, routed, edits, cuts>>
    BY <1>4 DEF PolicySteps!ScanRead, PolicySteps!Serve, PolicySteps!GoOn
  <2> HIDE DEF due, t
  <2>4. due \subseteq PolicySteps!StepPlaces /\ \A n \in due : PolicySteps!IsStep(steps[n])
    BY <2>2, PolicyConstants DEF PolicyStepsTypeInv, PolicyStepsIsPolicy, PolicySteps!StepPlaces
  <2>5. PolicyStepsToDo(f)
    BY <2>1, <2>4 DEF PolicyStepsToDo, PolicyStepsTypeInv
  <2> HIDE DEF f
  <2>6. QED
    BY <1>1, <2>3, <2>5 DEF PolicyStepsTypeInv
<1>5. ASSUME NEW h \in Handlers, PolicySteps!ScanLook(h) PROVE PolicyStepsTypeInv'
  <2> DEFINE recent == ~frame[h].force /\ \E n \in DOMAIN done : frame[h].now < done[n].at + Cooldown
             left == IF recent THEN {} ELSE DOMAIN frame[h].todo \ DOMAIN done
  <2>1. /\ frame[h].op = "look" /\ PolicySteps!GoOn(h, PolicySteps!Onward(frame[h], left))
        /\ UNCHANGED <<steps, age, done, routed, edits, cuts>>
    BY <1>5 DEF PolicySteps!ScanLook, PolicySteps!At
  <2>2. left \in SUBSET DOMAIN frame[h].todo
    OBVIOUS
  <2> HIDE DEF left
  <2>3. PolicySteps!Onward(frame[h], left) = PolicySteps!Idle \/ PolicyStepsToDo(PolicySteps!Onward(frame[h], left))
    BY <1>2, <2>1, <2>2, PolicyStepsOnwardTyped
  <2>4. QED
    BY <1>1, <2>1, <2>3 DEF PolicyStepsTypeInv
<1>6. ASSUME NEW h \in Handlers, NEW suppressed \in BOOLEAN, PolicySteps!ScanRoute(h, suppressed)
      PROVE  PolicyStepsTypeInv'
  <2>1. /\ frame[h].op = "route" /\ PolicySteps!GoOn(h, [frame[h] EXCEPT !.op = "row"])
        /\ UNCHANGED <<steps, age, done, edits, cuts>>
        /\ routed' = routed \/ routed' = [routed EXCEPT ![PolicySteps!First(frame[h])] = @ + 1]
    BY <1>6 DEF PolicySteps!ScanRoute, PolicySteps!At
  <2> DEFINE f == [op |-> "row", now |-> frame[h].now, force |-> frame[h].force, todo |-> frame[h].todo]
  <2>2. PolicyStepsToDo(frame[h])
    BY <1>2, <2>1
  <2>3. [frame[h] EXCEPT !.op = "row"] = f
    BY <2>2 DEF PolicyStepsToDo
  <2>4. PolicyStepsToDo(f)
    BY <2>1, <2>2 DEF PolicyStepsToDo
  <2> HIDE DEF f
  <2>5. routed' \in [PolicySteps!StepPlaces -> Nat]
    BY <1>3, <2>1 DEF PolicyStepsTypeInv
  <2>6. QED
    BY <1>1, <2>1, <2>3, <2>4, <2>5 DEF PolicyStepsTypeInv
<1>7. ASSUME NEW h \in Handlers, PolicySteps!ScanRow(h) PROVE PolicyStepsTypeInv'
  <2> DEFINE first == PolicySteps!First(frame[h])
             left == DOMAIN frame[h].todo \ {first}
  <2>1. /\ frame[h].op = "row" /\ PolicySteps!GoOn(h, PolicySteps!Onward(frame[h], left))
        /\ UNCHANGED <<steps, age, routed, edits, cuts>>
    BY <1>7 DEF PolicySteps!ScanRow, PolicySteps!At
  <2>2. done' = IF first \in DOMAIN done THEN done
                ELSE [n \in DOMAIN done \cup {first} |->
                        IF n = first THEN [step |-> frame[h].todo[first], at |-> age] ELSE done[n]]
    BY <1>7 DEF PolicySteps!ScanRow
  <2>3. left \in SUBSET DOMAIN frame[h].todo
    OBVIOUS
  <2>4. PolicyStepsToDo(frame[h])
    BY <1>2, <2>1
  <2>5. first \in DOMAIN frame[h].todo
    <3>1. DOMAIN frame[h].todo \subseteq Nat /\ DOMAIN frame[h].todo # {}
      BY <2>1, <2>4 DEF PolicyStepsToDo, PolicySteps!StepPlaces
    <3>2. QED
      BY <3>1, PolicyStepsFirstIsOne
  <2> HIDE DEF first, left
  <2>6. PolicySteps!Onward(frame[h], left) = PolicySteps!Idle \/ PolicyStepsToDo(PolicySteps!Onward(frame[h], left))
    BY <2>3, <2>4, PolicyStepsOnwardTyped
  <2>7. first \in PolicySteps!StepPlaces /\ PolicySteps!IsStep(frame[h].todo[first]) /\ age \in 0..age
    BY <2>4, <2>5 DEF PolicyStepsToDo, PolicyStepsTypeInv
  <2>8. DOMAIN done' \subseteq PolicySteps!StepPlaces /\ \A n \in DOMAIN done' : PolicySteps!IsStep(done'[n].step) /\ done'[n].at \in 0..age
    BY <2>2, <2>7 DEF PolicyStepsTypeInv
  <2>9. QED
    BY <1>1, <2>1, <2>6, <2>8 DEF PolicyStepsTypeInv
<1>8. ASSUME NEW h \in Handlers, PolicySteps!CutOff(h) PROVE PolicyStepsTypeInv'
  <2>1. PolicySteps!GoOn(h, PolicySteps!Idle) /\ UNCHANGED <<steps, age, done, routed, edits>> /\ cuts < MaxCuts /\ cuts' = cuts + 1
    BY <1>8 DEF PolicySteps!CutOff, PolicySteps!Drop, PolicySteps!Finish
  <2>2. cuts' \in 0..MaxCuts
    BY <2>1, PolicyConstants DEF PolicyStepsTypeInv
  <2>3. QED
    BY <1>1, <2>1, <2>2 DEF PolicyStepsTypeInv
<1>9. ASSUME NEW l \in Offered, PolicySteps!Edit(l) PROVE PolicyStepsTypeInv'
  <2>1. PolicyStepsIsPolicy(steps')
    BY <1>9, PolicyStepsNormalizedTyped DEF PolicySteps!Edit
  <2>2. edits' \in 0..MaxPolicyEdits
    BY <1>9, PolicyConstants DEF PolicySteps!Edit, PolicyStepsTypeInv
  <2>3. QED
    BY <1>9, <2>1, <2>2 DEF PolicySteps!Edit, PolicyStepsTypeInv
<1>10. ASSUME PolicySteps!MinutePasses PROVE PolicyStepsTypeInv'
  <2>1. age' \in 0..MaxAge /\ age \in Nat /\ age' = age + 1
    BY <1>10, PolicyConstants DEF PolicySteps!MinutePasses, PolicyStepsTypeInv
  <2>2. \A x \in 0..age : x \in 0..age'
    BY <2>1
  <2>3. QED
    BY <1>10, <2>1, <2>2 DEF PolicySteps!MinutePasses, PolicyStepsTypeInv
<1>11. ASSUME UNCHANGED PolicySteps!vars PROVE PolicyStepsTypeInv'
  BY <1>11 DEF PolicySteps!vars, PolicyStepsTypeInv
<1>12. QED
  BY <1>4, <1>5, <1>6, <1>7, <1>8, <1>9, <1>10, <1>11 DEF PolicySteps!Next

(* A policy stays a list of steps however it is edited, and the places     *)
(* that scans work on and rows name are places of such a list, with a      *)
(* minute that is not in the future.                                       *)
THEOREM PolicyStepsTypeCorrect == PolicySteps!Spec => []PolicySteps!TypeOK
<1>1. ASSUME PolicySteps!Init PROVE PolicyStepsTypeInv
  <2>1. PolicyStepsIsPolicy(steps)
    BY <1>1, PolicyStepsNormalizedTyped DEF PolicySteps!Init
  <2>2. /\ frame = [h \in Handlers |-> PolicySteps!Idle] /\ age = 0 /\ edits = 0 /\ cuts = 0
        /\ DOMAIN done = {} /\ routed = [n \in PolicySteps!StepPlaces |-> 0]
    BY <1>1 DEF PolicySteps!Init, PolicySteps!ServerInit
  <2>3. QED
    BY <2>1, <2>2, PolicyConstants DEF PolicyStepsTypeInv
<1>2. ASSUME PolicyStepsTypeInv PROVE PolicySteps!TypeOK
  <2>1. PICK k \in 0..MaxSteps :
          DOMAIN steps = 1..k /\ steps = [n \in 1..k |-> steps[n]] /\ \A n \in 1..k : PolicySteps!IsStep(steps[n])
    BY <1>2 DEF PolicyStepsTypeInv, PolicyStepsIsPolicy
  <2>2. Len(steps) = k
    BY <2>1
  <2>3. Len(steps) <= MaxSteps
    BY <2>2, PolicyConstants
  <2>4. \A s \in PolicySteps!Range(steps) : PolicySteps!IsStep(s)
    BY <2>1 DEF PolicySteps!Range
  <2>5. QED
    BY <1>2, <2>3, <2>4 DEF PolicyStepsTypeInv, PolicySteps!TypeOK, PolicyStepsToDo
<1>3. QED
  BY <1>1, <1>2, PolicyStepsTypeStep, PTL DEF PolicySteps!Spec

-----------------------------------------------------------------------------
(* A behaviour of Platform is one of a component.                          *)

LEMMA PartStays == [Next]_allVars => part' = part
BY DEF Next, allVars, MembersMoves, SessionsMoves, BillingMoves, SalesMoves, IncidentsMoves,
   StatusPageMoves, StatusAccessMoves, UptimeMoves, JobsMoves, AppsMoves, AppCommandsMoves, QuotasMoves,
   OrgsMoves, ShieldMoves, GuidanceMoves, InsightsMoves, ReportsMoves, GraphSyncMoves, RiskGraphMoves,
   OnCallMoves, RotationMoves, WebClientMoves, PolicyStepsMoves, ScreensMoves

\* The component that moves is the one chosen.
LEMMA OnlyThePartMoves ==
  ASSUME Next
  PROVE  /\ part = "Members" => Members!Next
         /\ part = "Sessions" => Sessions!Next
         /\ part = "Orgs" => Orgs!Next
         /\ part = "Billing" => Billing!Next
         /\ part = "AppCommands" => AppCommands!Next
         /\ part = "Quotas" => Quotas!Next
         /\ part = "Apps" => Apps!Next
         /\ part = "StatusPage" => StatusPage!Next
         /\ part = "StatusAccess" => StatusAccess!Next
         /\ part = "Incidents" => Incidents!Next
         /\ part = "Uptime" => Uptime!Next
         /\ part = "Shield" => Shield!Next
         /\ part = "WebClient" => WebClient!Next
         /\ part = "Screens" => Screens!Next
         /\ part = "Guidance" => Guidance!Next
         /\ part = "Insights" => Insights!Next
         /\ part = "Sales" => Sales!Next
         /\ part = "Jobs" => Jobs!Next
         /\ part = "Reports" => Reports!Next
         /\ part = "GraphSync" => GraphSync!Next
         /\ part = "RiskGraph" => RiskGraph!Next
         /\ part = "OnCall" => OnCall!Next
         /\ part = "Rotation" => Rotation!Next
         /\ part = "PolicySteps" => PolicySteps!Next
BY DEF Next, MembersMoves, SessionsMoves, BillingMoves, SalesMoves, IncidentsMoves, StatusPageMoves,
   StatusAccessMoves, UptimeMoves, JobsMoves, AppsMoves, AppCommandsMoves, QuotasMoves, OrgsMoves,
   ShieldMoves, GuidanceMoves, InsightsMoves, ReportsMoves, GraphSyncMoves, RiskGraphMoves, OnCallMoves,
   RotationMoves, WebClientMoves, PolicyStepsMoves, ScreensMoves

LEMMA MembersRuns == Spec => []~(part = "Members") \/ Members!Spec
<1>1. Init /\ part = "Members" => Members!Init
  BY DEF Init
<1>2. [Next]_allVars /\ part = "Members" => [Members!Next]_(Members!vars) /\ (part = "Members")'
  <2>1. CASE UNCHANGED allVars
    BY <2>1 DEF allVars, from6, from7, from8, from9, from10, from11, from12, Members!vars,
       Members!memberVars, users, member, linked, invite, sent, joins, removals
  <2>2. CASE Next
    BY <2>2, OnlyThePartMoves, PartStays
  <2>3. QED
    BY <2>1, <2>2
<1>3. [Next]_allVars /\ ~(part = "Members") => (~(part = "Members"))'
  BY PartStays
<1>4. QED
  BY <1>1, <1>2, <1>3, PTL DEF Spec, Members!Spec

LEMMA SessionsRuns == Spec => []~(part = "Sessions") \/ Sessions!Spec
<1>1. Init /\ part = "Sessions" => Sessions!Init
  BY DEF Init
<1>2. [Next]_allVars /\ part = "Sessions" => [Sessions!Next]_(Sessions!vars) /\ (part = "Sessions")'
  <2>1. CASE UNCHANGED allVars
    BY <2>1 DEF allVars, from6, from7, from8, from9, from10, from11, from12, Sessions!vars,
       Sessions!sessionVars, account, barred, token, forks, late
  <2>2. CASE Next
    BY <2>2, OnlyThePartMoves, PartStays
  <2>3. QED
    BY <2>1, <2>2
<1>3. [Next]_allVars /\ ~(part = "Sessions") => (~(part = "Sessions"))'
  BY PartStays
<1>4. QED
  BY <1>1, <1>2, <1>3, PTL DEF Spec, Sessions!Spec

LEMMA OrgsRuns == Spec => []~(part = "Orgs") \/ Orgs!Spec
<1>1. Init /\ part = "Orgs" => Orgs!Init
  BY DEF Init
<1>2. [Next]_allVars /\ part = "Orgs" => [Orgs!Next]_(Orgs!vars) /\ (part = "Orgs")'
  <2>1. CASE UNCHANGED allVars
    BY <2>1 DEF allVars, from6, from7, from8, from9, from10, from11, from12, Orgs!vars, Orgs!orgVars,
       Orgs!policyVars, slugs, renamed, policy, allowlist, asked, overlapped
  <2>2. CASE Next
    BY <2>2, OnlyThePartMoves, PartStays
  <2>3. QED
    BY <2>1, <2>2
<1>3. [Next]_allVars /\ ~(part = "Orgs") => (~(part = "Orgs"))'
  BY PartStays
<1>4. QED
  BY <1>1, <1>2, <1>3, PTL DEF Spec, Orgs!Spec

LEMMA BillingRuns == Spec => []~(part = "Billing") \/ Billing!Spec
<1>1. Init /\ part = "Billing" => Billing!Init
  BY DEF Init
<1>2. [Next]_allVars /\ part = "Billing" => [Billing!Next]_(Billing!vars) /\ (part = "Billing")'
  <2>1. CASE UNCHANGED allVars
    BY <2>1 DEF allVars, from6, from7, from8, from9, from10, from11, from12, Billing!vars,
       Billing!billingVars, subscription, remote, reports, reported, disturbed
  <2>2. CASE Next
    BY <2>2, OnlyThePartMoves, PartStays
  <2>3. QED
    BY <2>1, <2>2
<1>3. [Next]_allVars /\ ~(part = "Billing") => (~(part = "Billing"))'
  BY PartStays
<1>4. QED
  BY <1>1, <1>2, <1>3, PTL DEF Spec, Billing!Spec

LEMMA AppCommandsRuns == Spec => []~(part = "AppCommands") \/ AppCommands!Spec
<1>1. Init /\ part = "AppCommands" => AppCommands!Init
  BY DEF Init
<1>2. [Next]_allVars /\ part = "AppCommands" => [AppCommands!Next]_(AppCommands!vars) /\ (part = "AppCommands")'
  <2>1. CASE UNCHANGED allVars
    BY <2>1 DEF allVars, from6, from7, from8, from9, from10, from11, from12, AppCommands!vars,
       AppCommands!commandVars, usable, permitted, count, log, effects, cuts
  <2>2. CASE Next
    BY <2>2, OnlyThePartMoves, PartStays
  <2>3. QED
    BY <2>1, <2>2
<1>3. [Next]_allVars /\ ~(part = "AppCommands") => (~(part = "AppCommands"))'
  BY PartStays
<1>4. QED
  BY <1>1, <1>2, <1>3, PTL DEF Spec, AppCommands!Spec

LEMMA QuotasRuns == Spec => []~(part = "Quotas") \/ Quotas!Spec
<1>1. Init /\ part = "Quotas" => Quotas!Init
  BY DEF Init
<1>2. [Next]_allVars /\ part = "Quotas" => [Quotas!Next]_(Quotas!vars) /\ (part = "Quotas")'
  <2>1. CASE UNCHANGED allVars
    BY <2>1 DEF allVars, from6, from7, from8, from9, from10, from11, from12, Quotas!vars, Quotas!planVars,
       Quotas!tokenVars, limit, highest, items, apiToken, requests, passed, overlapped, late
  <2>2. CASE Next
    BY <2>2, OnlyThePartMoves, PartStays
  <2>3. QED
    BY <2>1, <2>2
<1>3. [Next]_allVars /\ ~(part = "Quotas") => (~(part = "Quotas"))'
  BY PartStays
<1>4. QED
  BY <1>1, <1>2, <1>3, PTL DEF Spec, Quotas!Spec

LEMMA AppsRuns == Spec => []~(part = "Apps") \/ Apps!Spec
<1>1. Init /\ part = "Apps" => Apps!Init
  BY DEF Init
<1>2. [Next]_allVars /\ part = "Apps" => [Apps!Next]_(Apps!vars) /\ (part = "Apps")'
  <2>1. CASE UNCHANGED allVars
    BY <2>1 DEF allVars, from6, from7, from8, from9, from10, from11, from12, Apps!vars, Apps!appVars, status,
       held, crossed, revived, calls
  <2>2. CASE Next
    BY <2>2, OnlyThePartMoves, PartStays
  <2>3. QED
    BY <2>1, <2>2
<1>3. [Next]_allVars /\ ~(part = "Apps") => (~(part = "Apps"))'
  BY PartStays
<1>4. QED
  BY <1>1, <1>2, <1>3, PTL DEF Spec, Apps!Spec

LEMMA StatusPageRuns == Spec => []~(part = "StatusPage") \/ StatusPage!Spec
<1>1. Init /\ part = "StatusPage" => StatusPage!Init
  BY DEF Init
<1>2. [Next]_allVars /\ part = "StatusPage" => [StatusPage!Next]_(StatusPage!vars) /\ (part = "StatusPage")'
  <2>1. CASE UNCHANGED allVars
    BY <2>1 DEF allVars, from6, from7, from8, from9, from10, from11, from12, StatusPage!vars,
       StatusPage!pageVars, StatusPage!domainVars, settings, visible, copy, crossed, domain, records,
       verified, moved
  <2>2. CASE Next
    BY <2>2, OnlyThePartMoves, PartStays
  <2>3. QED
    BY <2>1, <2>2
<1>3. [Next]_allVars /\ ~(part = "StatusPage") => (~(part = "StatusPage"))'
  BY PartStays
<1>4. QED
  BY <1>1, <1>2, <1>3, PTL DEF Spec, StatusPage!Spec

LEMMA StatusAccessRuns == Spec => []~(part = "StatusAccess") \/ StatusAccess!Spec
<1>1. Init /\ part = "StatusAccess" => StatusAccess!Init
  BY DEF Init
<1>2. [Next]_allVars /\ part = "StatusAccess" => [StatusAccess!Next]_(StatusAccess!vars) /\ (part = "StatusAccess")'
  <2>1. CASE UNCHANGED allVars
    BY <2>1 DEF allVars, from6, from7, from8, from9, from10, from11, from12, StatusAccess!vars,
       StatusAccess!accessVars, allowed, asked, link, sessions, subscriber
  <2>2. CASE Next
    BY <2>2, OnlyThePartMoves, PartStays
  <2>3. QED
    BY <2>1, <2>2
<1>3. [Next]_allVars /\ ~(part = "StatusAccess") => (~(part = "StatusAccess"))'
  BY PartStays
<1>4. QED
  BY <1>1, <1>2, <1>3, PTL DEF Spec, StatusAccess!Spec

LEMMA IncidentsRuns == Spec => []~(part = "Incidents") \/ Incidents!Spec
<1>1. Init /\ part = "Incidents" => Incidents!Init
  BY DEF Init
<1>2. [Next]_allVars /\ part = "Incidents" => [Incidents!Next]_(Incidents!vars) /\ (part = "Incidents")'
  <2>1. CASE UNCHANGED allVars
    BY <2>1 DEF allVars, from6, from7, from8, from9, from10, from11, from12, Incidents!vars,
       Incidents!incidentVars, status, dates, public, updates, posted, overlapped, notices, noticeLog, cuts,
       late
  <2>2. CASE Next
    BY <2>2, OnlyThePartMoves, PartStays
  <2>3. QED
    BY <2>1, <2>2
<1>3. [Next]_allVars /\ ~(part = "Incidents") => (~(part = "Incidents"))'
  BY PartStays
<1>4. QED
  BY <1>1, <1>2, <1>3, PTL DEF Spec, Incidents!Spec

LEMMA UptimeRuns == Spec => []~(part = "Uptime") \/ Uptime!Spec
<1>1. Init /\ part = "Uptime" => Uptime!Init
  BY DEF Init
<1>2. [Next]_allVars /\ part = "Uptime" => [Uptime!Next]_(Uptime!vars) /\ (part = "Uptime")'
  <2>1. CASE UNCHANGED allVars
    BY <2>1 DEF allVars, from6, from7, from8, from9, from10, from11, from12, Uptime!vars, checks, forced,
       critical, status, seen, disturbed
  <2>2. CASE Next
    BY <2>2, OnlyThePartMoves, PartStays
  <2>3. QED
    BY <2>1, <2>2
<1>3. [Next]_allVars /\ ~(part = "Uptime") => (~(part = "Uptime"))'
  BY PartStays
<1>4. QED
  BY <1>1, <1>2, <1>3, PTL DEF Spec, Uptime!Spec

LEMMA ShieldRuns == Spec => []~(part = "Shield") \/ Shield!Spec
<1>1. Init /\ part = "Shield" => Shield!Init
  BY DEF Init
<1>2. [Next]_allVars /\ part = "Shield" => [Shield!Next]_(Shield!vars) /\ (part = "Shield")'
  <2>1. CASE UNCHANGED allVars
    BY <2>1 DEF allVars, from6, from7, from8, from9, from10, from11, from12, Shield!vars, Shield!loginVars,
       Shield!bulkVars, bucket, inMap, made, spikes, logged, bulk, cut, resolved
  <2>2. CASE Next
    BY <2>2, OnlyThePartMoves, PartStays
  <2>3. QED
    BY <2>1, <2>2
<1>3. [Next]_allVars /\ ~(part = "Shield") => (~(part = "Shield"))'
  BY PartStays
<1>4. QED
  BY <1>1, <1>2, <1>3, PTL DEF Spec, Shield!Spec

LEMMA WebClientRuns == Spec => []~(part = "WebClient") \/ WebClient!Spec
<1>1. Init /\ part = "WebClient" => WebClient!Init
  BY DEF Init
<1>2. [Next]_allVars /\ part = "WebClient" => [WebClient!Next]_(WebClient!vars) /\ (part = "WebClient")'
  <2>1. CASE UNCHANGED allVars
    BY <2>1 DEF allVars, from6, from7, from8, from9, from10, from11, from12, WebClient!vars,
       WebClient!tabVars, issued, expired, memory, held, loading, cookie, refreshing, chosen, settled,
       signedOut, twice, strayed
  <2>2. CASE Next
    BY <2>2, OnlyThePartMoves, PartStays
  <2>3. QED
    BY <2>1, <2>2
<1>3. [Next]_allVars /\ ~(part = "WebClient") => (~(part = "WebClient"))'
  BY PartStays
<1>4. QED
  BY <1>1, <1>2, <1>3, PTL DEF Spec, WebClient!Spec

LEMMA ScreensRuns == Spec => []~(part = "Screens") \/ Screens!Spec
<1>1. Init /\ part = "Screens" => Screens!Init
  BY DEF Init
<1>2. [Next]_allVars /\ part = "Screens" => [Screens!Next]_(Screens!vars) /\ (part = "Screens")'
  <2>1. CASE UNCHANGED allVars
    BY <2>1 DEF allVars, from6, from7, from8, from9, from10, from11, from12, Screens!vars, screen, pick,
       loads, asked, shown, rows, running, pressed, owed, outdated
  <2>2. CASE Next
    BY <2>2, OnlyThePartMoves, PartStays
  <2>3. QED
    BY <2>1, <2>2
<1>3. [Next]_allVars /\ ~(part = "Screens") => (~(part = "Screens"))'
  BY PartStays
<1>4. QED
  BY <1>1, <1>2, <1>3, PTL DEF Spec, Screens!Spec

LEMMA GuidanceRuns == Spec => []~(part = "Guidance") \/ Guidance!Spec
<1>1. Init /\ part = "Guidance" => Guidance!Init
  BY DEF Init
<1>2. [Next]_allVars /\ part = "Guidance" => [Guidance!Next]_(Guidance!vars) /\ (part = "Guidance")'
  <2>1. CASE UNCHANGED allVars
    BY <2>1 DEF allVars, from6, from7, from8, from9, from10, from11, from12, Guidance!vars,
       Guidance!riskVars, autoOpen, manualOpen, keys, oldKeys, riskOpen, made, madeBefore, fresh, disturbed,
       days
  <2>2. CASE Next
    BY <2>2, OnlyThePartMoves, PartStays
  <2>3. QED
    BY <2>1, <2>2
<1>3. [Next]_allVars /\ ~(part = "Guidance") => (~(part = "Guidance"))'
  BY PartStays
<1>4. QED
  BY <1>1, <1>2, <1>3, PTL DEF Spec, Guidance!Spec

LEMMA InsightsRuns == Spec => []~(part = "Insights") \/ Insights!Spec
<1>1. Init /\ part = "Insights" => Insights!Init
  BY DEF Init
<1>2. [Next]_allVars /\ part = "Insights" => [Insights!Next]_(Insights!vars) /\ (part = "Insights")'
  <2>1. CASE UNCHANGED allVars
    BY <2>1 DEF allVars, from6, from7, from8, from9, from10, from11, from12, Insights!vars,
       Insights!insightVars, called, rows, type, open, writes, cache, live
  <2>2. CASE Next
    BY <2>2, OnlyThePartMoves, PartStays
  <2>3. QED
    BY <2>1, <2>2
<1>3. [Next]_allVars /\ ~(part = "Insights") => (~(part = "Insights"))'
  BY PartStays
<1>4. QED
  BY <1>1, <1>2, <1>3, PTL DEF Spec, Insights!Spec

LEMMA SalesRuns == Spec => []~(part = "Sales") \/ Sales!Spec
<1>1. Init /\ part = "Sales" => Sales!Init
  BY DEF Init
<1>2. [Next]_allVars /\ part = "Sales" => [Sales!Next]_(Sales!vars) /\ (part = "Sales")'
  <2>1. CASE UNCHANGED allVars
    BY <2>1 DEF allVars, from6, from7, from8, from9, from10, from11, from12, Sales!vars, Sales!salesVars,
       deal, item, roots, unlinks, disturbed
  <2>2. CASE Next
    BY <2>2, OnlyThePartMoves, PartStays
  <2>3. QED
    BY <2>1, <2>2
<1>3. [Next]_allVars /\ ~(part = "Sales") => (~(part = "Sales"))'
  BY PartStays
<1>4. QED
  BY <1>1, <1>2, <1>3, PTL DEF Spec, Sales!Spec

LEMMA JobsRuns == Spec => []~(part = "Jobs") \/ Jobs!Spec
<1>1. Init /\ part = "Jobs" => Jobs!Init
  BY DEF Init
<1>2. [Next]_allVars /\ part = "Jobs" => [Jobs!Next]_(Jobs!vars) /\ (part = "Jobs")'
  <2>1. CASE UNCHANGED allVars
    BY <2>1 DEF allVars, from6, from7, from8, from9, from10, from11, from12, Jobs!vars, Jobs!scheduleVars,
       Jobs!tickVars, registered, current, mixed, tick, attempts, stalls, enqueued, letters, recorded
  <2>2. CASE Next
    BY <2>2, OnlyThePartMoves, PartStays
  <2>3. QED
    BY <2>1, <2>2
<1>3. [Next]_allVars /\ ~(part = "Jobs") => (~(part = "Jobs"))'
  BY PartStays
<1>4. QED
  BY <1>1, <1>2, <1>3, PTL DEF Spec, Jobs!Spec

LEMMA ReportsRuns == Spec => []~(part = "Reports") \/ Reports!Spec
<1>1. Init /\ part = "Reports" => Reports!Init
  BY DEF Init
<1>2. [Next]_allVars /\ part = "Reports" => [Reports!Next]_(Reports!vars) /\ (part = "Reports")'
  <2>1. CASE UNCHANGED allVars
    BY <2>1 DEF allVars, from6, from7, from8, from9, from10, from11, from12, Reports!vars,
       Reports!reportVars, moment, insights, executed, reports, calls, asked, faults
  <2>2. CASE Next
    BY <2>2, OnlyThePartMoves, PartStays
  <2>3. QED
    BY <2>1, <2>2
<1>3. [Next]_allVars /\ ~(part = "Reports") => (~(part = "Reports"))'
  BY PartStays
<1>4. QED
  BY <1>1, <1>2, <1>3, PTL DEF Spec, Reports!Spec

LEMMA GraphSyncRuns == Spec => []~(part = "GraphSync") \/ GraphSync!Spec
<1>1. Init /\ part = "GraphSync" => GraphSync!Init
  BY DEF Init
<1>2. [Next]_allVars /\ part = "GraphSync" => [GraphSync!Next]_(GraphSync!vars) /\ (part = "GraphSync")'
  <2>1. CASE UNCHANGED allVars
    BY <2>1 DEF allVars, from6, from7, from8, from9, from10, from11, from12, GraphSync!vars,
       GraphSync!sources, GraphSync!graph, version, assignee, node, userNodes, edges, behind
  <2>2. CASE Next
    BY <2>2, OnlyThePartMoves, PartStays
  <2>3. QED
    BY <2>1, <2>2
<1>3. [Next]_allVars /\ ~(part = "GraphSync") => (~(part = "GraphSync"))'
  BY PartStays
<1>4. QED
  BY <1>1, <1>2, <1>3, PTL DEF Spec, GraphSync!Spec

LEMMA RiskGraphRuns == Spec => []~(part = "RiskGraph") \/ RiskGraph!Spec
<1>1. Init /\ part = "RiskGraph" => RiskGraph!Init
  BY DEF Init
<1>2. [Next]_allVars /\ part = "RiskGraph" => [RiskGraph!Next]_(RiskGraph!vars) /\ (part = "RiskGraph")'
  <2>1. CASE UNCHANGED allVars
    BY <2>1 DEF allVars, from6, from7, from8, from9, from10, from11, from12, RiskGraph!vars, RiskGraph!graph,
       base, links, score, snapshot, edits, disturbed
  <2>2. CASE Next
    BY <2>2, OnlyThePartMoves, PartStays
  <2>3. QED
    BY <2>1, <2>2
<1>3. [Next]_allVars /\ ~(part = "RiskGraph") => (~(part = "RiskGraph"))'
  BY PartStays
<1>4. QED
  BY <1>1, <1>2, <1>3, PTL DEF Spec, RiskGraph!Spec

LEMMA OnCallRuns == Spec => []~(part = "OnCall") \/ OnCall!Spec
<1>1. Init /\ part = "OnCall" => OnCall!Init
  BY DEF Init
<1>2. [Next]_allVars /\ part = "OnCall" => [OnCall!Next]_(OnCall!vars) /\ (part = "OnCall")'
  <2>1. CASE UNCHANGED allVars
    BY <2>1 DEF allVars, from6, from7, from8, from9, from10, from11, from12, OnCall!vars, now, enabled,
       window, holidays, fallback
  <2>2. CASE Next
    BY <2>2, OnlyThePartMoves, PartStays
  <2>3. QED
    BY <2>1, <2>2
<1>3. [Next]_allVars /\ ~(part = "OnCall") => (~(part = "OnCall"))'
  BY PartStays
<1>4. QED
  BY <1>1, <1>2, <1>3, PTL DEF Spec, OnCall!Spec

LEMMA RotationRuns == Spec => []~(part = "Rotation") \/ Rotation!Spec
<1>1. Init /\ part = "Rotation" => Rotation!Init
  BY DEF Init
<1>2. [Next]_allVars /\ part = "Rotation" => [Rotation!Next]_(Rotation!vars) /\ (part = "Rotation")'
  <2>1. CASE UNCHANGED allVars
    BY <2>1 DEF allVars, from6, from7, from8, from9, from10, from11, from12, Rotation!vars, now, startAt,
       handoff, turn, place, override, edits
  <2>2. CASE Next
    BY <2>2, OnlyThePartMoves, PartStays
  <2>3. QED
    BY <2>1, <2>2
<1>3. [Next]_allVars /\ ~(part = "Rotation") => (~(part = "Rotation"))'
  BY PartStays
<1>4. QED
  BY <1>1, <1>2, <1>3, PTL DEF Spec, Rotation!Spec

LEMMA PolicyStepsRuns == Spec => []~(part = "PolicySteps") \/ PolicySteps!Spec
<1>1. Init /\ part = "PolicySteps" => PolicySteps!Init
  BY DEF Init
<1>2. [Next]_allVars /\ part = "PolicySteps" => [PolicySteps!Next]_(PolicySteps!vars) /\ (part = "PolicySteps")'
  <2>1. CASE UNCHANGED allVars
    BY <2>1 DEF allVars, from6, from7, from8, from9, from10, from11, from12, PolicySteps!vars, steps, age,
       done, routed, edits, cuts
  <2>2. CASE Next
    BY <2>2, OnlyThePartMoves, PartStays
  <2>3. QED
    BY <2>1, <2>2
<1>3. [Next]_allVars /\ ~(part = "PolicySteps") => (~(part = "PolicySteps"))'
  BY PartStays
<1>4. QED
  BY <1>1, <1>2, <1>3, PTL DEF Spec, PolicySteps!Spec

-----------------------------------------------------------------------------
(* What the components promise together.                                   *)

(* A limit that is compared with a count before the row it allows is       *)
(* written is exceeded only by requests that overlap, by a number that     *)
(* grows with the handlers and not with time: the limits of Members,       *)
(* StatusAccess, Quotas, Guidance and Insights.                            *)
THEOREM LimitsHold == Spec => []LimitsOvershootByHandlers
<1>1. Spec => [](part = "Members" => Members!InviteOvershoot /\ Members!OpenInvitesBounded)
  BY MembersRuns, MembersLimitOvershoot, MembersInvitesBounded, PTL
<1>2. Spec => [](part = "StatusAccess" => StatusAccess!SubscriberOvershoot)
  BY StatusAccessRuns, StatusAccessSubscribersBounded, PTL
<1>3. Spec => [](part = "Quotas" => Quotas!PlanLimitOvershoot /\ Quotas!HourLimitKept)
  BY QuotasRuns, QuotasItems, QuotasHours, PTL
<1>4. Spec => [](part = "Guidance" => Guidance!CapKept /\ Guidance!ScanNudgesBounded)
  BY GuidanceRuns, GuidanceCapHolds, GuidanceScanNudges, PTL
<1>5. Spec => [](part = "Insights" => Insights!InsightsBounded /\ Insights!ProposalsBounded)
  BY InsightsRuns, InsightsBounded, InsightsProposals, PTL
<1>6. QED
  BY <1>1, <1>2, <1>3, <1>4, <1>5, PTL DEF LimitsOvershootByHandlers

(* After somebody has taken something away (an account, an app, an         *)
(* incident's publication, a token), only the requests that had already    *)
(* looked still act on what they saw, once each: for the components        *)
(* Sessions, Apps, Incidents and Quotas.                                   *)
THEOREM LateWrites == Spec => []LateWritesBounded
<1>1. Spec => [](part = "Sessions" => Sessions!LateSessionsBounded)
  BY SessionsRuns, SessionsLateSessions, PTL
<1>2. Spec => [](part = "Apps" => Apps!RevivalsBounded)
  BY AppsRuns, AppsRevivals, PTL
<1>3. Spec => [](part = "Incidents" => Incidents!LateNoticesBounded)
  BY IncidentsRuns, IncidentsLateNotices, PTL
<1>4. Spec => [](part = "Quotas" => Quotas!LateRequestsBounded)
  BY QuotasRuns, QuotasLateRequests, PTL
<1>5. QED
  BY <1>1, <1>2, <1>3, <1>4, PTL DEF LateWritesBounded

(* What is to be done once is done once more only for requests that        *)
(* overlap or were cut off, never again later: the invitations, refresh    *)
(* tokens, links, leads, notices, commands, dead letters, events, reports, *)
(* steps and calls of eleven components.                                   *)
THEOREM DoneOnce == Spec => []OnceEach
<1>1. Spec => [](part = "Members" => Members!InvitesJoinOnce)
  BY MembersRuns, MembersJoinOnce, PTL
<1>2. Spec => [](part = "Sessions" => Sessions!ForksBounded)
  BY SessionsRuns, SessionsForks, PTL
<1>3. Spec => [](part = "StatusAccess" => StatusAccess!LinksStartOnce)
  BY StatusAccessRuns, StatusAccessLinksOnce, PTL
<1>4. Spec => [](part = "Sales" => Sales!RootsBounded)
  BY SalesRuns, SalesRoots, PTL
<1>5. Spec => [](part = "Incidents" => Incidents!NoticesBounded)
  BY IncidentsRuns, IncidentsNoticed, PTL
<1>6. Spec => [](part = "AppCommands" => AppCommands!CommandsBounded)
  BY AppCommandsRuns, AppCommandsCounted, PTL
<1>7. Spec => [](part = "Jobs" => Jobs!LettersBounded)
  BY JobsRuns, JobsLetters, PTL
<1>8. Spec => [](part = "Shield" => Shield!SpikesBounded)
  BY ShieldRuns, ShieldSpikes, PTL
<1>9. Spec => [](part = "Reports" => Reports!CallsBounded)
  BY ReportsRuns, ReportsCalls, PTL
<1>10. Spec => [](part = "PolicySteps" => PolicySteps!PlaceRoutingsBounded)
  BY PolicyStepsRuns, PolicyStepsPlaceRoutings, PTL
<1>11. Spec => [](part = "WebClient" => WebClient!CalledOnce)
  BY WebClientRuns, WebClientCalls, PTL
<1>12. QED
  BY <1>1, <1>2, <1>3, <1>4, <1>5, <1>6, <1>7, <1>8, <1>9, <1>10, <1>11, PTL DEF OnceEach

(* What is derived from other rows or from events agrees with them when    *)
(* the requests that wrote it did not overlap: the subscription with the   *)
(* provider's reports, a component's status with its checks, the published *)
(* page with the settings, the graph with the entities, its risk snapshot  *)
(* with the graph, a deal's dates with its stage, the rows of an           *)
(* escalation with its policy, and the others of fourteen components.      *)
THEOREM CopiesTrue == Spec => []CopiesAgree
<1> DEFINE Some == /\ part = "Sessions" => Sessions!ExchangedAreRevoked
                   /\ part = "Orgs" => Orgs!AllowlistAsAsked
                   /\ part = "Billing" => Billing!OrderedReportsTellTheTruth
                   /\ part = "AppCommands" => AppCommands!LogTellsTheTruth
                   /\ part = "Apps" => Apps!UninstalledIsBare
                   /\ part = "StatusPage" => StatusPage!CopyUpToDate /\ StatusPage!VerifiedDomainIsProven
                   /\ part = "Shield" => Shield!BulkNoticed
           Others == /\ part = "Incidents" => Incidents!UpdatesKept
                     /\ part = "Uptime" => Uptime!StatusFollowsChecks
                     /\ part = "Insights" => Insights!QuietListIsTrue
                     /\ part = "Sales" => Sales!DatesFollowStatus
                     /\ part = "GraphSync" => GraphSync!GraphMirrors
                     /\ part = "RiskGraph" => RiskGraph!SnapshotAgrees
                     /\ part = "PolicySteps" => PolicySteps!UneditedRowsInOrder
<1>1. Spec => []Some
  <2>1. Spec => [](part = "Sessions" => Sessions!ExchangedAreRevoked)
    BY SessionsRuns, SessionsExchanged, PTL
  <2>2. Spec => [](part = "Orgs" => Orgs!AllowlistAsAsked)
    BY OrgsRuns, OrgsAllowlists, PTL
  <2>3. Spec => [](part = "Billing" => Billing!OrderedReportsTellTheTruth)
    BY BillingRuns, BillingTruthTold, PTL
  <2>4. Spec => [](part = "AppCommands" => AppCommands!LogTellsTheTruth)
    BY AppCommandsRuns, AppCommandsLogTrue, PTL
  <2>5. Spec => [](part = "Apps" => Apps!UninstalledIsBare)
    BY AppsRuns, AppsBare, PTL
  <2>6. Spec => [](part = "StatusPage" => StatusPage!CopyUpToDate /\ StatusPage!VerifiedDomainIsProven)
    BY StatusPageRuns, StatusPageCopies, StatusPageDomains, PTL
  <2>7. Spec => [](part = "Shield" => Shield!BulkNoticed)
    BY ShieldRuns, ShieldNoticed, PTL
  <2>8. QED
    BY <2>1, <2>2, <2>3, <2>4, <2>5, <2>6, <2>7, PTL
<1>2. Spec => []Others
  <2>1. Spec => [](part = "Incidents" => Incidents!UpdatesKept)
    BY IncidentsRuns, IncidentsUpdated, PTL
  <2>2. Spec => [](part = "Uptime" => Uptime!StatusFollowsChecks)
    BY UptimeRuns, UptimeFollows, PTL
  <2>3. Spec => [](part = "Insights" => Insights!QuietListIsTrue)
    BY InsightsRuns, InsightsQuietLists, PTL
  <2>4. Spec => [](part = "Sales" => Sales!DatesFollowStatus)
    BY SalesRuns, SalesDates, PTL
  <2>5. Spec => [](part = "GraphSync" => GraphSync!GraphMirrors)
    BY GraphSyncRuns, GraphSyncMirrored, PTL
  <2>6. Spec => [](part = "RiskGraph" => RiskGraph!SnapshotAgrees)
    BY RiskGraphRuns, RiskGraphSnapshots, PTL
  <2>7. Spec => [](part = "PolicySteps" => PolicySteps!UneditedRowsInOrder)
    BY PolicyStepsRuns, PolicyStepsRowsInOrder, PTL
  <2>8. QED
    BY <2>1, <2>2, <2>3, <2>4, <2>5, <2>6, <2>7, PTL
<1>3. Some /\ Others => CopiesAgree
  BY DEF CopiesAgree
<1> HIDE DEF Some, Others
<1>4. QED
  BY <1>1, <1>2, <1>3, PTL

(* What is computed or scheduled is what it is meant to be, for any        *)
(* schedule, graph, list of items, pattern and number of organizations:    *)
(* who is on call and in which shift, where risk comes from and what a     *)
(* node reaches, what a report keeps, which schedules repeat and whom      *)
(* their ticks reach, and the slugs of organizations.                      *)
THEOREM AnswersRight == Spec => []AnswersAreRight
<1>1. Spec => [](part = "OnCall" => OnCall!ResolvedAnswers /\ OnCall!ShiftsShareTheDay)
  BY OnCallRuns, OnCallResolved, OnCallShifts, PTL
<1>2. Spec => [](part = "Rotation" => Rotation!SomebodyIsOnCall)
  BY RotationRuns, RotationSomebodyOnCall, PTL
<1>3. Spec => [](part = "RiskGraph" => RiskGraph!RiskHasASource /\ RiskGraph!RadiusIsPaths)
  BY RiskGraphRuns, RiskGraphHasASource, RiskGraphRadius, PTL
<1>4. Spec => [](part = "Reports" => Reports!TrimmedKeepsMost)
  BY ReportsRuns, ReportsTrimming, PTL
<1>5. Spec => [](part = "Jobs" => Jobs!RegisteredOnce /\ Jobs!TicksReachEveryOrg)
  BY JobsRuns, JobsRegistered, JobsTicks, PTL
<1>6. Spec => [](part = "Orgs" => Orgs!SlugsContiguous)
  BY OrgsRuns, OrgsSlugs, PTL
<1>7. QED
  BY <1>1, <1>2, <1>3, <1>4, <1>5, <1>6, PTL DEF AnswersAreRight

(* A page at rest shows what is chosen on it and what its user has done    *)
(* and asks for nothing the API refuses, and a tab acts where its user     *)
(* chose, forgets nobody who waits and stays signed out, whatever is       *)
(* loaded, pressed, late or lost: the pages as a table of which only what  *)
(* they have in common is used.                                            *)
THEOREM PagesTrue == Spec => []PagesTellTheTruth
<1>1. Spec => [](part = "Screens" => Screens!SettledShowsTheChoice /\ Screens!OwnWritesShown /\ Screens!NavServes)
  BY ScreensRuns, ScreensChoice, ScreensOwnWrites, ScreensServed, PTL
<1>2. Spec => [](part = "WebClient" => WebClient!ActsWhereChosen /\ WebClient!NobodyIsForgotten /\ WebClient!SignedOutStays)
  BY WebClientRuns, WebClientChoices, WebClientWaits, WebClientOuts, PTL
<1>3. QED
  BY <1>1, <1>2, PTL DEF PagesTellTheTruth

(* The state of every component stays of the types it is declared with,    *)
(* for any number of requests and any bounds.                              *)
THEOREM Types == Spec => []TypeOK
<1> DEFINE Some == /\ part = "Members" => Members!TypeOK
                   /\ part = "Sessions" => Sessions!TypeOK
                   /\ part = "Billing" => Billing!TypeOK
                   /\ part = "Sales" => Sales!TypeOK
                   /\ part = "Incidents" => Incidents!TypeOK
                   /\ part = "StatusPage" => StatusPage!TypeOK
                   /\ part = "StatusAccess" => StatusAccess!TypeOK
                   /\ part = "Uptime" => Uptime!TypeOK
           More == /\ part = "Jobs" => Jobs!TypeOK
                   /\ part = "Apps" => Apps!TypeOK
                   /\ part = "AppCommands" => AppCommands!TypeOK
                   /\ part = "Quotas" => Quotas!TypeOK
                   /\ part = "Orgs" => Orgs!TypeOK
                   /\ part = "Shield" => Shield!TypeOK
                   /\ part = "Guidance" => Guidance!TypeOK
                   /\ part = "Insights" => Insights!TypeOK
           Others == /\ part = "Reports" => Reports!TypeOK
                     /\ part = "GraphSync" => GraphSync!TypeOK
                     /\ part = "RiskGraph" => RiskGraph!TypeOK
                     /\ part = "OnCall" => OnCall!TypeOK
                     /\ part = "Rotation" => Rotation!TypeOK
                     /\ part = "WebClient" => WebClient!TypeOK
                     /\ part = "PolicySteps" => PolicySteps!TypeOK
                     /\ part = "Screens" => Screens!TypeOK
<1>1. Spec => []Some
  <2>1. Spec => [](part = "Members" => Members!TypeOK)
    BY MembersRuns, MembersTypeCorrect, PTL
  <2>2. Spec => [](part = "Sessions" => Sessions!TypeOK)
    BY SessionsRuns, SessionsTypeCorrect, PTL
  <2>3. Spec => [](part = "Billing" => Billing!TypeOK)
    BY BillingRuns, BillingTypeCorrect, PTL
  <2>4. Spec => [](part = "Sales" => Sales!TypeOK)
    BY SalesRuns, SalesTypeCorrect, PTL
  <2>5. Spec => [](part = "Incidents" => Incidents!TypeOK)
    BY IncidentsRuns, IncidentsTypeCorrect, PTL
  <2>6. Spec => [](part = "StatusPage" => StatusPage!TypeOK)
    BY StatusPageRuns, StatusPageTypeCorrect, PTL
  <2>7. Spec => [](part = "StatusAccess" => StatusAccess!TypeOK)
    BY StatusAccessRuns, StatusAccessTypeCorrect, PTL
  <2>8. Spec => [](part = "Uptime" => Uptime!TypeOK)
    BY UptimeRuns, UptimeTypeCorrect, PTL
  <2>9. QED
    BY <2>1, <2>2, <2>3, <2>4, <2>5, <2>6, <2>7, <2>8, PTL
<1>2. Spec => []More
  <2>1. Spec => [](part = "Jobs" => Jobs!TypeOK)
    BY JobsRuns, JobsTypeCorrect, PTL
  <2>2. Spec => [](part = "Apps" => Apps!TypeOK)
    BY AppsRuns, AppsTypeCorrect, PTL
  <2>3. Spec => [](part = "AppCommands" => AppCommands!TypeOK)
    BY AppCommandsRuns, AppCommandsTypeCorrect, PTL
  <2>4. Spec => [](part = "Quotas" => Quotas!TypeOK)
    BY QuotasRuns, QuotasTypeCorrect, PTL
  <2>5. Spec => [](part = "Orgs" => Orgs!TypeOK)
    BY OrgsRuns, OrgsTypeCorrect, PTL
  <2>6. Spec => [](part = "Shield" => Shield!TypeOK)
    BY ShieldRuns, ShieldTypeCorrect, PTL
  <2>7. Spec => [](part = "Guidance" => Guidance!TypeOK)
    BY GuidanceRuns, GuidanceTypeCorrect, PTL
  <2>8. Spec => [](part = "Insights" => Insights!TypeOK)
    BY InsightsRuns, InsightsTypeCorrect, PTL
  <2>9. QED
    BY <2>1, <2>2, <2>3, <2>4, <2>5, <2>6, <2>7, <2>8, PTL
<1>3. Spec => []Others
  <2>1. Spec => [](part = "Reports" => Reports!TypeOK)
    BY ReportsRuns, ReportsTypeCorrect, PTL
  <2>2. Spec => [](part = "GraphSync" => GraphSync!TypeOK)
    BY GraphSyncRuns, GraphSyncTypeCorrect, PTL
  <2>3. Spec => [](part = "RiskGraph" => RiskGraph!TypeOK)
    BY RiskGraphRuns, RiskGraphTypeCorrect, PTL
  <2>4. Spec => [](part = "OnCall" => OnCall!TypeOK)
    BY OnCallRuns, OnCallTypeCorrect, PTL
  <2>5. Spec => [](part = "Rotation" => Rotation!TypeOK)
    BY RotationRuns, RotationTypeCorrect, PTL
  <2>6. Spec => [](part = "WebClient" => WebClient!TypeOK)
    BY WebClientRuns, WebClientTypeCorrect, PTL
  <2>7. Spec => [](part = "PolicySteps" => PolicySteps!TypeOK)
    BY PolicyStepsRuns, PolicyStepsTypeCorrect, PTL
  <2>8. Spec => [](part = "Screens" => Screens!TypeOK)
    BY ScreensRuns, ScreensTypeCorrect, PTL
  <2>9. QED
    BY <2>1, <2>2, <2>3, <2>4, <2>5, <2>6, <2>7, <2>8, PTL
<1>4. Some /\ More /\ Others => TypeOK
  BY DEF TypeOK
<1> HIDE DEF Some, More, Others
<1>5. QED
  BY <1>1, <1>2, <1>3, <1>4, PTL

(* On a schedule that starts at its hand-off hour, an hour that passes     *)
(* leaves the turn with the member who has it or passes it to the next     *)
(* one, and never back (computeSlotIndex, pickUserForTier).                *)
THEOREM TurnsInOrder == Spec => TurnsPassInOrder
<1> DEFINE Typed == part = "Rotation" => Rotation!TypeOK
<1>1. Spec => []Typed
  BY RotationRuns, RotationTypeCorrect, PTL
<1>2. Typed /\ Typed' /\ [Next]_allVars => [part = "Rotation" => Rotation!HandsOver]_allVars
  BY OnlyThePartMoves, PartStays, RotationHandsOverStep
<1> HIDE DEF Typed
<1>3. QED
  BY <1>1, <1>2, PTL DEF Spec, TurnsPassInOrder
=============================================================================
