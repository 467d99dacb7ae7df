------------------------------ MODULE Guidance ------------------------------
(***************************************************************************)
(* Nudges nobody asked for.  The overdue scans (jobs/jobs-run.service.ts)  *)
(* create one for an overdue invoice or work item that has no open nudge   *)
(* of the type; the risk run (graph/risk/auto-nudge.service.ts) creates    *)
(* one for each driver of the day's snapshot, with a unique key per type,  *)
(* entity and day, up to a cap it counts when it begins.  Users create and *)
(* resolve nudges meanwhile (nudges.service.ts).                           *)
(***************************************************************************)
EXTENDS Server

CONSTANTS
  Entities,     \* work items and invoices
  Invoices,     \* the invoices among them
  RiskTypes,    \* types a risk driver is mapped to
  Cap,          \* MAX_AUTO_NUDGES_PER_DAY
  MaxAuto, MaxRisk, MaxDays   \* bounds on scan nudges of an entity, risk nudges of a day, days

VARIABLES
  autoOpen,     \* open nudges of an entity that a scan has made
  manualOpen,   \* entities with an open nudge a user has made
  keys,         \* unique keys of today's risk nudges: <<type, entity>>
  oldKeys,      \* those of yesterday
  riskOpen,     \* entities with an open risk nudge
  made,         \* risk nudges created today
  madeBefore,   \* and yesterday
  fresh,        \* whether today's snapshot has been stored
  disturbed,    \* whether risk runs overlapped today, or one took an older snapshot
  days          \* days that have passed

RiskKeys == RiskTypes \X Entities

riskVars == <<keys, oldKeys, riskOpen, made, madeBefore, fresh, disturbed, days>>
vars == <<frame, autoOpen, manualOpen, riskVars>>

RiskOps == {"driver", "create"}
RiskRuns == {h \in Handlers : frame[h].op \in RiskOps}

TypeOK ==
  /\ frame \in [Handlers ->
       {Idle}
       \cup [op : {"scan"}, left : SUBSET Entities]
       \cup [op : {"nudge"}, entity : Entities, left : SUBSET Entities]
       \cup [op : {"driver"}, today : BOOLEAN, remaining : 1..Cap, left : SUBSET RiskKeys]
       \cup [op : {"create"}, today : BOOLEAN, remaining : 1..Cap, key : RiskKeys, left : SUBSET RiskKeys]]
  /\ autoOpen \in [Entities -> 0..MaxAuto]
  /\ manualOpen \subseteq Entities
  /\ keys \subseteq RiskKeys /\ oldKeys \subseteq RiskKeys /\ riskOpen \subseteq Entities
  /\ made \in 0..MaxRisk /\ madeBefore \in 0..MaxRisk
  /\ fresh \in BOOLEAN /\ disturbed \in BOOLEAN
  /\ days \in 0..MaxDays

Init ==
  /\ ServerInit
  /\ autoOpen = [e \in Entities |-> 0] /\ manualOpen = {}
  /\ keys = {} /\ oldKeys = {} /\ riskOpen = {} /\ made = 0 /\ madeBefore = 0
  /\ fresh = FALSE /\ disturbed = FALSE /\ days = 0

-----------------------------------------------------------------------------
(* Scans.                                                                  *)

\* runAutoOverdueNudges lists the work items and the invoices that are late ...
ScanBegin(h, overdue) ==
  /\ Serve(h, [op |-> "scan", left |-> overdue])
  /\ UNCHANGED <<autoOpen, manualOpen, riskVars>>

\* ... as runInvoiceOverdueScanForOrg, a job of its own, lists the invoices ...
InvoiceScanBegin(h, overdue) == overdue \subseteq Invoices /\ ScanBegin(h, overdue)

GoOnScanning(h, left) == IF left = {} THEN Finish(h) ELSE GoOn(h, [op |-> "scan", left |-> left])

\* Mutant: createAutoNudgeIfMissing does not look.
ScanLookUpBlindly(h) ==
  /\ At(h, "scan")
  /\ \E e \in frame[h].left : GoOn(h, [op |-> "nudge", entity |-> e, left |-> frame[h].left \ {e}])
  /\ UNCHANGED <<autoOpen, manualOpen, riskVars>>

\* ... looks, for each, for an open nudge of the type ...
ScanLookUp(h) ==
  /\ At(h, "scan")
  /\ \E e \in frame[h].left :
       LET left == frame[h].left \ {e}
       IN IF autoOpen[e] > 0 \/ e \in manualOpen
          THEN GoOnScanning(h, left)
          ELSE GoOn(h, [op |-> "nudge", entity |-> e, left |-> left])
  /\ UNCHANGED <<autoOpen, manualOpen, riskVars>>

\* ... and creates one where it found none; a nudge of this kind has no unique key.
ScanCreate(h) ==
  /\ At(h, "nudge")
  /\ autoOpen[frame[h].entity] < MaxAuto
  /\ autoOpen' = [autoOpen EXCEPT ![frame[h].entity] = @ + 1]
  /\ GoOnScanning(h, frame[h].left)
  /\ UNCHANGED <<manualOpen, riskVars>>

-----------------------------------------------------------------------------
(* Users.                                                                  *)

\* create stores a nudge whether or not another is open.
Create(e) ==
  /\ manualOpen' = manualOpen \cup {e}
  /\ UNCHANGED <<frame, autoOpen, riskVars>>

\* resolve writes RESOLVED by id; a nudge that is resolved stays so, whoever writes again.
Resolve(e) ==
  /\ \/ /\ autoOpen[e] > 0
        /\ autoOpen' = [autoOpen EXCEPT ![e] = @ - 1]
        /\ UNCHANGED <<manualOpen, riskOpen>>
     \/ /\ e \in manualOpen
        /\ manualOpen' = manualOpen \ {e}
        /\ UNCHANGED <<autoOpen, riskOpen>>
     \/ /\ e \in riskOpen
        /\ riskOpen' = riskOpen \ {e}
        /\ UNCHANGED <<autoOpen, manualOpen>>
  /\ UNCHANGED <<frame, keys, oldKeys, made, madeBefore, fresh, disturbed, days>>

-----------------------------------------------------------------------------
(* Risk runs.                                                              *)

DayPasses ==
  /\ days < MaxDays
  /\ RiskRuns = {}   \* a run takes less than a day
  /\ days' = days + 1
  /\ oldKeys' = keys /\ keys' = {}
  /\ madeBefore' = made /\ made' = 0
  /\ fresh' = FALSE /\ disturbed' = FALSE
  /\ UNCHANGED <<frame, autoOpen, manualOpen, riskOpen>>

\* computeOrgRisk stores today's snapshot, and lets a run take its drivers.
SnapshotStored ==
  /\ ~fresh
  /\ fresh' = TRUE
  /\ UNCHANGED <<frame, autoOpen, manualOpen, keys, oldKeys, riskOpen, made, madeBefore,
                 disturbed, days>>

\* Mutant: a run counts what it may create from the cap alone.
RiskBeginAfresh(h) ==
  /\ fresh \/ days > 0
  /\ Serve(h, [op |-> "driver", today |-> fresh, remaining |-> Cap, left |-> RiskKeys])
  /\ disturbed' = (disturbed \/ ~fresh \/ RiskRuns # {})
  /\ UNCHANGED <<autoOpen, manualOpen, keys, oldKeys, riskOpen, made, madeBefore, fresh, days>>

\* generateRiskNudges counts the nudges created on the day of the latest snapshot, and goes
\* through its drivers (those not mapped to a type are passed over) ...
RiskBegin(h) ==
  /\ fresh \/ days > 0
  /\ LET existing == IF fresh THEN made ELSE madeBefore
     IN /\ existing < Cap
        /\ Serve(h, [op |-> "driver", today |-> fresh, remaining |-> Cap - existing, left |-> RiskKeys])
  /\ disturbed' = (disturbed \/ ~fresh \/ RiskRuns # {})
  /\ UNCHANGED <<autoOpen, manualOpen, keys, oldKeys, riskOpen, made, madeBefore, fresh, days>>

HasOpen(e) == autoOpen[e] > 0 \/ e \in manualOpen \/ e \in riskOpen

KeysOf(h) == IF frame[h].today THEN keys ELSE oldKeys

\* ... passes over a driver whose key is taken or whose entity has an open nudge ...
RiskLookUp(h) ==
  /\ At(h, "driver")
  /\ \/ /\ frame[h].left = {}
        /\ Finish(h)
     \/ \E k \in frame[h].left :
          LET left == frame[h].left \ {k}
          IN IF k \in KeysOf(h) \/ HasOpen(k[2])
             THEN GoOn(h, [frame[h] EXCEPT !.left = left])
             ELSE GoOn(h, [op |-> "create", today |-> frame[h].today, remaining |-> frame[h].remaining,
                           key |-> k, left |-> left])
  /\ UNCHANGED <<autoOpen, manualOpen, riskVars>>

\* ... and creates the nudge; where the key is taken by now, the unique index ends the run.
RiskCreate(h) ==
  /\ At(h, "create")
  /\ LET f == frame[h]
     IN IF f.key \in KeysOf(h)
        THEN /\ Finish(h)
             /\ UNCHANGED <<keys, oldKeys, riskOpen, made>>
        ELSE /\ made < MaxRisk
             /\ made' = made + 1
             /\ riskOpen' = riskOpen \cup {f.key[2]}
             /\ keys' = IF f.today THEN keys \cup {f.key} ELSE keys
             /\ oldKeys' = IF f.today THEN oldKeys ELSE oldKeys \cup {f.key}
             /\ IF f.remaining = 1 THEN Finish(h)
                ELSE GoOn(h, [op |-> "driver", today |-> f.today, remaining |-> f.remaining - 1,
                              left |-> f.left])
  /\ UNCHANGED <<autoOpen, manualOpen, madeBefore, fresh, disturbed, days>>

Lost(h) ==
  /\ Drop(h)
  /\ UNCHANGED <<autoOpen, manualOpen, riskVars>>

Next ==
  \/ DayPasses \/ SnapshotStored
  \/ \E e \in Entities : Create(e) \/ Resolve(e)
  \/ \E h \in Handlers :
       \/ \E overdue \in (SUBSET Entities) \ {{}} : ScanBegin(h, overdue) \/ InvoiceScanBegin(h, overdue)
       \/ ScanLookUp(h) \/ ScanCreate(h)
       \/ RiskBegin(h)
       \/ RiskLookUp(h) \/ RiskCreate(h) \/ Lost(h)

Spec == Init /\ [][Next]_vars

-----------------------------------------------------------------------------
(* Properties.                                                             *)

(* An overdue entity has at most one open scan nudge for each handler,     *)
(* because every scan that creates one found none (createAutoNudgeIfMissing). *)
ScanNudgesBounded == \A e \in Entities : autoOpen[e] <= Cardinality(Handlers)

(* On a day whose risk runs came one after the other, each on that day's   *)
(* snapshot, they create no more nudges than the cap, however many runs    *)
(* there were and whatever was resolved between them (generateRiskNudges). *)
CapKept == ~disturbed => made <= Cap
=============================================================================
