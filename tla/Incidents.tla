------------------------------ MODULE Incidents ------------------------------
(***************************************************************************)
(* An incident (incidents/incidents.service.ts) and what a subscriber of   *)
(* the status page is told about it                                        *)
(* (StatusService.notifyPublicIncidentChange).                             *)
(*                                                                         *)
(* Every operation reads the row and writes it by id.  The public updates  *)
(* are one JSON column, read and rewritten whole.  A notice is sent when   *)
(* the log has no success of its type, and logged when the mail service    *)
(* has answered.  Severity, participants and the timeline, which nothing   *)
(* below reads, are left out.                                              *)
(***************************************************************************)
EXTENDS Server

CONSTANTS
  MaxUpdates,   \* bound on the public updates
  MaxCuts       \* bound on the requests cut off between a notice and its log row

Updates == 1..MaxUpdates
NoticeTypes == {"CREATED", "UPDATED", "RESOLVED"}

VARIABLES
  status,      \* of the incident
  dates,       \* which of acknowledgedAt and resolvedAt are set
  public,      \* isPublic
  updates,     \* publicUpdates
  posted,      \* updates written so far
  overlapped,  \* whether requests that post updates overlapped
  notices,     \* notices of each type the subscriber received
  noticeLog,   \* types with a success in statusNotificationLog
  cuts,        \* notices of each type sent by a request that never logged them
  late         \* notices sent since the incident was last unpublished

incidentVars == <<status, dates, public, updates, posted, overlapped, notices, noticeLog, cuts, late>>
vars == <<frame, incidentVars>>
rowVars == <<status, dates, public, updates, posted, overlapped>>
noticeVars == <<notices, noticeLog, cuts, late>>

Requests ==
  [op : {"acknowledge", "resolve", "postmortem", "close", "unpublish"}]
  \cup [op : {"publish", "update"}, seen : SUBSET Updates]
  \cup [op : {"notify", "send", "log"}, type : NoticeTypes]

TypeOK ==
  /\ frame \in [Handlers -> {Idle} \cup Requests]
  /\ status \in {"none", "OPEN", "ACKNOWLEDGED", "RESOLVED", "POSTMORTEM"}
  /\ dates \subseteq {"acknowledgedAt", "resolvedAt"}
  /\ public \in BOOLEAN
  /\ updates \subseteq Updates /\ posted \subseteq Updates
  /\ overlapped \in BOOLEAN
  /\ notices \in [NoticeTypes -> Nat]
  /\ noticeLog \subseteq NoticeTypes
  /\ cuts \in [NoticeTypes -> Nat]
  /\ late \in Nat

Init ==
  /\ ServerInit
  /\ status = "none" /\ dates = {}
  /\ public = FALSE
  /\ updates = {} /\ posted = {} /\ overlapped = FALSE
  /\ notices = [t \in NoticeTypes |-> 0]
  /\ noticeLog = {}
  /\ cuts = [t \in NoticeTypes |-> 0]
  /\ late = 0

-----------------------------------------------------------------------------
(* The row.                                                                *)

\* createIncidentFromAlertEvent, for an event that has just been stored.
Raise ==
  /\ status = "none"
  /\ status' = "OPEN"
  /\ UNCHANGED <<frame, dates, public, updates, posted, overlapped, noticeVars>>

\* assertIncident has found the row; no operation looks at its status.
IncidentRead(h, op) ==
  /\ status # "none"
  /\ Serve(h, [op |-> op])
  /\ UNCHANGED incidentVars

\* acknowledge, also of an incident that was resolved.
AcknowledgeWrite(h) ==
  /\ At(h, "acknowledge")
  /\ status' = "ACKNOWLEDGED"
  /\ dates' = dates \cup {"acknowledgedAt"}
  /\ Finish(h)
  /\ UNCHANGED <<public, updates, posted, overlapped, noticeVars>>

\* resolve, which tells the subscribers of a public incident.
ResolveWrite(h) ==
  /\ At(h, "resolve")
  /\ status' = "RESOLVED"
  /\ dates' = dates \cup {"resolvedAt"}
  /\ IF public THEN GoOn(h, [op |-> "notify", type |-> "RESOLVED"]) ELSE Finish(h)
  /\ UNCHANGED <<public, updates, posted, overlapped, noticeVars>>

\* upsertPostmortem stores the text ...
PostmortemWrite(h) ==
  /\ At(h, "postmortem")
  /\ GoOn(h, [op |-> "close"])
  /\ UNCHANGED incidentVars

\* ... and then the status.
PostmortemStatus(h) ==
  /\ At(h, "close")
  /\ status' = "POSTMORTEM"
  /\ Finish(h)
  /\ UNCHANGED <<dates, public, updates, posted, overlapped, noticeVars>>

UnpublishWrite(h) ==
  /\ At(h, "unpublish")
  /\ public' = FALSE
  /\ late' = 0
  /\ Finish(h)
  /\ UNCHANGED <<status, dates, updates, posted, overlapped, notices, noticeLog, cuts>>

-----------------------------------------------------------------------------
(* Public updates.                                                         *)

Posting == Serving("publish") \cup Serving("update")

\* publish and addPublicUpdate read the updates, the second of a public incident only ...
PostRead(h, op) ==
  /\ status # "none"
  /\ op = "update" => public
  /\ Serve(h, [op |-> op, seen |-> updates])
  /\ overlapped' = (overlapped \/ Posting # {})
  /\ UNCHANGED <<status, dates, public, updates, posted, noticeVars>>

NextUpdate == {u \in Updates \ posted : 1..(u - 1) \subseteq posted}

\* Mutant: the update is written without those before it.
UpdateWriteAlone(h) ==
  /\ At(h, "update")
  /\ \E u \in NextUpdate : updates' = {u} /\ posted' = posted \cup {u}
  /\ IF public THEN GoOn(h, [op |-> "notify", type |-> "UPDATED"]) ELSE Finish(h)
  /\ UNCHANGED <<status, dates, public, overlapped, noticeVars>>

AddTo(seen) ==
  \E u \in NextUpdate :
    /\ updates' = seen \cup {u}
    /\ posted' = posted \cup {u}

\* ... publish writes them back with one more, for an incident that is public from now on ...
PublishWrite(h) ==
  /\ At(h, "publish")
  /\ AddTo(frame[h].seen)
  /\ public' = TRUE
  /\ GoOn(h, [op |-> "notify", type |-> "CREATED"])
  /\ UNCHANGED <<status, dates, overlapped, noticeVars>>

\* ... and so does addPublicUpdate; its notice is for the row as it is now.
UpdateWrite(h) ==
  /\ At(h, "update")
  /\ AddTo(frame[h].seen)
  /\ IF public THEN GoOn(h, [op |-> "notify", type |-> "UPDATED"]) ELSE Finish(h)
  /\ UNCHANGED <<status, dates, public, overlapped, noticeVars>>

-----------------------------------------------------------------------------
(* Notices to a confirmed subscriber.                                      *)

\* Mutant: a notice of the same type is not looked for.
NotifyBlindly(h) ==
  /\ At(h, "notify")
  /\ GoOn(h, [frame[h] EXCEPT !.op = "send"])
  /\ UNCHANGED incidentVars

\* notifyPublicIncidentChange skips a subscriber that has had a notice of this type ...
NotifyLookUp(h) ==
  /\ At(h, "notify")
  /\ IF frame[h].type \in noticeLog THEN Finish(h) ELSE GoOn(h, [frame[h] EXCEPT !.op = "send"])
  /\ UNCHANGED incidentVars

\* ... sends it, whether the incident is still public or not; the mail service may refuse ...
Send(h) ==
  /\ At(h, "send")
  /\ \/ /\ notices' = [notices EXCEPT ![frame[h].type] = @ + 1]
        /\ late' = IF public THEN late ELSE late + 1
        /\ GoOn(h, [frame[h] EXCEPT !.op = "log"])
     \/ Finish(h) /\ UNCHANGED <<notices, late>>
  /\ UNCHANGED <<rowVars, noticeLog, cuts>>

\* ... and logs the success.
Log(h) ==
  /\ At(h, "log")
  /\ noticeLog' = noticeLog \cup {frame[h].type}
  /\ Finish(h)
  /\ UNCHANGED <<rowVars, notices, cuts, late>>

Lost(h) ==
  /\ Drop(h)
  /\ cuts' = IF At(h, "log") THEN [cuts EXCEPT ![frame[h].type] = @ + 1] ELSE cuts
  /\ \A t \in NoticeTypes : cuts'[t] <= MaxCuts
  /\ UNCHANGED <<rowVars, notices, noticeLog, late>>

Next ==
  \/ Raise
  \/ \E h \in Handlers :
       \/ \E op \in {"acknowledge", "resolve", "postmortem", "unpublish"} : IncidentRead(h, op)
       \/ \E op \in {"publish", "update"} : PostRead(h, op)
       \/ AcknowledgeWrite(h) \/ ResolveWrite(h) \/ PostmortemWrite(h) \/ PostmortemStatus(h)
       \/ UnpublishWrite(h) \/ PublishWrite(h) \/ UpdateWrite(h)
       \/ NotifyLookUp(h) \/ Send(h) \/ Log(h) \/ Lost(h)

Spec == Init /\ [][Next]_vars

-----------------------------------------------------------------------------
(* Properties.                                                             *)

(* Updates posted one after the other all stay on the status page, however *)
(* often the incident is published, unpublished, resolved or acknowledged  *)
(* again between them (publishIncident, addPublicUpdate).                  *)
UpdatesKept == ~overlapped => updates = posted

(* A subscriber hears once that an incident was published, updated and     *)
(* resolved, requests apart that overlap or are cut off before they log    *)
(* the notice (notifyPublicIncidentChange).                                *)
NoticesBounded ==
  \A t \in NoticeTypes : notices[t] <= Cardinality(Handlers) + cuts[t]

(* Once an incident is unpublished only the requests that were under way   *)
(* still send a notice about it, one each (unpublishIncident).             *)
LateNoticesBounded == late < Cardinality(Handlers)
=============================================================================
