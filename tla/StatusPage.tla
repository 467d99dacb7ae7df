----------------------------- MODULE StatusPage -----------------------------
(***************************************************************************)
(* The public status page of an organization (status/status.service.ts):   *)
(* its settings, the copy of the page each process keeps for a minute, and *)
(* the custom domain it is served from.                                    *)
(*                                                                         *)
(* A reader who finds no copy collects the page over several round trips   *)
(* and stores it; who changes the settings clears the copy afterwards.     *)
(* Verifying a domain waits for a DNS lookup between reading the row and   *)
(* writing it by id.                                                       *)
(***************************************************************************)
EXTENDS Server

CONSTANTS
  MaxVersions,   \* bound on the changes of the settings
  MaxDomains     \* bound on the requests for a custom domain

VARIABLES
  settings,    \* version of the settings
  visible,     \* statusEnabled, and the visitor passes assertPrivateAccess
  copy,        \* version the cached page shows, 0 for no cached page
  crossed,     \* whether a page was being collected, or cut off, when the settings changed
  domain,      \* request that set customStatusDomain and its token, 0 for none
  records,     \* requests whose TXT record has been found in the DNS
  verified,    \* customDomainVerifiedAt is set
  moved        \* whether a domain was requested while one was being verified

pageVars == <<settings, visible, copy, crossed>>
domainVars == <<domain, records, verified, moved>>
vars == <<frame, pageVars, domainVars>>

TypeOK ==
  /\ frame \in [Handlers -> {Idle}
       \cup [op : {"collect"}, version : 1..MaxVersions]
       \cup [op : {"settings", "clear", "scan", "confirm"}]
       \cup [op : {"resolve"}, request : 1..MaxDomains]]
  /\ settings \in 1..MaxVersions
  /\ visible \in BOOLEAN
  /\ copy \in 0..MaxVersions
  /\ crossed \in BOOLEAN
  /\ domain \in 0..MaxDomains
  /\ records \subseteq 1..MaxDomains
  /\ verified \in BOOLEAN
  /\ moved \in BOOLEAN

Init ==
  /\ ServerInit
  /\ settings = 1 /\ visible = FALSE /\ copy = 0 /\ crossed = FALSE
  /\ domain = 0 /\ records = {} /\ verified = FALSE /\ moved = FALSE

-----------------------------------------------------------------------------
(* The page.                                                               *)

\* getPublicStatus finds the page enabled, and open to the visitor; with a copy it answers
\* at once, with none it goes on to the components, their checks and the incidents ...
PageRead(h) ==
  /\ visible /\ copy = 0
  /\ Serve(h, [op |-> "collect", version |-> settings])
  /\ UNCHANGED <<pageVars, domainVars>>

\* ... and stores what it has collected, shown with the settings it read first.
PageStore(h) ==
  /\ At(h, "collect")
  /\ copy' = frame[h].version
  /\ Finish(h)
  /\ UNCHANGED <<settings, visible, crossed, domainVars>>

CopyExpires ==
  /\ copy # 0
  /\ copy' = 0
  /\ UNCHANGED <<frame, settings, visible, crossed, domainVars>>

\* updateStatusSettings has found no other organization with the slug ...
SettingsRead(h) ==
  /\ Serve(h, [op |-> "settings"])
  /\ UNCHANGED <<pageVars, domainVars>>

\* ... writes the settings ...
SettingsWrite(h) ==
  /\ At(h, "settings")
  /\ settings < MaxVersions
  /\ settings' = settings + 1
  /\ visible' \in BOOLEAN
  /\ crossed' = (crossed \/ Serving("collect") # {})
  /\ GoOn(h, [op |-> "clear"])
  /\ UNCHANGED <<copy, domainVars>>

\* Mutant: the copy is left as it is.
ClearNothing(h) ==
  /\ At(h, "clear")
  /\ Finish(h)
  /\ UNCHANGED <<pageVars, domainVars>>

\* ... seeds the components and clears the copy.
Clear(h) ==
  /\ At(h, "clear")
  /\ copy' = 0
  /\ Finish(h)
  /\ UNCHANGED <<settings, visible, crossed, domainVars>>

\* runUptimeScan and notifyPublicIncidentChange clear it when they have written.
ClearAfterScan(h) ==
  /\ Serve(h, [op |-> "clear"])
  /\ UNCHANGED <<pageVars, domainVars>>

-----------------------------------------------------------------------------
(* The custom domain.                                                      *)

\* requestCustomDomain: a new name and a new token, not verified.
RequestDomain ==
  /\ domain < MaxDomains
  /\ domain' = domain + 1
  /\ verified' = FALSE
  /\ moved' = (moved \/ Serving("resolve") \cup Serving("confirm") # {})
  /\ UNCHANGED <<frame, pageVars, records>>

\* The owner of the name publishes the token.
PublishRecord(r) ==
  /\ r \in 1..domain
  /\ records' = records \cup {r}
  /\ UNCHANGED <<frame, pageVars, domain, verified, moved>>

\* verifyCustomDomain reads the name and the token ...
VerifyRead(h) ==
  /\ domain # 0
  /\ Serve(h, [op |-> "resolve", request |-> domain])
  /\ UNCHANGED <<pageVars, domainVars>>

\* Mutant: an empty answer of the DNS is taken for the record.
ResolveAnything(h) ==
  /\ At(h, "resolve")
  /\ GoOn(h, [op |-> "confirm"])
  /\ UNCHANGED <<pageVars, domainVars>>

\* ... looks the record up ...
Resolve(h) ==
  /\ At(h, "resolve")
  /\ IF frame[h].request \in records THEN GoOn(h, [op |-> "confirm"]) ELSE Finish(h)
  /\ UNCHANGED <<pageVars, domainVars>>

\* ... and marks whatever domain the row has by now, and then clears the copy.
VerifyWrite(h) ==
  /\ At(h, "confirm")
  /\ verified' = TRUE
  /\ GoOn(h, [op |-> "clear"])
  /\ UNCHANGED <<pageVars, domain, records, moved>>

Lost(h) ==
  /\ Drop(h)
  /\ crossed' = (crossed \/ At(h, "clear"))
  /\ UNCHANGED <<settings, visible, copy, domainVars>>

Next ==
  \/ CopyExpires \/ RequestDomain
  \/ \E r \in 1..MaxDomains : PublishRecord(r)
  \/ \E h \in Handlers :
       \/ PageRead(h) \/ PageStore(h) \/ SettingsRead(h) \/ SettingsWrite(h)
       \/ Clear(h) \/ ClearAfterScan(h)
       \/ VerifyRead(h) \/ Resolve(h) \/ VerifyWrite(h) \/ Lost(h)

Spec == Init /\ [][Next]_vars

-----------------------------------------------------------------------------
(* Properties.                                                             *)

(* The cached page shows the settings of the last change that was answered,*)
(* unless the page was being collected when they changed, or the change    *)
(* was cut off before it cleared the copy (getPublicStatusByOrgSlug,       *)
(* updateStatusSettings).                                                  *)
CopyUpToDate == ~crossed /\ Serving("clear") = {} /\ copy # 0 => copy = settings

(* A domain counts as verified when its own token was found in the DNS,    *)
(* unless another domain was requested during the lookup                   *)
(* (verifyCustomDomain).                                                   *)
VerifiedDomainIsProven == verified /\ ~moved => domain \in records
=============================================================================
