------------------------------ MODULE Platform ------------------------------
(***************************************************************************)
(* The components that share nothing but the pool of requests.  A          *)
(* behaviour moves one of them, part, chosen at the start; its variables   *)
(* are kept in v1, v2, ..., as many as it needs, and the rest stay unused. *)
(* So one specification holds each component with its own constants, and   *)
(* the product of components that never touch each other's state is left   *)
(* out.                                                                    *)
(***************************************************************************)
EXTENDS Server

CONSTANTS
  People, MaxInvites, MaxRemovals, SeatLimit, InviteLimit,   \* of Members
  MaxTokens,   \* of Sessions
  Plans, MaxRemote, MaxEvents,   \* of Billing
  MaxItems, MaxCreated, MaxUnlinks,   \* of Sales
  MaxUpdates, MaxCuts,   \* of Incidents
  MaxVersions, MaxDomains,   \* of StatusPage
  MaxLinks, LinkLimit, MaxSubscribers, SubscriberLimit,   \* of StatusAccess
  Window, Major, Degraded,   \* of Uptime
  Patterns, Organizations, MaxAttempts, MaxStalls,   \* of Jobs
  MaxCalls,   \* of Apps
  Keys, RateLimit,   \* of AppCommands
  PlanLimits, MaxPlanItems, HourLimit,   \* of Quotas
  MaxSlugs, Lists,   \* of Orgs
  SpikeAt, MaxFails, MaxBuckets, BulkAbove, MaxDeactivations,   \* of Shield
  Entities, Invoices, RiskTypes, Cap, MaxAuto, MaxRisk, MaxDays,   \* of Guidance
  InsightTypes, MaxRows, MaxLive, MaxWrites,   \* of Insights
  MostFound, Keep, Base, PerItem, Budget, MaxMoments, MaxAsked, MaxFaults,   \* of Reports
  Users, MaxVersion,   \* of GraphSync
  Nodes, Facts, Share, Rounds, MaxEdits,   \* of RiskGraph
  MaxSchedules, ShiftDay, Windows, MaxDisabled,   \* of OnCall
  Day, Turns, Places, MaxHours,   \* of Rotation
  Offered, MaxSteps, Sla, Cooldown, MaxAge, MaxPolicyEdits,   \* of PolicySteps
  Opened, MaxLoads, MaxPressed   \* of Screens

\* The limits of the code are numbers, an invitation a day is allowed, and there are types of insight;
\* organizations are numbered, and a policy has finitely many steps.  The bounds of the model are numbers, too.
ASSUME MemberConstants == InviteLimit \in Nat \ {0} /\ MaxInvites \in Nat /\ MaxRemovals \in Nat
ASSUME CommandConstants == RateLimit \in Nat /\ MaxCuts \in Nat
ASSUME QuotaConstants == PlanLimits \subseteq Nat /\ HourLimit \in Nat /\ MaxPlanItems \in Nat
ASSUME AppConstants == MaxCalls \in Nat
ASSUME AccessConstants == LinkLimit \in Nat /\ SubscriberLimit \in Nat /\ MaxSubscribers \in Nat
ASSUME GuidanceConstants == Cap \in Nat /\ MaxAuto \in Nat /\ MaxRisk \in Nat /\ MaxDays \in Nat
ASSUME InsightConstants ==
  /\ IsFiniteSet(InsightTypes) /\ InsightTypes # {}
  /\ MaxRows \in Nat /\ MaxLive \in Nat /\ MaxWrites \in Nat
ASSUME SalesConstants == MaxUnlinks \in Nat
ASSUME JobConstants ==
  /\ MaxAttempts \in Nat \ {0} /\ MaxStalls \in Nat
  /\ IsFiniteSet(Organizations) /\ Organizations = 1..Cardinality(Organizations)
ASSUME RotationConstants ==
  /\ Day \in Nat \ {0} /\ 1 \in Turns /\ Turns \subseteq Nat \ {0}
  /\ Places \in Nat /\ MaxHours \in Nat /\ MaxEdits \in Nat
ASSUME ShieldConstants == MaxFails \in Nat /\ MaxBuckets \in Nat /\ MaxDeactivations \in Nat /\ BulkAbove \in Nat
ASSUME PolicyConstants ==
  /\ MaxSteps \in Nat /\ MaxAge \in Nat /\ MaxPolicyEdits \in Nat /\ MaxCuts \in Nat
  /\ \A l \in Offered :
       /\ IsFiniteSet(DOMAIN l) /\ DOMAIN l \subseteq Nat
       /\ Cardinality({i \in DOMAIN l : l[i].route # "misspelt"}) <= MaxSteps
       /\ \A i \in DOMAIN l : l[i] \in [after : Nat, route : STRING, eligible : BOOLEAN]
ASSUME OrgConstants == MaxSlugs \in Nat \ {0} /\ Lists # {}
ASSUME BillingConstants == "starter" \in Plans /\ MaxRemote \in Nat /\ MaxEvents \in Nat
ASSUME UptimeConstants == Window \in Nat /\ Major \in Nat /\ Degraded \in 1..Major
ASSUME PageConstants == MaxVersions \in Nat \ {0} /\ MaxDomains \in Nat
ASSUME GraphConstants == MaxVersion \in Nat
ASSUME WebConstants == MaxTokens \in Nat
ASSUME ReportConstants ==
  /\ Keep \in Nat /\ Base \in Nat /\ PerItem \in Nat /\ Budget \in Nat
  /\ IsFiniteSet(MostFound) /\ MostFound \subseteq Nat
  /\ \A n \in MostFound : Keep..n \subseteq MostFound
  /\ MaxMoments \in Nat \ {0} /\ MaxAsked \in Nat /\ MaxFaults \in Nat
ASSUME RiskConstants ==
  /\ IsFiniteSet(Nodes) /\ Nodes # {}
  /\ Facts \subseteq [type : {"INVOICE", "WORK_ITEM", "DEAL", "INCIDENT", "COMPANY"}, status : STRING,
                      late : BOOLEAN, boost : Nat]
  /\ Share \in Nat /\ Rounds \in Nat /\ MaxEdits \in Nat
ASSUME OnCallConstants ==
  /\ MaxSchedules \in Nat \ {0} /\ ShiftDay \in Nat \ {0}
  /\ <<0, 0>> \in Windows /\ Windows \subseteq Nat \X Nat

VARIABLES part, v1, v2, v3, v4, v5, v6, v7, v8, v9, v10, v11, v12

\* The variables from the n-th on.
from12 == <<v12>>
from11 == <<v11, from12>>
from10 == <<v10, from11>>
from9 == <<v9, from10>>
from8 == <<v8, from9>>
from7 == <<v7, from8>>
from6 == <<v6, from7>>
allVars == <<part, frame, v1, v2, v3, v4, v5, from6>>

Unused12 == v12 = "unused"
Unused11 == v11 = "unused" /\ Unused12
Unused10 == v10 = "unused" /\ Unused11
Unused9 == v9 = "unused" /\ Unused10
Unused8 == v8 = "unused" /\ Unused9
Unused7 == v7 = "unused" /\ Unused8
Unused6 == v6 = "unused" /\ Unused7

-----------------------------------------------------------------------------
(* The components and where their variables are kept.                      *)

users == v1
member == v2
linked == v3
invite == v4
sent == v5
joins == v6
removals == v7

Members == INSTANCE Members

account == v2
barred == v3
token == v4
forks == v5
late == v1

Sessions == INSTANCE Sessions

subscription == v3
remote == v4
reports == v2
reported == v5
disturbed == v1

Billing == INSTANCE Billing

deal == v2
item == v3
roots == v4
unlinks == v5

Sales == INSTANCE Sales

status == v2
dates == v5
public == v6
updates == v7
posted == v8
overlapped == v3
notices == v9
noticeLog == v10
cuts == v4

Incidents == INSTANCE Incidents

settings == v2
visible == v3
copy == v4
crossed == v1
domain == v5
records == v6
verified == v7
moved == v8

StatusPage == INSTANCE StatusPage

allowed == v2
asked == v1
link == v3
sessions == v4
subscriber == v5

StatusAccess == INSTANCE StatusAccess

checks == v3
forced == v4
critical == v5
seen == v6

Uptime == INSTANCE Uptime

registered == v1
current == v2
mixed == v3
tick == v4
attempts == v5
stalls == v6
enqueued == v7
letters == v8
recorded == v9

Jobs == INSTANCE Jobs WITH Orgs <- Organizations

held == v4
revived == v5
calls == v3

Apps == INSTANCE Apps

usable == v1
permitted == v2
count == v3
log == v5
effects == v6

AppCommands == INSTANCE AppCommands

limit == v2
highest == v4
items == v5
apiToken == v6
requests == v7
passed == v8

Quotas == INSTANCE Quotas WITH MaxItems <- MaxPlanItems

slugs == v2
renamed == v4
policy == v5
allowlist == v6

Orgs == INSTANCE Orgs

bucket == v1
inMap == v3
made == v2
spikes == v4
logged == v5
bulk == v6
cut == v7
resolved == v8

Shield == INSTANCE Shield

autoOpen == v3
manualOpen == v4
keys == v5
oldKeys == v6
riskOpen == v7
madeBefore == v8
fresh == v9
days == v10

Guidance == INSTANCE Guidance

called == v1
rows == v2
type == v3
open == v4
writes == v5
cache == v6
live == v7

Insights == INSTANCE Insights WITH Types <- InsightTypes

moment == v4
insights == v5
executed == v6
faults == v7

Reports == INSTANCE Reports WITH Items <- MostFound

version == v1
assignee == v2
node == v3
userNodes == v4
edges == v5
behind == v6

GraphSync == INSTANCE GraphSync

base == v3
links == v4
score == v5
snapshot == v6
edits == v2

RiskGraph == INSTANCE RiskGraph

now == v1
enabled == v2
window == v3
holidays == v4
fallback == v5

OnCall == INSTANCE OnCall WITH N <- MaxSchedules, Day <- ShiftDay

startAt == v3
handoff == v4
turn == v5
place == v6
override == v7

Rotation == INSTANCE Rotation WITH People <- Users

issued == v1
expired == v2
memory == v3
loading == v5
cookie == v6
refreshing == v7
chosen == v8
settled == v9
signedOut == v10
twice == v11
strayed == v12

WebClient == INSTANCE WebClient

steps == v1
age == v3
done == v5
routed == v6

PolicySteps == INSTANCE PolicySteps WITH MaxEdits <- MaxPolicyEdits

screen == v3
pick == v4
loads == v5
shown == v6
running == v7
pressed == v8
owed == v9
outdated == v10

Screens == INSTANCE Screens

\* Every page opened has what the pages have in common.
ASSUME ScreenConstants ==
  /\ MaxLoads \in Nat \ {0} /\ MaxPressed \in Nat
  /\ \A p \in Opened : Screens!Fits(p)

-----------------------------------------------------------------------------
(* One of them moves.                                                      *)

Init ==
  \/ part = "Members" /\ Members!Init /\ Unused8
  \/ part = "Sessions" /\ Sessions!Init /\ Unused6
  \/ part = "Billing" /\ Billing!Init /\ Unused6
  \/ part = "Sales" /\ Sales!Init /\ Unused6
  \/ part = "Incidents" /\ Incidents!Init /\ Unused11
  \/ part = "StatusPage" /\ StatusPage!Init /\ Unused9
  \/ part = "StatusAccess" /\ StatusAccess!Init /\ Unused6
  \/ part = "Uptime" /\ Uptime!Init /\ Unused7
  \/ part = "Jobs" /\ Jobs!Init /\ Unused10
  \/ part = "Apps" /\ Apps!Init /\ Unused6
  \/ part = "AppCommands" /\ AppCommands!Init /\ Unused7
  \/ part = "Quotas" /\ Quotas!Init /\ Unused9
  \/ part = "Orgs" /\ Orgs!Init /\ Unused7
  \/ part = "Shield" /\ Shield!Init /\ Unused9
  \/ part = "Guidance" /\ Guidance!Init /\ Unused11
  \/ part = "Insights" /\ Insights!Init /\ Unused8
  \/ part = "Reports" /\ Reports!Init /\ Unused8
  \/ part = "GraphSync" /\ GraphSync!Init /\ Unused7
  \/ part = "RiskGraph" /\ RiskGraph!Init /\ Unused7
  \/ part = "OnCall" /\ OnCall!Init /\ ServerInit /\ Unused6
  \/ part = "Rotation" /\ Rotation!Init /\ ServerInit /\ Unused8
  \/ part = "WebClient" /\ WebClient!Init
  \/ part = "PolicySteps" /\ PolicySteps!Init /\ Unused7
  \/ part = "Screens" /\ Screens!Init /\ ServerInit /\ Unused11

MembersMoves == part = "Members" /\ Members!Next /\ UNCHANGED <<part, from8>>
SessionsMoves == part = "Sessions" /\ Sessions!Next /\ UNCHANGED <<part, from6>>
BillingMoves == part = "Billing" /\ Billing!Next /\ UNCHANGED <<part, from6>>
SalesMoves == part = "Sales" /\ Sales!Next /\ UNCHANGED <<part, from6>>
IncidentsMoves == part = "Incidents" /\ Incidents!Next /\ UNCHANGED <<part, from11>>
StatusPageMoves == part = "StatusPage" /\ StatusPage!Next /\ UNCHANGED <<part, from9>>
StatusAccessMoves == part = "StatusAccess" /\ StatusAccess!Next /\ UNCHANGED <<part, from6>>
UptimeMoves == part = "Uptime" /\ Uptime!Next /\ UNCHANGED <<part, from7>>
JobsMoves == part = "Jobs" /\ Jobs!Next /\ UNCHANGED <<part, from10>>
AppsMoves == part = "Apps" /\ Apps!Next /\ UNCHANGED <<part, from6>>
AppCommandsMoves == part = "AppCommands" /\ AppCommands!Next /\ UNCHANGED <<part, from7>>
QuotasMoves == part = "Quotas" /\ Quotas!Next /\ UNCHANGED <<part, from9>>
OrgsMoves == part = "Orgs" /\ Orgs!Next /\ UNCHANGED <<part, from7>>
ShieldMoves == part = "Shield" /\ Shield!Next /\ UNCHANGED <<part, from9>>
GuidanceMoves == part = "Guidance" /\ Guidance!Next /\ UNCHANGED <<part, from11>>
InsightsMoves == part = "Insights" /\ Insights!Next /\ UNCHANGED <<part, from8>>
ReportsMoves == part = "Reports" /\ Reports!Next /\ UNCHANGED <<part, from8>>
GraphSyncMoves == part = "GraphSync" /\ GraphSync!Next /\ UNCHANGED <<part, from7>>
RiskGraphMoves == part = "RiskGraph" /\ RiskGraph!Next /\ UNCHANGED <<part, from7>>
OnCallMoves == part = "OnCall" /\ OnCall!Next /\ UNCHANGED <<part, frame, from6>>
RotationMoves == part = "Rotation" /\ Rotation!Next /\ UNCHANGED <<part, frame, from8>>
WebClientMoves == part = "WebClient" /\ WebClient!Next /\ UNCHANGED part
PolicyStepsMoves == part = "PolicySteps" /\ PolicySteps!Next /\ UNCHANGED <<part, from7>>
ScreensMoves == part = "Screens" /\ Screens!Next /\ UNCHANGED <<part, frame, from11>>

Next ==
  \/ MembersMoves \/ SessionsMoves \/ BillingMoves \/ SalesMoves
  \/ IncidentsMoves \/ StatusPageMoves \/ StatusAccessMoves \/ UptimeMoves
  \/ JobsMoves \/ AppsMoves \/ AppCommandsMoves \/ QuotasMoves
  \/ OrgsMoves \/ ShieldMoves \/ GuidanceMoves \/ InsightsMoves
  \/ ReportsMoves \/ GraphSyncMoves \/ RiskGraphMoves \/ OnCallMoves
  \/ RotationMoves \/ WebClientMoves \/ PolicyStepsMoves \/ ScreensMoves

Spec == Init /\ [][Next]_allVars

-----------------------------------------------------------------------------
(* Properties: the promises of the components, those of one kind together. *)

(* The types of the components' variables.                                 *)
TypeOK ==
  /\ part = "Members" => Members!TypeOK
  /\ part = "Sessions" => Sessions!TypeOK
  /\ part = "Billing" => Billing!TypeOK
  /\ part = "Sales" => Sales!TypeOK
  /\ part = "Incidents" => Incidents!TypeOK
  /\ part = "StatusPage" => StatusPage!TypeOK
  /\ part = "StatusAccess" => StatusAccess!TypeOK
  /\ part = "Uptime" => Uptime!TypeOK
  /\ part = "Jobs" => Jobs!TypeOK
  /\ part = "Apps" => Apps!TypeOK
  /\ part = "AppCommands" => AppCommands!TypeOK
  /\ part = "Quotas" => Quotas!TypeOK
  /\ part = "Orgs" => Orgs!TypeOK
  /\ part = "Shield" => Shield!TypeOK
  /\ part = "Guidance" => Guidance!TypeOK
  /\ part = "Insights" => Insights!TypeOK
  /\ part = "Reports" => Reports!TypeOK
  /\ part = "GraphSync" => GraphSync!TypeOK
  /\ part = "RiskGraph" => RiskGraph!TypeOK
  /\ part = "OnCall" => OnCall!TypeOK
  /\ part = "Rotation" => Rotation!TypeOK
  /\ part = "WebClient" => WebClient!TypeOK
  /\ part = "PolicySteps" => PolicySteps!TypeOK
  /\ part = "Screens" => Screens!TypeOK

(* A limit that is compared with a count, before the row it allows is      *)
(* written, is exceeded only by requests that overlap, by a number that    *)
(* grows with the handlers and not with time: invitations of a day and     *)
(* those left open, subscribers of the status page, work items of a plan,  *)
(* requests of an API token, risk nudges of a day, open nudges of an       *)
(* entity, insights and proposed actions.                                  *)
LimitsOvershootByHandlers ==
  /\ part = "Members" => Members!InviteOvershoot /\ Members!OpenInvitesBounded
  /\ part = "StatusAccess" => StatusAccess!SubscriberOvershoot
  /\ part = "Quotas" => Quotas!PlanLimitOvershoot /\ Quotas!HourLimitKept
  /\ part = "Guidance" => Guidance!CapKept /\ Guidance!ScanNudgesBounded
  /\ part = "Insights" => Insights!InsightsBounded /\ Insights!ProposalsBounded

(* After somebody has taken something away (deactivated an account,        *)
(* uninstalled an app, unpublished an incident, revoked an API token),     *)
(* only the requests that had already looked still act on what they saw,   *)
(* once each.                                                              *)
LateWritesBounded ==
  /\ part = "Sessions" => Sessions!LateSessionsBounded
  /\ part = "Apps" => Apps!RevivalsBounded
  /\ part = "Incidents" => Incidents!LateNoticesBounded
  /\ part = "Quotas" => Quotas!LateRequestsBounded

(* What is to happen once for an invitation, a refresh token, a sign-in    *)
(* link, a deal that is won, a notice, an idempotency key, a failed job,   *)
(* a spike of failed logins, a report, a call of the web client or a       *)
(* place in an escalation policy happens at most once for each request     *)
(* that overlaps and each one that was cut off.                            *)
OnceEach ==
  /\ part = "Members" => Members!InvitesJoinOnce
  /\ part = "Sessions" => Sessions!ForksBounded
  /\ part = "StatusAccess" => StatusAccess!LinksStartOnce
  /\ part = "Sales" => Sales!RootsBounded
  /\ part = "Incidents" => Incidents!NoticesBounded
  /\ part = "AppCommands" => AppCommands!CommandsBounded
  /\ part = "Jobs" => Jobs!LettersBounded
  /\ part = "Shield" => Shield!SpikesBounded
  /\ part = "Reports" => Reports!CallsBounded
  /\ part = "PolicySteps" => PolicySteps!PlaceRoutingsBounded
  /\ part = "WebClient" => WebClient!CalledOnce

(* What is derived from other rows or from events (a subscription's plan   *)
(* and status, the status of a component, the cached status page, the      *)
(* graph and its risk snapshot, the kept list of insights, the public      *)
(* updates of an incident, the command log, dates, policies, the rows of   *)
(* an escalation, credentials, the event about deactivations) agrees with  *)
(* them when the requests that wrote it did not overlap.                   *)
CopiesAgree ==
  /\ part = "Billing" => Billing!OrderedReportsTellTheTruth
  /\ part = "Uptime" => Uptime!StatusFollowsChecks
  /\ part = "StatusPage" => StatusPage!CopyUpToDate /\ StatusPage!VerifiedDomainIsProven
  /\ part = "GraphSync" => GraphSync!GraphMirrors
  /\ part = "RiskGraph" => RiskGraph!SnapshotAgrees
  /\ part = "Insights" => Insights!QuietListIsTrue
  /\ part = "Incidents" => Incidents!UpdatesKept
  /\ part = "AppCommands" => AppCommands!LogTellsTheTruth
  /\ part = "Sales" => Sales!DatesFollowStatus
  /\ part = "Sessions" => Sessions!ExchangedAreRevoked
  /\ part = "Orgs" => Orgs!AllowlistAsAsked
  /\ part = "Apps" => Apps!UninstalledIsBare
  /\ part = "Shield" => Shield!BulkNoticed
  /\ part = "PolicySteps" => PolicySteps!UneditedRowsInOrder

(* What is computed or scheduled is what it is meant to be: who is on      *)
(* call and on which schedule, risk and impact radius, the context of a    *)
(* report, the schedule that repeats, the organizations a tick reaches,    *)
(* and the slugs of organizations.                                         *)
AnswersAreRight ==
  /\ part = "OnCall" => OnCall!ResolvedAnswers /\ OnCall!ShiftsShareTheDay
  /\ part = "Rotation" => Rotation!SomebodyIsOnCall
  /\ part = "RiskGraph" => RiskGraph!RiskHasASource /\ RiskGraph!RadiusIsPaths
  /\ part = "Reports" => Reports!TrimmedKeepsMost
  /\ part = "Jobs" => Jobs!RegisteredOnce /\ Jobs!TicksReachEveryOrg
  /\ part = "Orgs" => Orgs!SlugsContiguous

(* A page of the web application that has come to rest shows what is       *)
(* chosen on it and what its user has done, offers nothing the API         *)
(* refuses to its user, acts in the organization its user chose, waits     *)
(* for nothing that is not on its way, and stays signed out.               *)
PagesTellTheTruth ==
  /\ part = "Screens" =>
       /\ Screens!SettledShowsTheChoice
       /\ Screens!OwnWritesShown
       /\ Screens!NavServes
  /\ part = "WebClient" =>
       /\ WebClient!ActsWhereChosen
       /\ WebClient!NobodyIsForgotten
       /\ WebClient!SignedOutStays

(* On a schedule that starts at its hand-off hour, an hour that passes     *)
(* leaves the turn with the member who has it or passes it to the next     *)
(* one, and never back (computeSlotIndex, pickUserForTier).                *)
TurnsPassInOrder ==
  [][part = "Rotation" => Rotation!HandsOver]_allVars
=============================================================================
