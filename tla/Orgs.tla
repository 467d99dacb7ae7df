-------------------------------- MODULE Orgs --------------------------------
(***************************************************************************)
(* Creating an organization (orgs/orgs.service.ts) under a slug that is    *)
(* still free, found by looking one candidate up after the other, and the  *)
(* IP allowlist of its policy (settings/settings.service.ts), which every  *)
(* change of the policy writes.                                            *)
(***************************************************************************)
EXTENDS Server

CONSTANTS
  MaxSlugs,   \* bound on the suffixes looked up
  Lists       \* values of the allowlist

NoChange == "unchanged"

VARIABLES
  slugs,       \* suffixes of the base slug that are taken; 1 stands for none
  renamed,     \* whether an organization left its slug
  policy,      \* whether the policy row exists
  allowlist,   \* its ipAllowlist
  asked,       \* the list last asked for by a change that was stored
  overlapped   \* whether changes of the policy overlapped

orgVars == <<slugs, renamed>>
policyVars == <<policy, allowlist, asked, overlapped>>
vars == <<frame, orgVars, policyVars>>

TypeOK ==
  /\ frame \in [Handlers -> {Idle} \cup [op : {"probe", "create"}, slug : 1..MaxSlugs]
       \cup [op : {"policy"}, list : Lists \cup {NoChange}, seen : Lists]]
  /\ slugs \subseteq 1..MaxSlugs
  /\ renamed \in BOOLEAN
  /\ policy \in BOOLEAN
  /\ allowlist \in Lists /\ asked \in Lists
  /\ overlapped \in BOOLEAN

\* POLICY_DEFAULTS.
Empty == CHOOSE l \in Lists : TRUE

Init ==
  /\ ServerInit
  /\ slugs = {} /\ renamed = FALSE
  /\ policy = FALSE /\ allowlist = Empty /\ asked = Empty /\ overlapped = FALSE

-----------------------------------------------------------------------------
(* Slugs.                                                                  *)

\* create, by an active member: ensureUniqueSlug starts at the slug asked for ...
CreateBegin(h) ==
  /\ Serve(h, [op |-> "probe", slug |-> 1])
  /\ UNCHANGED <<orgVars, policyVars>>

\* Mutant: the loop steps over a candidate.
ProbeSkipping(h) ==
  /\ At(h, "probe")
  /\ LET s == frame[h].slug
     IN  IF s \in slugs THEN s + 2 <= MaxSlugs /\ GoOn(h, [op |-> "probe", slug |-> s + 2])
         ELSE GoOn(h, [op |-> "create", slug |-> s])
  /\ UNCHANGED <<orgVars, policyVars>>

\* ... and looks one candidate up after the other ...
Probe(h) ==
  /\ At(h, "probe")
  /\ LET s == frame[h].slug
     IN  IF s \in slugs THEN s < MaxSlugs /\ GoOn(h, [op |-> "probe", slug |-> s + 1])
         ELSE GoOn(h, [op |-> "create", slug |-> s])
  /\ UNCHANGED <<orgVars, policyVars>>

\* ... until one is free; the transaction fails if it was taken meanwhile.
CreateInsert(h) ==
  /\ At(h, "create")
  /\ slugs' = slugs \cup {frame[h].slug}
  /\ Finish(h)
  /\ UNCHANGED <<renamed, policyVars>>

\* updateStatusSettings gives an organization another slug, in StatusPage.
Rename ==
  /\ \E s \in slugs : slugs' = slugs \ {s}
  /\ renamed' = TRUE
  /\ UNCHANGED <<frame, policyVars>>

-----------------------------------------------------------------------------
(* The policy.                                                             *)

\* updatePolicies: getPolicyForOrg makes the row if there is none ...
PolicyRead(h, list) ==
  /\ policy' = TRUE
  /\ Serve(h, [op |-> "policy", list |-> list, seen |-> allowlist])
  /\ overlapped' = (overlapped \/ Serving("policy") # {})
  /\ UNCHANGED <<orgVars, allowlist, asked>>

\* Mutant: a change that does not name the list clears it.
PolicyWriteClears(h) ==
  /\ At(h, "policy")
  /\ LET f == frame[h]
     IN  /\ allowlist' = IF f.list = NoChange THEN Empty ELSE f.list
         /\ asked' = IF f.list = NoChange THEN asked ELSE f.list
  /\ Finish(h)
  /\ UNCHANGED <<orgVars, policy, overlapped>>

\* ... and the change is stored; one that does not name the list stores the one read.
PolicyWrite(h) ==
  /\ At(h, "policy")
  /\ LET f == frame[h]
     IN  /\ allowlist' = IF f.list = NoChange THEN f.seen ELSE f.list
         /\ asked' = IF f.list = NoChange THEN asked ELSE f.list
  /\ Finish(h)
  /\ UNCHANGED <<orgVars, policy, overlapped>>

Lost(h) ==
  /\ Drop(h)
  /\ UNCHANGED <<orgVars, policyVars>>

Next ==
  \/ Rename
  \/ \E h \in Handlers :
       \/ CreateBegin(h) \/ Probe(h) \/ CreateInsert(h)
       \/ \E list \in Lists \cup {NoChange} : PolicyRead(h, list)
       \/ PolicyWrite(h) \/ Lost(h)

Spec == Init /\ [][Next]_vars

-----------------------------------------------------------------------------
(* Properties.                                                             *)

(* Organizations created under one name, at the same time or not, are      *)
(* numbered without a gap, as long as none of them leaves its slug: a      *)
(* creation whose slug was taken fails instead of skipping it              *)
(* (ensureUniqueSlug).                                                     *)
SlugsContiguous == ~renamed => \A s \in slugs : 1..s \subseteq slugs

(* The allowlist is the one somebody asked for last, also when changes of  *)
(* other settings come between; only one that overlaps puts an older list  *)
(* back (updatePolicies).                                                  *)
AllowlistAsAsked == ~overlapped => allowlist = asked
=============================================================================
