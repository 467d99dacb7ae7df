------------------------------ MODULE Members ------------------------------
(***************************************************************************)
(* The members of an organization and the invitations to it                *)
(* (org-members/org-members.service.ts).  Roles, names and passwords are   *)
(* left out.                                                               *)
(*                                                                         *)
(* A membership row is keyed by email.  Inviting spans five round trips    *)
(* and takes no transaction; accepting is one transaction whose guard on   *)
(* usedAt is part of the update.                                           *)
(***************************************************************************)
EXTENDS Server

CONSTANTS
  People,       \* email addresses
  MaxInvites,   \* bound on the invitations sent to one address
  MaxRemovals,  \* bound on the removals of one member
  SeatLimit,    \* seats of the plan
  InviteLimit   \* INVITE_DAILY_LIMIT

Invites == People \X (1..MaxInvites)

VARIABLES
  users,     \* addresses that have an account, active or not
  member,    \* status of its membership row
  linked,    \* addresses whose membership row has a userId
  invite,    \* state of each invitation
  sent,      \* invitations sent in the last 24 hours
  joins,     \* acceptances of each invitation
  removals   \* writes of REMOVED, by address

memberVars == <<users, member, linked, invite, sent, joins, removals>>
vars == <<frame, memberVars>>

Requests ==
  [op : {"seats", "lookup", "void", "upsert", "insert"}, p : People]
  \cup [op : {"accept"}, i : Invites]
  \cup [op : {"member"}, p : People, to : {"INVITED", "ACTIVE", "REMOVED"}]

TypeOK ==
  /\ frame \in [Handlers -> {Idle} \cup Requests]
  /\ users \subseteq People
  /\ member \in [People -> {"none", "INVITED", "ACTIVE", "REMOVED"}]
  /\ linked \subseteq People
  /\ invite \in [Invites -> {"unsent", "open", "expired", "used"}]
  /\ sent \in Nat
  /\ joins \in [Invites -> Nat]
  /\ removals \in [People -> 0..MaxRemovals]

Init ==
  /\ ServerInit
  /\ users \in SUBSET People
  /\ member = [p \in People |-> "none"]
  /\ linked = {}
  /\ invite = [i \in Invites |-> "unsent"]
  /\ sent = 0
  /\ joins = [i \in Invites |-> 0]
  /\ removals = [p \in People |-> 0]

-----------------------------------------------------------------------------
(* Invitations.                                                            *)

\* invite: enforceInviteRateLimit counts the invitations of the last day ...
InviteCount(h, p) ==
  /\ sent < InviteLimit
  /\ Serve(h, [op |-> "seats", p |-> p])
  /\ UNCHANGED memberVars

\* ... assertSeatAvailable the active members ...
InviteSeats(h) ==
  /\ At(h, "seats")
  /\ IF Cardinality({p \in People : member[p] = "ACTIVE"}) < SeatLimit
     THEN GoOn(h, [op |-> "lookup", p |-> frame[h].p])
     ELSE Finish(h)
  /\ UNCHANGED memberVars

\* ... the row of the address is looked up ...
InviteLookUp(h) ==
  /\ At(h, "lookup")
  /\ LET p == frame[h].p
     IN  CASE member[p] = "ACTIVE"  -> Finish(h)
           [] member[p] = "INVITED" -> GoOn(h, [op |-> "void", p |-> p])
           [] OTHER                 -> GoOn(h, [op |-> "upsert", p |-> p])
  /\ UNCHANGED memberVars

\* ... and the open invitations of somebody who is INVITED are used up ...
InviteVoid(h) ==
  /\ At(h, "void")
  /\ invite' = [i \in Invites |-> IF i[1] = frame[h].p /\ invite[i] # "unsent" THEN "used" ELSE invite[i]]
  /\ GoOn(h, [op |-> "upsert", p |-> frame[h].p])
  /\ UNCHANGED <<users, member, linked, sent, joins, removals>>

\* ... the row becomes INVITED, whatever it is by now ...
InviteUpsert(h) ==
  /\ At(h, "upsert")
  /\ LET p == frame[h].p
     IN  /\ member' = [member EXCEPT ![p] = "INVITED"]
         /\ linked' = IF p \in users THEN linked \cup {p} ELSE linked
         /\ GoOn(h, [op |-> "insert", p |-> p])
  /\ UNCHANGED <<users, invite, sent, joins, removals>>

\* ... and a new invitation is stored.
InviteInsert(h) ==
  /\ At(h, "insert")
  /\ \E n \in 1..MaxInvites :
       /\ invite[<<frame[h].p, n>>] = "unsent"
       /\ \A k \in 1..(n - 1) : invite[<<frame[h].p, k>>] # "unsent"
       /\ invite' = [invite EXCEPT ![<<frame[h].p, n>>] = "open"]
  /\ sent' = sent + 1
  /\ Finish(h)
  /\ UNCHANGED <<users, member, linked, joins, removals>>

\* 48 hours pass.
InviteExpires(i) ==
  /\ invite[i] = "open"
  /\ invite' = [invite EXCEPT ![i] = "expired"]
  /\ UNCHANGED <<frame, users, member, linked, sent, joins, removals>>

\* The invitations counted so far leave the window of 24 hours.
DayPasses ==
  /\ sent > 0
  /\ sent' = 0
  /\ UNCHANGED <<frame, users, member, linked, invite, joins, removals>>

\* acceptInvite finds the open invitation ...
AcceptRead(h, i) ==
  /\ invite[i] = "open"
  /\ Serve(h, [op |-> "accept", i |-> i])
  /\ UNCHANGED memberVars

\* The person the invitation makes a member, with an account if there was none.
Join(i) ==
  /\ invite' = [invite EXCEPT ![i] = "used"]
  /\ joins' = [joins EXCEPT ![i] = @ + 1]
  /\ users' = users \cup {i[1]}
  /\ member' = [member EXCEPT ![i[1]] = "ACTIVE"]
  /\ linked' = linked \cup {i[1]}

\* Mutant: the number of rows the update changed is not looked at.
AcceptBlindly(h) ==
  /\ At(h, "accept")
  /\ Join(frame[h].i)
  /\ Finish(h)
  /\ UNCHANGED <<sent, removals>>

\* ... and in one transaction uses it up, unless it was used since; it may have expired.
AcceptWrite(h) ==
  /\ At(h, "accept")
  /\ IF invite[frame[h].i] = "used"
     THEN UNCHANGED <<users, member, linked, invite, joins>>
     ELSE Join(frame[h].i)
  /\ Finish(h)
  /\ UNCHANGED <<sent, removals>>

\* updateMember reads the row by userId ...
MemberRead(h, p, s) ==
  /\ p \in linked
  /\ removals[p] < MaxRemovals
  /\ Serve(h, [op |-> "member", p |-> p, to |-> s])
  /\ UNCHANGED memberVars

\* ... and writes the status asked for, from any status and without a look at the seats.
MemberWrite(h) ==
  /\ At(h, "member")
  /\ LET p == frame[h].p
         s == frame[h].to
     IN  /\ member' = [member EXCEPT ![p] = s]
         /\ s = "REMOVED" => removals[p] < MaxRemovals
         /\ removals' = [removals EXCEPT ![p] = IF s = "REMOVED" THEN @ + 1 ELSE @]
  /\ Finish(h)
  /\ UNCHANGED <<users, linked, invite, sent, joins>>

\* users.create of somebody who may have been invited before.
CreateUser(p) ==
  /\ users' = users \cup {p}
  /\ UNCHANGED <<frame, member, linked, invite, sent, joins, removals>>

Lost(h) ==
  /\ Drop(h)
  /\ UNCHANGED memberVars

Next ==
  \/ \E h \in Handlers :
       \/ InviteSeats(h) \/ InviteLookUp(h) \/ InviteVoid(h) \/ InviteUpsert(h) \/ InviteInsert(h)
       \/ AcceptWrite(h) \/ MemberWrite(h) \/ Lost(h)
       \/ \E p \in People :
            \/ InviteCount(h, p)
            \/ \E s \in {"INVITED", "ACTIVE", "REMOVED"} : MemberRead(h, p, s)
       \/ \E i \in Invites : AcceptRead(h, i)
  \/ \E i \in Invites : InviteExpires(i)
  \/ \E p \in People \ users : CreateUser(p)
  \/ DayPasses

Spec == Init /\ [][Next]_vars

-----------------------------------------------------------------------------
(* Properties.                                                             *)

(* An invitation makes somebody a member at most once, however many        *)
(* requests present it at the same time (acceptInvite).                    *)
InvitesJoinOnce == \A i \in Invites : joins[i] <= 1

OpenInvites(p) == {i \in Invites : i[1] = p /\ invite[i] = "open"}

(* Sending an invitation uses up the earlier ones of somebody who is       *)
(* INVITED, but not those left over when the member was removed: no more   *)
(* than one for each handler stay open for each time the member was        *)
(* removed, and as many before (invite, updateMember).                     *)
OpenInvitesBounded ==
  \A p \in People :
    Cardinality(OpenInvites(p)) <= Cardinality(Handlers) * (1 + removals[p])

(* Requests that count at the same time exceed the daily limit of          *)
(* invitations by less than one for each handler (enforceInviteRateLimit). *)
InviteOvershoot == sent < InviteLimit + Cardinality(Handlers)
=============================================================================
