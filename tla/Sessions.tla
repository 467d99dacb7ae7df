------------------------------ MODULE Sessions ------------------------------
(***************************************************************************)
(* Accounts (users/users.service.ts) and their sessions                    *)
(* (auth/auth.service.ts).  A session is a chain of refresh tokens, each   *)
(* replaced by the next.  Login looks at the account and at the membership *)
(* row, refresh at the account alone; deactivating somebody revokes none   *)
(* of their tokens.  Access tokens, which no row stands for, are left out. *)
(***************************************************************************)
EXTENDS Server

CONSTANTS
  People,      \* email addresses
  MaxTokens    \* bound on the refresh tokens issued to one address

Tokens == People \X (1..MaxTokens)

VARIABLES
  account,   \* the users row of each address: none, active or inactive
  barred,    \* addresses with a membership row that is INVITED or REMOVED
  token,     \* state of each refresh token
  forks,     \* tokens issued in exchange for each of them
  late       \* tokens issued to an account since it was deactivated

sessionVars == <<account, barred, token, forks, late>>
vars == <<frame, sessionVars>>

TypeOK ==
  /\ frame \in [Handlers -> {Idle} \cup [op : {"login", "deactivate", "reactivate"}, p : People]
                                   \cup [op : {"refresh", "logout"}, t : Tokens]]
  /\ account \in [People -> {"none", "active", "inactive"}]
  /\ barred \subseteq People
  /\ token \in [Tokens -> {"unissued", "live", "revoked", "expired"}]
  /\ forks \in [Tokens -> Nat]
  /\ late \in [People -> Nat]

Init ==
  /\ ServerInit
  /\ account = [p \in People |-> "none"]
  /\ barred = {}
  /\ token = [t \in Tokens |-> "unissued"]
  /\ forks = [t \in Tokens |-> 0]
  /\ late = [p \in People |-> 0]

-----------------------------------------------------------------------------
(* Accounts.                                                               *)

\* users.create, and the acceptance of an invitation by somebody new.
CreateUser(p) ==
  /\ account[p] = "none"
  /\ account' = [account EXCEPT ![p] = "active"]
  /\ UNCHANGED <<frame, barred, token, forks, late>>

DeactivateRead(h, p) ==
  /\ account[p] = "active"
  /\ Serve(h, [op |-> "deactivate", p |-> p])
  /\ UNCHANGED sessionVars

\* isActive is written by id, whatever it is by now.
DeactivateWrite(h) ==
  /\ At(h, "deactivate")
  /\ account' = [account EXCEPT ![frame[h].p] = "inactive"]
  /\ Finish(h)
  /\ UNCHANGED <<barred, token, forks, late>>

ReactivateRead(h, p) ==
  /\ account[p] = "inactive"
  /\ Serve(h, [op |-> "reactivate", p |-> p])
  /\ UNCHANGED sessionVars

ReactivateWrite(h) ==
  /\ At(h, "reactivate")
  /\ account' = [account EXCEPT ![frame[h].p] = "active"]
  /\ late' = [late EXCEPT ![frame[h].p] = 0]
  /\ Finish(h)
  /\ UNCHANGED <<barred, token, forks>>

\* updateMember, an invitation or its acceptance, in Members.
MembershipChanges(p) ==
  /\ barred' = IF p \in barred THEN barred \ {p} ELSE barred \cup {p}
  /\ UNCHANGED <<frame, account, token, forks, late>>

-----------------------------------------------------------------------------
(* Refresh tokens.                                                         *)

\* A new token of p in a store where the others are as in tokens.
Issue(p, tokens) ==
  /\ \E n \in 1..MaxTokens :
       /\ token[<<p, n>>] = "unissued"
       /\ \A k \in 1..(n - 1) : token[<<p, k>>] # "unissued"
       /\ token' = [tokens EXCEPT ![<<p, n>>] = "live"]
  /\ late' = [late EXCEPT ![p] = IF account[p] = "active" THEN @ ELSE @ + 1]

\* login: the account is active, and a membership row, if there is one, too ...
LoginRead(h, p) ==
  /\ account[p] = "active"
  /\ p \notin barred
  /\ Serve(h, [op |-> "login", p |-> p])
  /\ UNCHANGED sessionVars

\* ... and, the password compared, a token is stored.
LoginWrite(h) ==
  /\ At(h, "login")
  /\ Issue(frame[h].p, token)
  /\ Finish(h)
  /\ UNCHANGED <<account, barred, forks>>

\* Mutant: the account behind a token is not looked at.
RefreshReadBlindly(h, t) ==
  /\ token[t] = "live"
  /\ Serve(h, [op |-> "refresh", t |-> t])
  /\ UNCHANGED sessionVars

\* refresh: the token is neither revoked nor expired, its owner active ...
RefreshRead(h, t) ==
  /\ token[t] = "live"
  /\ account[t[1]] = "active"
  /\ Serve(h, [op |-> "refresh", t |-> t])
  /\ UNCHANGED sessionVars

\* ... and one transaction stores its successor and revokes it by id.
RefreshWrite(h) ==
  /\ At(h, "refresh")
  /\ LET t == frame[h].t
     IN  /\ Issue(t[1], [token EXCEPT ![t] = "revoked"])
         /\ forks' = [forks EXCEPT ![t] = @ + 1]
  /\ Finish(h)
  /\ UNCHANGED <<account, barred>>

\* logout finds a token that is not revoked; it may have expired ...
LogoutRead(h, t) ==
  /\ token[t] \in {"live", "expired"}
  /\ Serve(h, [op |-> "logout", t |-> t])
  /\ UNCHANGED sessionVars

\* ... and revokes it.
LogoutWrite(h) ==
  /\ At(h, "logout")
  /\ token' = [token EXCEPT ![frame[h].t] = "revoked"]
  /\ Finish(h)
  /\ UNCHANGED <<account, barred, forks, late>>

TokenExpires(t) ==
  /\ token[t] = "live"
  /\ token' = [token EXCEPT ![t] = "expired"]
  /\ UNCHANGED <<frame, account, barred, forks, late>>

Lost(h) ==
  /\ Drop(h)
  /\ UNCHANGED sessionVars

Next ==
  \/ \E h \in Handlers :
       \/ LoginWrite(h) \/ RefreshWrite(h) \/ LogoutWrite(h)
       \/ DeactivateWrite(h) \/ ReactivateWrite(h) \/ Lost(h)
       \/ \E p \in People : LoginRead(h, p) \/ DeactivateRead(h, p) \/ ReactivateRead(h, p)
       \/ \E t \in Tokens : RefreshRead(h, t) \/ LogoutRead(h, t)
  \/ \E t \in Tokens : TokenExpires(t)
  \/ \E p \in People : CreateUser(p) \/ MembershipChanges(p)

Spec == Init /\ [][Next]_vars

-----------------------------------------------------------------------------
(* Properties.                                                             *)

(* A deactivated account receives no more new sessions than there are      *)
(* other handlers: each was past its look at isActive when the account was *)
(* deactivated, and none of them can be refreshed (login, refresh).        *)
LateSessionsBounded ==
  \A p \in People : late[p] < Cardinality(Handlers)

(* A refresh token is exchanged at most once for each handler: refreshes   *)
(* that overlap each issue a successor, but none that starts after one of  *)
(* them, or after a logout, has ended (refresh, logout).                   *)
ForksBounded ==
  \A t \in Tokens : forks[t] <= Cardinality(Handlers)

(* A token that was exchanged stays revoked, whatever order refreshes and  *)
(* logouts write in, so a chain never has two usable links (refresh).      *)
ExchangedAreRevoked ==
  \A t \in Tokens : forks[t] > 0 => token[t] = "revoked"
=============================================================================
