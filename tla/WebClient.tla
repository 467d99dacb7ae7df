----------------------------- MODULE WebClient ------------------------------
(***************************************************************************)
(* One tab of the web application and its session (apps/web/src/lib/       *)
(* api.ts, auth.ts, use-auth-user.ts, and the components that log in and   *)
(* out and switch organizations).  The access token is a variable of the   *)
(* tab; a page copies it when it opens and sends its copy.  A call that is *)
(* refused asks for a new token, one request for all that wait, and is     *)
(* sent once more.  The refresh token is a cookie; what it is exchanged    *)
(* for is a token of the user's own organization.  Here Handlers are calls *)
(* of the tab.                                                             *)
(***************************************************************************)
EXTENDS Server

CONSTANT MaxTokens   \* bound on the access tokens issued

Tokens == 1..MaxTokens
NoToken == 0
OrgIds == {"own", "other"}

VARIABLES
  issued,      \* of each access token issued: its organization
  expired,     \* the access tokens that have expired
  memory,      \* accessToken of lib/auth.ts
  held,        \* the token of the open page; NoToken where none is open
  loading,     \* whether a page waits for a token before it opens
  cookie,      \* whether the refresh cookie would be taken
  refreshing,  \* refreshPromise: none, asked, refused, or answered with a token
  chosen,      \* the organization the user chose last
  settled,     \* since then: kept while the tab has the token of the choice, opened when a page
               \* has opened with it, no once the tab was loaded anew or a token refreshed
  signedOut,   \* whether the user has signed out while nothing was under way
  twice,       \* whether a call was executed twice
  strayed      \* whether a page opened with the token of the choice acted elsewhere

tabVars == <<memory, held, loading, cookie, refreshing, chosen, settled, signedOut>>
vars == <<frame, issued, expired, tabVars, twice, strayed>>

Kinds == {"call", "switch"}
NoRefresh == [at |-> "none", token |-> NoToken]

TypeOK ==
  /\ frame \in [Handlers -> {Idle} \cup [op : {"sent", "resent", "switched"}, kind : Kinds, token : Tokens, done : BOOLEAN]
                            \cup [op : {"refused", "waiting"}, kind : Kinds, done : BOOLEAN]]
  /\ DOMAIN issued \subseteq Tokens /\ \A t \in DOMAIN issued : issued[t] \in OrgIds
  /\ expired \subseteq DOMAIN issued
  /\ memory \in {NoToken} \cup DOMAIN issued /\ held \in {NoToken} \cup DOMAIN issued
  /\ refreshing \in [at : {"none", "asked", "refused", "answered"}, token : {NoToken} \cup DOMAIN issued]
  /\ chosen \in OrgIds /\ settled \in {"no", "kept", "opened"}
  /\ {loading, cookie, signedOut, twice, strayed} \subseteq BOOLEAN

\* The tab is on the sign-in page.
Init ==
  /\ ServerInit
  /\ issued = [t \in {} |-> "own"] /\ expired = {}
  /\ memory = NoToken /\ held = NoToken /\ loading = FALSE /\ cookie = FALSE /\ refreshing = NoRefresh
  /\ chosen = "own" /\ settled = "no" /\ signedOut = FALSE
  /\ twice = FALSE /\ strayed = FALSE

Latest == Cardinality(DOMAIN issued)

\* The API issues a token of organization o.
Issue(o) ==
  /\ Latest < MaxTokens
  /\ issued' = [t \in 1..(Latest + 1) |-> IF t <= Latest THEN issued[t] ELSE o]

TokenExpires(t) ==
  /\ t \in DOMAIN issued \ expired
  /\ expired' = expired \cup {t}
  /\ UNCHANGED <<frame, issued, tabVars, twice, strayed>>

\* Whoever needs a refresh joins the one under way, or starts one.
Join == refreshing' = IF refreshing = NoRefresh THEN [NoRefresh EXCEPT !.at = "asked"] ELSE refreshing

-----------------------------------------------------------------------------
(* Signing in, opening pages, signing out.                                 *)

\* login/page.tsx: the token is kept, and the first page opens with it.
SignIn ==
  /\ held = NoToken /\ ~loading
  /\ Issue("own")
  /\ memory' = Latest + 1
  /\ held' = Latest + 1
  /\ cookie' = TRUE /\ chosen' = "own" /\ settled' = "opened" /\ signedOut' = FALSE
  /\ UNCHANGED <<frame, expired, loading, refreshing, twice, strayed>>

\* useAuthUser, on the next page: it takes the token of the tab ...
OpenPage ==
  /\ memory # NoToken /\ held # NoToken
  /\ held' = memory
  /\ settled' = IF settled = "kept" THEN "opened" ELSE settled
  /\ UNCHANGED <<frame, issued, expired, memory, loading, cookie, refreshing, chosen, signedOut, twice, strayed>>

\* ... or, where that was cleared, asks for one.
OpenPageWithout ==
  /\ memory = NoToken /\ held # NoToken
  /\ held' = NoToken /\ loading' = TRUE
  /\ Join
  /\ UNCHANGED <<frame, issued, expired, memory, cookie, chosen, settled, signedOut, twice, strayed>>

\* The tab is loaded anew, as onSwitchOrg does 120 ms after a switch: it starts without a token.
Reload ==
  /\ held # NoToken
  /\ memory' = NoToken /\ held' = NoToken /\ loading' = TRUE
  /\ frame' = [h \in Handlers |-> Idle]
  /\ refreshing' = [NoRefresh EXCEPT !.at = "asked"]
  /\ settled' = "no"
  /\ UNCHANGED <<issued, expired, cookie, chosen, signedOut, twice, strayed>>

\* onLogout: the server revokes what the cookie holds, or the request fails; the token is cleared.
SignOut ==
  /\ held # NoToken
  /\ memory' = NoToken /\ held' = NoToken
  /\ cookie' \in {FALSE, cookie}
  /\ signedOut' = (refreshing = NoRefresh /\ \A h \in Handlers : frame[h] = Idle)
  /\ UNCHANGED <<frame, issued, expired, loading, refreshing, chosen, settled, twice, strayed>>

-----------------------------------------------------------------------------
(* Calls.                                                                  *)

\* A button or an effect calls the API with the page's token.
Call(h) ==
  /\ held # NoToken
  /\ Serve(h, [op |-> "sent", kind |-> "call", token |-> held, done |-> FALSE])
  /\ UNCHANGED <<issued, expired, tabVars, twice, strayed>>

\* onSwitchOrg, of the switcher and of the portfolio page.
Switch(h) ==
  /\ held # NoToken /\ chosen = "own"
  /\ Serve(h, [op |-> "sent", kind |-> "switch", token |-> held, done |-> FALSE])
  /\ UNCHANGED <<issued, expired, tabVars, twice, strayed>>

Asking(h, kind) == frame[h].op \in {"sent", "resent"} /\ frame[h].kind = kind
Taken(h) == frame[h].token \notin expired

\* What the API does for a call whose token it takes.
Executed(h) ==
  /\ twice' = (twice \/ frame[h].done)
  /\ strayed' = (strayed \/ (settled = "opened" /\ frame[h].token = held /\ issued[held] # chosen))

\* The API executes the call and answers ...
Accept(h) ==
  /\ Asking(h, "call") /\ Taken(h)
  /\ Executed(h)
  /\ Finish(h)
  /\ UNCHANGED <<issued, expired, tabVars>>

\* ... or answers a switch with a token of the other organization ...
AcceptSwitch(h) ==
  /\ Asking(h, "switch") /\ Taken(h)
  /\ Issue("other")
  /\ GoOn(h, [frame[h] EXCEPT !.op = "switched", !.token = Latest + 1])
  /\ UNCHANGED <<expired, tabVars, twice, strayed>>

\* ... or with 401; who was sent again gets that answer.
Refuse(h) ==
  /\ frame[h].op \in {"sent", "resent"} /\ ~Taken(h)
  /\ IF At(h, "sent")
     THEN GoOn(h, [op |-> "refused", kind |-> frame[h].kind, done |-> FALSE])
     ELSE Finish(h)
  /\ UNCHANGED <<issued, expired, tabVars, twice, strayed>>

\* Mutant: a call without an answer is taken for one that was refused.
TimeOutAndRetry(h) ==
  /\ Asking(h, "call")
  /\ IF Taken(h) THEN Executed(h) ELSE UNCHANGED <<twice, strayed>>
  /\ GoOn(h, [op |-> "refused", kind |-> "call", done |-> Taken(h)])
  /\ UNCHANGED <<issued, expired, tabVars>>

\* No answer within ten seconds, executed or not: the page gets an error.
TimeOut(h) ==
  /\ frame[h].op \in {"sent", "resent", "switched"}
  /\ IF Asking(h, "call") /\ Taken(h) THEN Executed(h) ELSE UNCHANGED <<twice, strayed>>
  /\ Finish(h)
  /\ UNCHANGED <<issued, expired, tabVars>>

\* request: what was refused joins the refresh.
Wait(h) ==
  /\ At(h, "refused")
  /\ Join
  /\ GoOn(h, [frame[h] EXCEPT !.op = "waiting"])
  /\ UNCHANGED <<issued, expired, memory, held, loading, cookie, chosen, settled, signedOut, twice, strayed>>

\* Mutant: the new token is not kept.
SwitchForgotten(h) ==
  /\ At(h, "switched")
  /\ chosen' = "other"
  /\ settled' = "kept"
  /\ Finish(h)
  /\ UNCHANGED <<issued, expired, memory, held, loading, cookie, refreshing, signedOut, twice, strayed>>

\* The answer to a switch is the tab's token, for the pages opened from now on.
SwitchDone(h) ==
  /\ At(h, "switched")
  /\ memory' = frame[h].token
  /\ chosen' = "other"
  /\ settled' = "kept"
  /\ Finish(h)
  /\ UNCHANGED <<issued, expired, held, loading, cookie, refreshing, signedOut, twice, strayed>>

-----------------------------------------------------------------------------
(* Refreshing.                                                             *)

\* The API exchanges the cookie for a token of the user's own organization ...
RefreshServed ==
  /\ refreshing.at = "asked" /\ cookie
  /\ Issue("own")
  /\ refreshing' = [at |-> "answered", token |-> Latest + 1]
  /\ UNCHANGED <<frame, expired, memory, held, loading, cookie, chosen, settled, signedOut, twice, strayed>>

\* ... or refuses; so does a request that fails.
RefreshRefused ==
  /\ refreshing.at = "asked"
  /\ refreshing' = [NoRefresh EXCEPT !.at = "refused"]
  /\ UNCHANGED <<frame, issued, expired, memory, held, loading, cookie, chosen, settled, signedOut, twice, strayed>>

\* Mutant: those who wait for the answer are forgotten.
RefreshWakesNobody ==
  /\ refreshing.at = "answered"
  /\ memory' = refreshing.token
  /\ held' = IF loading THEN refreshing.token ELSE held
  /\ loading' = FALSE /\ cookie' = TRUE /\ refreshing' = NoRefresh /\ settled' = "no"
  /\ UNCHANGED <<frame, issued, expired, chosen, signedOut, twice, strayed>>

\* The answer: its cookie and its token are kept, a page that was loading opens, and who waited
\* is sent again with it, ...
RefreshDone ==
  /\ refreshing.at = "answered"
  /\ memory' = refreshing.token
  /\ held' = IF loading THEN refreshing.token ELSE held
  /\ frame' = [h \in Handlers |->
                 IF At(h, "waiting")
                 THEN [op |-> "resent", kind |-> frame[h].kind, token |-> refreshing.token, done |-> frame[h].done]
                 ELSE frame[h]]
  /\ loading' = FALSE /\ cookie' = TRUE /\ refreshing' = NoRefresh /\ settled' = "no"
  /\ UNCHANGED <<issued, expired, chosen, signedOut, twice, strayed>>

\* ... or the token is cleared, who waited gets the 401, and a page that was loading becomes the
\* sign-in page.
RefreshFailed ==
  /\ refreshing.at = "refused"
  /\ memory' = NoToken
  /\ frame' = [h \in Handlers |-> IF At(h, "waiting") THEN Idle ELSE frame[h]]
  /\ loading' = FALSE /\ refreshing' = NoRefresh
  /\ UNCHANGED <<issued, expired, held, cookie, chosen, settled, signedOut, twice, strayed>>

Next ==
  \/ SignIn \/ OpenPage \/ OpenPageWithout \/ Reload \/ SignOut
  \/ RefreshServed \/ RefreshRefused \/ RefreshDone \/ RefreshFailed
  \/ \E t \in Tokens : TokenExpires(t)
  \/ \E h \in Handlers :
       \/ Call(h) \/ Switch(h) \/ Accept(h) \/ AcceptSwitch(h) \/ Refuse(h)
       \/ TimeOut(h) \/ Wait(h) \/ SwitchDone(h)

Spec == Init /\ [][Next]_vars

-----------------------------------------------------------------------------
(* Properties.                                                             *)

(* A call is executed at most once, however many tokens it was sent with:  *)
(* only a 401, which executes nothing, is answered by sending it again     *)
(* (request).                                                              *)
CalledOnce == ~twice

(* A page opened after a switch acts in the organization switched to,      *)
(* until the tab is loaded again or a token refreshed: both bring back a   *)
(* token of the user's own organization (refresh, onSwitchOrg).            *)
ActsWhereChosen == ~strayed

(* Nobody waits without a refresh under way: refreshPromise is cleared in  *)
(* the turn in which those who wait for it go on (refreshAccessToken).     *)
NobodyIsForgotten ==
  Serving("waiting") # {} \/ loading => refreshing # NoRefresh

(* After the user has signed out while nothing was under way, the tab has  *)
(* no token until somebody signs in, whether the server heard of it or not *)
(* (onLogout).                                                             *)
SignedOutStays ==
  signedOut => memory = NoToken /\ held = NoToken
=============================================================================
