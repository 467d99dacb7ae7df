---------------------------- MODULE WorkProofs ------------------------------
(* Proofs about the components of Platform that people work with: the web application and its pages,   *)
(* nudges, insights, sales, and the jobs and reports that run for them.                                *)
EXTENDS AccessProofs

-----------------------------------------------------------------------------
(* A tab of the web application.                                           *)

\* Sets are counted as everywhere.
LEMMA WebClientCount ==
  \A S : WebClient!IsFiniteSet(S) = IsFiniteSet(S) /\ WebClient!Cardinality(S) = Cardinality(S)
BY DEF WebClient!IsFiniteSet, IsFiniteSet, WebClient!Cardinality, Cardinality

WebClientFrames == {WebClient!Idle} \cup [op : {"sent", "resent", "switched"}, kind : WebClient!Kinds, token : WebClient!Tokens, done : BOOLEAN]
                   \cup [op : {"refused", "waiting"}, kind : WebClient!Kinds, done : BOOLEAN]

\* A step of the call h, and of the tab.
WebClientStepOf(h) ==
  \/ WebClient!Call(h) \/ WebClient!Switch(h) \/ WebClient!Accept(h) \/ WebClient!AcceptSwitch(h) \/ WebClient!Refuse(h)
  \/ WebClient!TimeOut(h) \/ WebClient!Wait(h) \/ WebClient!SwitchDone(h)
WebClientTabStep ==
  \/ WebClient!SignIn \/ WebClient!OpenPage \/ WebClient!OpenPageWithout \/ WebClient!Reload \/ WebClient!SignOut
  \/ WebClient!RefreshServed \/ WebClient!RefreshRefused \/ WebClient!RefreshDone \/ WebClient!RefreshFailed
  \/ \E t \in WebClient!Tokens : WebClient!TokenExpires(t)

\* Tokens are numbered as they are issued, and whoever has an answer has the token of it.
WebClientTokenInv ==
  /\ WebClient!Latest \in 0..MaxTokens /\ DOMAIN issued = 1..WebClient!Latest
  /\ refreshing.at = "answered" => refreshing.token \in DOMAIN issued
  /\ \A h \in WebClient!Serving("switched") : frame[h].token \in DOMAIN issued

\* No call that was executed is still to be sent.
WebClientCallInv == ~twice /\ \A h \in Handlers : frame[h] # WebClient!Idle => frame[h].done = FALSE

\* What the tab and the page hold is of the organization chosen, as far as settled says so.
WebClientChoiceInv ==
  /\ ~strayed
  /\ settled \in {"kept", "opened"} /\ memory # WebClient!NoToken => issued[memory] = chosen
  /\ settled = "opened" /\ held # WebClient!NoToken => issued[held] = chosen
  /\ \A h \in WebClient!Serving("switched") : issued[frame[h].token] = "other"

\* Who has signed out in peace has left nothing that could bring a token.
WebClientOutInv ==
  signedOut =>
    /\ memory = WebClient!NoToken /\ held = WebClient!NoToken /\ refreshing = WebClient!NoRefresh /\ ~loading
    /\ \A h \in Handlers : frame[h] = WebClient!Idle

\* Types.

LEMMA WebClientParts == ASSUME WebClient!Next PROVE WebClientTabStep \/ \E h \in Handlers : WebClientStepOf(h)
BY DEF WebClient!Next, WebClientTabStep, WebClientStepOf

LEMMA WebClientFrameParts ==
  ASSUME frame \in [Handlers -> WebClientFrames], NEW h \in Handlers
  PROVE  /\ frame[h].op \in {"idle", "sent", "resent", "switched", "refused", "waiting"}
         /\ (frame[h].op = "idle" <=> frame[h] = WebClient!Idle)
         /\ frame[h] # WebClient!Idle => frame[h].kind \in WebClient!Kinds /\ frame[h].done \in BOOLEAN
         /\ frame[h].op \in {"sent", "resent", "switched"} =>
              /\ frame[h].token \in WebClient!Tokens
              /\ frame[h] = [op |-> frame[h].op, kind |-> frame[h].kind, token |-> frame[h].token, done |-> frame[h].done]
         /\ frame[h].op \in {"refused", "waiting"} =>
              frame[h] = [op |-> frame[h].op, kind |-> frame[h].kind, done |-> frame[h].done]
BY DEF WebClientFrames, WebClient!Idle

LEMMA WebClientIssues ==
  ASSUME WebClientTokenInv, NEW o \in WebClient!OrgIds, WebClient!Issue(o)
  PROVE  /\ WebClient!Latest + 1 \in WebClient!Tokens /\ WebClient!Latest + 1 \in DOMAIN issued' /\ WebClient!Latest + 1 # WebClient!NoToken
         /\ issued'[WebClient!Latest + 1] = o
         /\ \A t \in DOMAIN issued : t \in DOMAIN issued' /\ issued'[t] = issued[t]
         /\ \A t \in DOMAIN issued' : t \in DOMAIN issued \/ t = WebClient!Latest + 1
         /\ DOMAIN issued' = 1..WebClient!Latest' /\ WebClient!Latest' \in 0..MaxTokens /\ DOMAIN issued' \subseteq WebClient!Tokens
<1> DEFINE n == WebClient!Latest
<1>1. n \in 0..MaxTokens /\ DOMAIN issued = 1..n /\ n < MaxTokens
  BY DEF WebClientTokenInv, WebClient!Issue
<1>2. issued' = [t \in 1..(n + 1) |-> IF t <= n THEN issued[t] ELSE o]
  BY DEF WebClient!Issue
<1> HIDE DEF n
<1>3. n \in Nat /\ n + 1 \in 1..MaxTokens /\ 1..(n + 1) \subseteq 1..MaxTokens
  BY <1>1, WebConstants
<1>4. DOMAIN issued' = 1..(n + 1)
  BY <1>2
<1>5. Cardinality(1..(n + 1)) = n + 1
  BY <1>3, FS_Interval
<1>6. WebClient!Latest' = n + 1
  BY <1>4, <1>5, WebClientCount DEF WebClient!Latest
<1>7. /\ n + 1 \in DOMAIN issued' /\ issued'[n + 1] = o
      /\ \A t \in 1..n : t \in DOMAIN issued' /\ issued'[t] = issued[t]
      /\ \A t \in DOMAIN issued' : t \in 1..n \/ t = n + 1
  BY <1>2, <1>3
<1>8. n + 1 # WebClient!NoToken
  BY <1>3 DEF WebClient!NoToken
<1>9. QED
  BY <1>1, <1>3, <1>4, <1>6, <1>7, <1>8 DEF n, WebClient!Tokens

LEMMA WebClientMayIssue ==
  ASSUME [WebClient!Next]_(WebClient!vars)
  PROVE  \/ issued' = issued
         \/ \E o \in WebClient!OrgIds : WebClient!Issue(o)
<1>1. CASE WebClientTabStep
  BY <1>1 DEF WebClientTabStep, WebClient!SignIn, WebClient!OpenPage, WebClient!OpenPageWithout,
     WebClient!Reload, WebClient!SignOut, WebClient!RefreshServed, WebClient!RefreshRefused,
     WebClient!RefreshDone, WebClient!RefreshFailed, WebClient!TokenExpires, WebClient!OrgIds
<1>2. ASSUME NEW h \in Handlers, WebClientStepOf(h)
      PROVE  issued' = issued \/ \E o \in WebClient!OrgIds : WebClient!Issue(o)
  BY <1>2 DEF WebClientStepOf, WebClient!Call, WebClient!Switch, WebClient!Accept, WebClient!AcceptSwitch,
     WebClient!Refuse, WebClient!TimeOut, WebClient!Wait, WebClient!SwitchDone, WebClient!OrgIds
<1>3. CASE UNCHANGED WebClient!vars
  BY <1>3 DEF WebClient!vars
<1>4. QED
  BY <1>1, <1>2, <1>3, WebClientParts

\* The tokens issued stay so, and stay of their organizations.
LEMMA WebClientIssuedStay ==
  ASSUME WebClientTokenInv, [WebClient!Next]_(WebClient!vars)
  PROVE  /\ \A t \in DOMAIN issued : t \in DOMAIN issued' /\ issued'[t] = issued[t]
         /\ WebClient!Latest' \in 0..MaxTokens /\ DOMAIN issued' = 1..WebClient!Latest'
<1>1. CASE issued' = issued
  BY <1>1, WebClientCount DEF WebClientTokenInv, WebClient!Latest
<1>2. ASSUME NEW o \in WebClient!OrgIds, WebClient!Issue(o)
      PROVE  /\ \A t \in DOMAIN issued : t \in DOMAIN issued' /\ issued'[t] = issued[t]
             /\ WebClient!Latest' \in 0..MaxTokens /\ DOMAIN issued' = 1..WebClient!Latest'
  BY <1>2, WebClientIssues
<1>3. QED
  BY <1>1, <1>2, WebClientMayIssue

\* What a step of the call h does to it.
LEMMA WebClientCallMoves ==
  ASSUME frame \in [Handlers -> WebClientFrames], WebClientTokenInv, held \in {WebClient!NoToken} \cup DOMAIN issued,
         DOMAIN issued \subseteq WebClient!Tokens, NEW h \in Handlers, WebClientStepOf(h)
  PROVE  /\ frame'[h] \in WebClientFrames
         /\ \A g \in Handlers \ {h} : frame'[g] = frame[g]
         /\ frame' = [g \in Handlers |-> frame'[g]]
         /\ frame'[h] # WebClient!Idle => (frame'[h].done = FALSE \/ (frame[h] # WebClient!Idle /\ frame'[h].done = frame[h].done))
         /\ frame'[h].op = "waiting" => WebClient!Wait(h)
         /\ frame'[h].op = "switched" => WebClient!AcceptSwitch(h) /\ frame'[h].token = WebClient!Latest + 1
<1>0. WebClient!Idle \in WebClientFrames /\ WebClient!Idle.op = "idle"
  BY DEF WebClientFrames, WebClient!Idle
<1>1. ASSUME NEW f \in WebClientFrames, WebClient!GoOn(h, f)
      PROVE  /\ frame'[h] = f
             /\ \A g \in Handlers \ {h} : frame'[g] = frame[g]
             /\ frame' = [g \in Handlers |-> frame'[g]]
  BY <1>1 DEF WebClient!GoOn
<1>2. ASSUME NEW kind \in WebClient!Kinds, held # WebClient!NoToken,
             WebClient!GoOn(h, [op |-> "sent", kind |-> kind, token |-> held, done |-> FALSE])
      PROVE  /\ frame'[h] \in WebClientFrames /\ frame'[h].done = FALSE /\ frame'[h].op = "sent"
             /\ \A g \in Handlers \ {h} : frame'[g] = frame[g]
             /\ frame' = [g \in Handlers |-> frame'[g]]
  <2> DEFINE f == [op |-> "sent", kind |-> kind, token |-> held, done |-> FALSE]
  <2>1. held \in WebClient!Tokens
    BY <1>2
  <2>2. f \in WebClientFrames
    BY <2>1 DEF WebClientFrames
  <2>3. f.done = FALSE /\ f.op = "sent"
    OBVIOUS
  <2> HIDE DEF f
  <2>4. QED
    BY <1>1, <1>2, <2>2, <2>3 DEF f
<1>3. CASE WebClient!Call(h)
  BY <1>2, <1>3 DEF WebClient!Call, WebClient!Serve, WebClient!GoOn, WebClient!Kinds
<1>4. CASE WebClient!Switch(h)
  BY <1>2, <1>4 DEF WebClient!Switch, WebClient!Serve, WebClient!GoOn, WebClient!Kinds
<1>5. CASE WebClient!Finish(h)
  BY <1>0, <1>1, <1>5 DEF WebClient!Finish
<1>6. CASE WebClient!AcceptSwitch(h)
  <2> DEFINE f == [frame[h] EXCEPT !.op = "switched", !.token = WebClient!Latest + 1]
  <2>1. /\ frame[h].op \in {"sent", "resent"} /\ WebClient!GoOn(h, f)
        /\ WebClient!Latest + 1 \in WebClient!Tokens
    BY <1>6, WebClientIssues DEF WebClient!AcceptSwitch, WebClient!Asking, WebClient!OrgIds
  <2>2. /\ frame[h] = [op |-> frame[h].op, kind |-> frame[h].kind, token |-> frame[h].token, done |-> frame[h].done]
        /\ frame[h].kind \in WebClient!Kinds /\ frame[h].done \in BOOLEAN /\ frame[h] # WebClient!Idle
    BY <1>0, <2>1, WebClientFrameParts
  <2>3. f = [op |-> "switched", kind |-> frame[h].kind, token |-> WebClient!Latest + 1, done |-> frame[h].done]
    <3> DEFINE n == WebClient!Latest + 1
               r == frame[h]
               g == [r EXCEPT !.op = "switched"]
    <3> HIDE DEF n
    <3>1. g = [op |-> "switched", kind |-> r.kind, token |-> r.token, done |-> r.done]
      BY <2>2
    <3>2. [g EXCEPT !.token = n] = [op |-> "switched", kind |-> r.kind, token |-> n, done |-> r.done]
      <4> HIDE DEF g
      <4>1. QED
        BY <3>1
    <3>3. QED
      BY <3>2 DEF n, g
  <2>4. f \in WebClientFrames
    BY <2>1, <2>2, <2>3 DEF WebClientFrames
  <2>5. f.op = "switched" /\ f.token = WebClient!Latest + 1 /\ f.done = frame[h].done
    BY <2>3
  <2> HIDE DEF f
  <2>6. QED
    BY <1>1, <1>6, <2>1, <2>2, <2>4, <2>5
<1>7. CASE WebClient!Refuse(h)
  <2>1. CASE WebClient!At(h, "sent")
    <3> DEFINE f == [op |-> "refused", kind |-> frame[h].kind, done |-> FALSE]
    <3>1. WebClient!GoOn(h, f) /\ frame[h].kind \in WebClient!Kinds
      BY <1>0, <1>7, <2>1, WebClientFrameParts DEF WebClient!Refuse, WebClient!At
    <3>2. f \in WebClientFrames /\ f.done = FALSE /\ f.op = "refused"
      BY <3>1 DEF WebClientFrames
    <3> HIDE DEF f
    <3>3. QED
      BY <1>1, <3>1, <3>2
  <2>2. CASE ~WebClient!At(h, "sent")
    BY <1>5, <1>7, <2>2 DEF WebClient!Refuse
  <2>3. QED
    BY <2>1, <2>2
<1>8. CASE WebClient!Wait(h)
  <2> DEFINE f == [frame[h] EXCEPT !.op = "waiting"]
  <2>1. frame[h].op = "refused" /\ WebClient!GoOn(h, f)
    BY <1>8 DEF WebClient!Wait, WebClient!At
  <2>2. /\ frame[h] = [op |-> frame[h].op, kind |-> frame[h].kind, done |-> frame[h].done]
        /\ frame[h].kind \in WebClient!Kinds /\ frame[h].done \in BOOLEAN /\ frame[h] # WebClient!Idle
    BY <1>0, <2>1, WebClientFrameParts
  <2>3. f = [op |-> "waiting", kind |-> frame[h].kind, done |-> frame[h].done]
    BY <2>1, <2>2
  <2>4. f \in WebClientFrames
    BY <2>2, <2>3 DEF WebClientFrames
  <2>5. f.op = "waiting" /\ f.done = frame[h].done
    BY <2>3
  <2> HIDE DEF f
  <2>6. QED
    BY <1>1, <1>8, <2>1, <2>2, <2>4, <2>5
<1>9. QED
  BY <1>3, <1>4, <1>5, <1>6, <1>7, <1>8 DEF WebClientStepOf, WebClient!Accept, WebClient!TimeOut,
     WebClient!SwitchDone

\* What a step of the tab does to its calls: none, all end, or those who wait go on.
LEMMA WebClientTabMoves ==
  ASSUME frame \in [Handlers -> WebClientFrames], WebClientTokenInv, DOMAIN issued \subseteq WebClient!Tokens, WebClientTabStep
  PROVE  /\ frame' \in [Handlers -> WebClientFrames]
         /\ \A h \in Handlers : \/ frame'[h] = frame[h]
                                \/ frame'[h] = WebClient!Idle
                                \/ /\ frame[h].op = "waiting" /\ frame'[h].op = "resent"
                                   /\ frame'[h].done = frame[h].done /\ frame[h] # WebClient!Idle
<1>0. WebClient!Idle \in WebClientFrames /\ WebClient!Idle.op = "idle"
  BY DEF WebClientFrames, WebClient!Idle
<1>1. CASE UNCHANGED frame
  BY <1>1
<1>2. CASE WebClient!Reload
  <2>1. frame' = [h \in Handlers |-> WebClient!Idle]
    BY <1>2 DEF WebClient!Reload
  <2>2. QED
    BY <1>0, <2>1
<1>3. CASE WebClient!RefreshFailed
  <2>1. frame' = [h \in Handlers |-> IF WebClient!At(h, "waiting") THEN WebClient!Idle ELSE frame[h]]
    BY <1>3 DEF WebClient!RefreshFailed
  <2>2. QED
    BY <1>0, <2>1
<1>4. CASE WebClient!RefreshDone
  <2>1. frame' = [h \in Handlers |->
                   IF frame[h].op = "waiting"
                   THEN [op |-> "resent", kind |-> frame[h].kind, token |-> refreshing.token, done |-> frame[h].done]
                   ELSE frame[h]]
    BY <1>4 DEF WebClient!RefreshDone, WebClient!At
  <2>2. refreshing.token \in WebClient!Tokens
    BY <1>4 DEF WebClient!RefreshDone, WebClientTokenInv
  <2>3. ASSUME NEW h \in Handlers, frame[h].op = "waiting"
        PROVE  /\ frame'[h] \in WebClientFrames /\ frame[h] # WebClient!Idle
               /\ frame'[h].op = "resent" /\ frame'[h].done = frame[h].done
    <3>1. frame'[h] = [op |-> "resent", kind |-> frame[h].kind, token |-> refreshing.token, done |-> frame[h].done]
      BY <2>1, <2>3
    <3>2. frame[h] # WebClient!Idle /\ frame[h].kind \in WebClient!Kinds /\ frame[h].done \in BOOLEAN
      BY <1>0, <2>3, WebClientFrameParts
    <3>3. frame'[h] \in WebClientFrames
      BY <2>2, <3>1, <3>2 DEF WebClientFrames
    <3>4. QED
      BY <3>1, <3>2, <3>3
  <2>4. ASSUME NEW h \in Handlers, frame[h].op # "waiting" PROVE frame'[h] = frame[h]
    BY <2>1, <2>4
  <2>5. QED
    BY <2>1, <2>3, <2>4
<1>5. QED
  BY <1>1, <1>2, <1>3, <1>4 DEF WebClientTabStep, WebClient!SignIn, WebClient!OpenPage,
     WebClient!OpenPageWithout, WebClient!SignOut, WebClient!RefreshServed,
     WebClient!RefreshRefused, WebClient!TokenExpires

\* Who is about to store the answer to a switch was so before, or has a token issued now.
LEMMA WebClientSwitching ==
  ASSUME WebClient!TypeOK, WebClientTokenInv, [WebClient!Next]_(WebClient!vars), NEW h \in Handlers, frame'[h].op = "switched"
  PROVE  \/ frame[h].op = "switched" /\ frame'[h] = frame[h]
         \/ WebClient!Issue("other") /\ frame'[h].token = WebClient!Latest + 1
<1>0. WebClient!Idle.op = "idle" /\ frame \in [Handlers -> WebClientFrames]
  BY DEF WebClient!Idle, WebClient!TypeOK, WebClientFrames
<1>1. CASE WebClientTabStep
  BY <1>0, <1>1, WebClientTabMoves DEF WebClient!TypeOK
<1>2. ASSUME NEW g \in Handlers, WebClientStepOf(g)
      PROVE  \/ frame[h].op = "switched" /\ frame'[h] = frame[h]
             \/ WebClient!Issue("other") /\ frame'[h].token = WebClient!Latest + 1
  BY <1>0, <1>2, WebClientCallMoves DEF WebClient!TypeOK, WebClient!AcceptSwitch
<1>3. CASE UNCHANGED WebClient!vars
  BY <1>3 DEF WebClient!vars
<1>4. QED
  BY <1>1, <1>2, <1>3, WebClientParts

LEMMA WebClientTypeStep == ASSUME WebClient!TypeOK, WebClientTokenInv, [WebClient!Next]_(WebClient!vars)
                           PROVE  WebClient!TypeOK' /\ WebClientTokenInv'
<1> DEFINE T == DOMAIN issued
           U == DOMAIN issued'
<1>0. /\ WebClient!Idle.op = "idle" /\ frame \in [Handlers -> WebClientFrames] /\ T \subseteq WebClient!Tokens
      /\ held \in {WebClient!NoToken} \cup T /\ memory \in {WebClient!NoToken} \cup T
  BY DEF WebClient!Idle, WebClient!TypeOK, WebClientFrames
<1>1. frame' \in [Handlers -> WebClientFrames]
  <2>1. ASSUME NEW h \in Handlers, WebClientStepOf(h) PROVE frame' \in [Handlers -> WebClientFrames]
    <3>1. /\ frame'[h] \in WebClientFrames
          /\ \A g \in Handlers \ {h} : frame'[g] = frame[g]
          /\ frame' = [g \in Handlers |-> frame'[g]]
      BY <1>0, <2>1, WebClientCallMoves
    <3>2. \A g \in Handlers : frame'[g] \in WebClientFrames
      BY <1>0, <3>1
    <3>3. QED
      BY <3>1, <3>2
  <2>2. CASE UNCHANGED WebClient!vars
    BY <1>0, <2>2 DEF WebClient!vars
  <2>3. QED
    BY <1>0, <2>1, <2>2, WebClientTabMoves, WebClientParts
<1>2. /\ U \subseteq WebClient!Tokens /\ \A t \in U : issued'[t] \in WebClient!OrgIds
      /\ T \subseteq U /\ WebClient!Latest' \in 0..MaxTokens /\ U = 1..WebClient!Latest'
  <2>1. CASE issued' = issued
    BY <2>1, WebClientIssuedStay DEF WebClient!TypeOK
  <2>2. ASSUME NEW o \in WebClient!OrgIds, WebClient!Issue(o)
        PROVE  U \subseteq WebClient!Tokens /\ \A t \in U : issued'[t] \in WebClient!OrgIds
    BY <2>2, WebClientIssues DEF WebClient!TypeOK
  <2>3. QED
    BY <2>1, <2>2, WebClientMayIssue, WebClientIssuedStay
<1>3. ASSUME NEW o \in WebClient!OrgIds, WebClient!Issue(o) PROVE WebClient!Latest + 1 \in U
  BY <1>3, WebClientIssues
<1>4. ASSUME NEW h \in Handlers, frame[h].op = "switched" PROVE frame[h].token \in T
  BY <1>4 DEF WebClientTokenInv, WebClient!Serving, WebClient!At
<1>5. expired' \subseteq U
  <2>1. expired \subseteq T
    BY DEF WebClient!TypeOK
  <2>2. expired' = expired \/ \E t \in T : expired' = expired \cup {t}
    <3>1. CASE WebClientTabStep
      BY <3>1 DEF WebClientTabStep, WebClient!SignIn, WebClient!OpenPage, WebClient!OpenPageWithout,
         WebClient!Reload, WebClient!SignOut, WebClient!RefreshServed, WebClient!RefreshRefused,
         WebClient!RefreshDone, WebClient!RefreshFailed, WebClient!TokenExpires
    <3>2. ASSUME NEW h \in Handlers, WebClientStepOf(h) PROVE expired' = expired
      BY <3>2 DEF WebClientStepOf, WebClient!Call, WebClient!Switch, WebClient!Accept,
         WebClient!AcceptSwitch, WebClient!Refuse, WebClient!TimeOut, WebClient!Wait, WebClient!SwitchDone
    <3>3. QED
      BY <3>1, <3>2, WebClientParts DEF WebClient!vars
  <2>3. QED
    BY <1>2, <2>1, <2>2
<1>6. memory' \in {WebClient!NoToken} \cup U /\ held' \in {WebClient!NoToken} \cup U
  <2>1. refreshing.token \in {WebClient!NoToken} \cup T
    BY DEF WebClient!TypeOK
  <2>2. CASE WebClientTabStep
    <3>1. CASE WebClient!SignIn
      BY <1>3, <3>1 DEF WebClient!SignIn, WebClient!OrgIds
    <3>2. CASE WebClient!RefreshDone
      BY <1>0, <1>2, <2>1, <3>2 DEF WebClient!RefreshDone
    <3>3. ASSUME ~WebClient!SignIn, ~WebClient!RefreshDone
          PROVE  memory' \in {WebClient!NoToken, memory} /\ held' \in {WebClient!NoToken, memory, held}
      BY <2>2, <3>3 DEF WebClientTabStep, WebClient!OpenPage, WebClient!OpenPageWithout, WebClient!Reload,
         WebClient!SignOut, WebClient!RefreshServed, WebClient!RefreshRefused,
         WebClient!RefreshFailed, WebClient!TokenExpires, WebClient!tabVars
    <3>4. QED
      BY <1>0, <1>2, <3>1, <3>2, <3>3
  <2>3. ASSUME NEW h \in Handlers, WebClientStepOf(h)
        PROVE  memory' \in {WebClient!NoToken} \cup U /\ held' \in {WebClient!NoToken} \cup U
    <3>1. held' = held /\ (memory' = memory \/ (frame[h].op = "switched" /\ memory' = frame[h].token))
      BY <2>3 DEF WebClientStepOf, WebClient!Call, WebClient!Switch, WebClient!Accept,
         WebClient!AcceptSwitch, WebClient!Refuse, WebClient!TimeOut, WebClient!Wait, WebClient!SwitchDone,
          WebClient!tabVars, WebClient!At
    <3>2. QED
      BY <1>0, <1>2, <1>4, <2>3, <3>1
  <2>4. CASE UNCHANGED WebClient!vars
    BY <1>0, <1>2, <2>4 DEF WebClient!vars, WebClient!tabVars
  <2>5. QED
    BY <2>2, <2>3, <2>4, WebClientParts
<1>7. /\ refreshing' \in [at : {"none", "asked", "refused", "answered"}, token : {WebClient!NoToken} \cup U]
      /\ refreshing'.at = "answered" => refreshing'.token \in U
  <2> DEFINE R == [at : {"none", "asked", "refused", "answered"}, token : {WebClient!NoToken} \cup U]
  <2>1. /\ refreshing \in [at : {"none", "asked", "refused", "answered"}, token : {WebClient!NoToken} \cup T]
        /\ refreshing.at = "answered" => refreshing.token \in T
    BY DEF WebClient!TypeOK, WebClientTokenInv
  <2>2. refreshing \in R /\ (refreshing.at = "answered" => refreshing.token \in U)
    BY <1>2, <2>1
  <2>3. /\ WebClient!NoRefresh \in R /\ [WebClient!NoRefresh EXCEPT !.at = "asked"] \in R /\ [WebClient!NoRefresh EXCEPT !.at = "refused"] \in R
        /\ WebClient!NoRefresh.at = "none" /\ [WebClient!NoRefresh EXCEPT !.at = "asked"].at = "asked"
        /\ [WebClient!NoRefresh EXCEPT !.at = "refused"].at = "refused"
    BY DEF WebClient!NoRefresh
  <2>4. CASE WebClient!RefreshServed
    <3>1. refreshing' = [at |-> "answered", token |-> WebClient!Latest + 1] /\ WebClient!Latest + 1 \in U
      BY <1>3, <2>4 DEF WebClient!RefreshServed, WebClient!OrgIds
    <3>2. QED
      BY <3>1
  <2>5. CASE WebClientTabStep /\ ~WebClient!RefreshServed
    <3>1. refreshing' \in {refreshing, WebClient!NoRefresh, [WebClient!NoRefresh EXCEPT !.at = "asked"], [WebClient!NoRefresh EXCEPT !.at = "refused"]}
      BY <2>5 DEF WebClientTabStep, WebClient!SignIn, WebClient!OpenPage, WebClient!OpenPageWithout,
         WebClient!Reload, WebClient!SignOut, WebClient!RefreshRefused, WebClient!RefreshDone,
         WebClient!RefreshFailed, WebClient!TokenExpires, WebClient!tabVars, WebClient!Join
    <3> HIDE DEF R
    <3>2. QED
      BY <2>2, <2>3, <3>1 DEF R
  <2>6. ASSUME NEW h \in Handlers, WebClientStepOf(h)
        PROVE  refreshing' \in {refreshing, [WebClient!NoRefresh EXCEPT !.at = "asked"]}
    BY <2>6 DEF WebClientStepOf, WebClient!Call, WebClient!Switch, WebClient!Accept, WebClient!AcceptSwitch,
       WebClient!Refuse, WebClient!TimeOut, WebClient!Wait, WebClient!SwitchDone, WebClient!tabVars,
        WebClient!Join
  <2>7. CASE UNCHANGED WebClient!vars
    BY <2>2, <2>7 DEF WebClient!vars, WebClient!tabVars
  <2> HIDE DEF R
  <2>8. QED
    BY <2>2, <2>3, <2>4, <2>5, <2>6, <2>7, WebClientParts DEF R
<1>8. /\ chosen' \in WebClient!OrgIds /\ settled' \in {"no", "kept", "opened"}
      /\ loading' \in BOOLEAN /\ cookie' \in BOOLEAN
  <2>1. /\ chosen \in WebClient!OrgIds /\ settled \in {"no", "kept", "opened"}
        /\ loading \in BOOLEAN /\ cookie \in BOOLEAN
    BY DEF WebClient!TypeOK
  <2>2. CASE WebClientTabStep
    BY <2>1, <2>2 DEF WebClientTabStep, WebClient!SignIn, WebClient!OpenPage, WebClient!OpenPageWithout,
       WebClient!Reload, WebClient!SignOut, WebClient!RefreshServed,
       WebClient!RefreshRefused, WebClient!RefreshDone, WebClient!RefreshFailed, WebClient!TokenExpires, WebClient!tabVars, WebClient!OrgIds
  <2>3. ASSUME NEW h \in Handlers, WebClientStepOf(h)
        PROVE  /\ chosen' \in {chosen, "other"} /\ settled' \in {settled, "kept"}
               /\ loading' = loading /\ cookie' = cookie
    BY <2>3 DEF WebClientStepOf, WebClient!Call, WebClient!Switch, WebClient!Accept, WebClient!AcceptSwitch,
       WebClient!Refuse, WebClient!TimeOut, WebClient!Wait, WebClient!SwitchDone, WebClient!tabVars
  <2>4. QED
    BY <2>1, <2>2, <2>3, WebClientParts DEF WebClient!vars, WebClient!tabVars, WebClient!OrgIds
<1>9. signedOut' \in BOOLEAN /\ twice' \in BOOLEAN /\ strayed' \in BOOLEAN
  <2>1. signedOut \in BOOLEAN /\ twice \in BOOLEAN /\ strayed \in BOOLEAN
    BY DEF WebClient!TypeOK
  <2>2. CASE WebClient!SignOut
    <3>1. signedOut' \in BOOLEAN
      BY <2>2 DEF WebClient!SignOut
    <3>2. QED
      BY <2>1, <2>2, <3>1 DEF WebClient!SignOut
  <2>3. CASE WebClientTabStep /\ ~WebClient!SignOut
    BY <2>1, <2>3 DEF WebClientTabStep, WebClient!SignIn, WebClient!OpenPage, WebClient!OpenPageWithout,
       WebClient!Reload, WebClient!RefreshServed, WebClient!RefreshRefused,
       WebClient!RefreshDone, WebClient!RefreshFailed, WebClient!TokenExpires, WebClient!tabVars
  <2>4. ASSUME NEW h \in Handlers, WebClient!Executed(h) PROVE twice' \in BOOLEAN /\ strayed' \in BOOLEAN
    BY <2>4 DEF WebClient!Executed
  <2>5. ASSUME NEW h \in Handlers, WebClientStepOf(h)
        PROVE  signedOut' = signedOut /\ (WebClient!Executed(h) \/ UNCHANGED <<twice, strayed>>)
    BY <2>5 DEF WebClientStepOf, WebClient!Call, WebClient!Switch, WebClient!Accept, WebClient!AcceptSwitch,
       WebClient!Refuse, WebClient!TimeOut, WebClient!Wait, WebClient!SwitchDone, WebClient!tabVars
  <2>6. CASE UNCHANGED WebClient!vars
    BY <2>1, <2>6 DEF WebClient!vars, WebClient!tabVars
  <2>7. QED
    BY <2>1, <2>2, <2>3, <2>4, <2>5, <2>6, WebClientParts
<1>10. \A h \in Handlers : frame'[h].op = "switched" => frame'[h].token \in U
  BY <1>2, <1>3, <1>4, WebClientSwitching DEF WebClient!OrgIds
<1>11. WebClient!TypeOK'
  BY <1>1, <1>2, <1>5, <1>6, <1>7, <1>8, <1>9 DEF WebClient!TypeOK, WebClientFrames
<1>12. WebClientTokenInv'
  BY <1>2, <1>7, <1>10 DEF WebClientTokenInv, WebClient!Serving, WebClient!At
<1>13. QED
  BY <1>11, <1>12

(* The variables of the tab keep their types, and no token is used that    *)
(* was not issued.                                                         *)
THEOREM WebClientTypeCorrect == WebClient!Spec => [](WebClient!TypeOK /\ WebClientTokenInv)
<1>1. ASSUME WebClient!Init PROVE WebClient!TypeOK /\ WebClientTokenInv
  <2>1. /\ frame = [h \in Handlers |-> WebClient!Idle] /\ DOMAIN issued = {} /\ expired = {}
        /\ memory = WebClient!NoToken /\ held = WebClient!NoToken /\ loading = FALSE /\ cookie = FALSE /\ refreshing = WebClient!NoRefresh
        /\ chosen = "own" /\ settled = "no" /\ signedOut = FALSE /\ twice = FALSE /\ strayed = FALSE
    BY <1>1 DEF WebClient!Init, WebClient!ServerInit
  <2>2. WebClient!Latest = 0
    BY <2>1, FS_EmptySet, WebClientCount DEF WebClient!Latest
  <2>3. DOMAIN issued = 1..WebClient!Latest /\ WebClient!Latest \in 0..MaxTokens
    BY <2>1, <2>2, WebConstants
  <2>4. WebClient!Idle.op = "idle" /\ WebClient!NoRefresh.at = "none"
    BY DEF WebClient!Idle, WebClient!NoRefresh
  <2>5. WebClient!TypeOK
    BY <2>1 DEF WebClient!TypeOK, WebClient!NoRefresh, WebClient!OrgIds
  <2>6. WebClientTokenInv
    BY <2>1, <2>3, <2>4 DEF WebClientTokenInv, WebClient!Serving, WebClient!At
  <2>7. QED
    BY <2>5, <2>6
<1>2. QED
  BY <1>1, WebClientTypeStep, PTL DEF WebClient!Spec

\* Calls.

LEMMA WebClientCallStep == ASSUME WebClient!TypeOK, WebClientTokenInv, WebClientCallInv, [WebClient!Next]_(WebClient!vars)
                           PROVE  WebClientCallInv'
<1>0. /\ frame \in [Handlers -> WebClientFrames] /\ DOMAIN issued \subseteq WebClient!Tokens
      /\ held \in {WebClient!NoToken} \cup DOMAIN issued /\ WebClient!Idle.op = "idle"
  BY DEF WebClient!TypeOK, WebClientFrames, WebClient!Idle
<1>1. twice' = twice \/ \E h \in Handlers : frame[h] # WebClient!Idle /\ twice' = (twice \/ frame[h].done)
  <2>1. CASE WebClientTabStep
    BY <2>1 DEF WebClientTabStep, WebClient!SignIn, WebClient!OpenPage, WebClient!OpenPageWithout,
       WebClient!Reload, WebClient!SignOut, WebClient!RefreshServed, WebClient!RefreshRefused,
       WebClient!RefreshDone, WebClient!RefreshFailed, WebClient!TokenExpires
  <2>2. ASSUME NEW h \in Handlers, WebClientStepOf(h)
        PROVE  twice' = twice \/ (frame[h] # WebClient!Idle /\ twice' = (twice \/ frame[h].done))
    <3>1. frame[h] = WebClient!Idle => ~WebClient!Asking(h, "call")
      BY <1>0 DEF WebClient!Asking
    <3>2. QED
      BY <2>2, <3>1 DEF WebClientStepOf, WebClient!Call, WebClient!Switch, WebClient!Accept,
         WebClient!AcceptSwitch, WebClient!Refuse, WebClient!TimeOut, WebClient!Wait, WebClient!SwitchDone,
          WebClient!Executed
  <2>3. QED
    BY <2>1, <2>2, WebClientParts DEF WebClient!vars
<1>2. ~twice'
  BY <1>1 DEF WebClientCallInv
<1>3. \A h \in Handlers : frame'[h] # WebClient!Idle => frame'[h].done = FALSE
  <2>1. CASE WebClientTabStep
    BY <1>0, <2>1, WebClientTabMoves DEF WebClientCallInv
  <2>2. ASSUME NEW h \in Handlers, WebClientStepOf(h)
        PROVE  \A g \in Handlers : frame'[g] # WebClient!Idle => frame'[g].done = FALSE
    BY <1>0, <2>2, WebClientCallMoves DEF WebClientCallInv
  <2>3. QED
    BY <2>1, <2>2, WebClientParts DEF WebClient!vars, WebClientCallInv
<1>4. QED
  BY <1>2, <1>3 DEF WebClientCallInv

(* A call is executed at most once, however many tokens it was sent with   *)
(* (request).                                                              *)
THEOREM WebClientCalls == WebClient!Spec => []WebClient!CalledOnce
<1>1. WebClient!Init => WebClientCallInv
  BY DEF WebClient!Init, WebClient!ServerInit, WebClientCallInv
<1>2. WebClientCallInv => WebClient!CalledOnce
  BY DEF WebClientCallInv, WebClient!CalledOnce
<1>3. QED
  BY <1>1, <1>2, WebClientCallStep, WebClientTypeCorrect, PTL DEF WebClient!Spec

\* Organizations.

LEMMA WebClientChoiceStep == ASSUME WebClient!TypeOK, WebClientTokenInv, WebClientChoiceInv, [WebClient!Next]_(WebClient!vars)
                             PROVE  WebClientChoiceInv'
<1>0. /\ frame \in [Handlers -> WebClientFrames] /\ DOMAIN issued \subseteq WebClient!Tokens
      /\ held \in {WebClient!NoToken} \cup DOMAIN issued /\ memory \in {WebClient!NoToken} \cup DOMAIN issued
      /\ WebClient!NoToken \notin WebClient!Tokens
  BY DEF WebClient!TypeOK, WebClientFrames, WebClient!NoToken, WebClient!Tokens
<1>1. \A t \in DOMAIN issued : issued'[t] = issued[t]
  BY WebClientIssuedStay
<1>2. \A h \in WebClient!Serving("switched")' : issued'[frame'[h].token] = "other"
  <2>1. ASSUME NEW h \in Handlers, frame'[h].op = "switched" PROVE issued'[frame'[h].token] = "other"
    <3>1. CASE frame[h].op = "switched" /\ frame'[h] = frame[h]
      BY <1>1, <3>1 DEF WebClientChoiceInv, WebClientTokenInv, WebClient!Serving, WebClient!At
    <3>2. CASE WebClient!Issue("other") /\ frame'[h].token = WebClient!Latest + 1
      BY <3>2, WebClientIssues DEF WebClient!OrgIds
    <3>3. QED
      BY <2>1, <3>1, <3>2, WebClientSwitching
  <2>2. QED
    BY <2>1 DEF WebClient!Serving, WebClient!At
<1>3. ~strayed'
  <2>1. ASSUME NEW h \in Handlers, WebClient!Asking(h, "call"), WebClient!Executed(h) PROVE ~strayed'
    <3>1. frame[h].token \in WebClient!Tokens
      BY <1>0, <2>1, WebClientFrameParts DEF WebClient!Asking
    <3>2. frame[h].token = held => held # WebClient!NoToken
      BY <1>0, <3>1
    <3>3. QED
      BY <2>1, <3>2 DEF WebClient!Executed, WebClientChoiceInv
  <2>2. ASSUME NEW h \in Handlers, WebClientStepOf(h)
        PROVE  strayed' = strayed \/ (WebClient!Asking(h, "call") /\ WebClient!Executed(h))
    BY <2>2 DEF WebClientStepOf, WebClient!Call, WebClient!Switch, WebClient!Accept, WebClient!AcceptSwitch,
       WebClient!Refuse, WebClient!TimeOut, WebClient!Wait, WebClient!SwitchDone
  <2>3. CASE WebClientTabStep
    BY <2>3 DEF WebClientTabStep, WebClient!SignIn, WebClient!OpenPage, WebClient!OpenPageWithout,
       WebClient!Reload, WebClient!SignOut, WebClient!RefreshServed, WebClient!RefreshRefused,
       WebClient!RefreshDone, WebClient!RefreshFailed, WebClient!TokenExpires, WebClientChoiceInv
  <2>4. QED
    BY <2>1, <2>2, <2>3, WebClientParts DEF WebClient!vars, WebClientChoiceInv
<1> DEFINE Tab == UNCHANGED <<memory, held, chosen, settled>>
           Kept(m, i, c, s) == s \in {"kept", "opened"} /\ m # WebClient!NoToken => i[m] = c
           Shown(p, i, c, s) == s = "opened" /\ p # WebClient!NoToken => i[p] = c
<1>4. Kept(memory', issued', chosen', settled') /\ Shown(held', issued', chosen', settled')
  <2>0. Kept(memory, issued', chosen, settled) /\ Shown(held, issued', chosen, settled)
    BY <1>0, <1>1 DEF WebClientChoiceInv
  <2>1. CASE Tab
    BY <2>0, <2>1
  <2>2. CASE WebClient!SignIn
    BY <2>2, WebClientIssues DEF WebClient!SignIn, WebClient!OrgIds
  <2>3. CASE WebClient!OpenPage
    BY <2>0, <2>3 DEF WebClient!OpenPage
  <2>4. CASE held' = WebClient!NoToken /\ UNCHANGED <<memory, chosen, settled>>
    BY <2>0, <2>4
  <2>5. CASE settled' = "no"
    BY <2>5
  <2>6. CASE memory' = WebClient!NoToken /\ held' \in {WebClient!NoToken, held} /\ UNCHANGED <<chosen, settled>>
    BY <2>0, <2>6
  <2>7. ASSUME NEW h \in Handlers, WebClient!SwitchDone(h)
        PROVE  Kept(memory', issued', chosen', settled') /\ Shown(held', issued', chosen', settled')
    <3>1. /\ memory' = frame[h].token /\ chosen' = "other" /\ settled' = "kept" /\ issued' = issued
          /\ h \in WebClient!Serving("switched")
      BY <2>7 DEF WebClient!SwitchDone, WebClient!Serving
    <3>2. QED
      BY <3>1 DEF WebClientChoiceInv
  <2>8. CASE WebClientTabStep
    <3>1. \/ Tab \/ WebClient!SignIn \/ WebClient!OpenPage \/ settled' = "no"
          \/ (held' = WebClient!NoToken /\ UNCHANGED <<memory, chosen, settled>>)
          \/ (memory' = WebClient!NoToken /\ held' \in {WebClient!NoToken, held} /\ UNCHANGED <<chosen, settled>>)
      BY <2>8 DEF WebClientTabStep, WebClient!OpenPageWithout, WebClient!Reload, WebClient!SignOut,
         WebClient!RefreshServed, WebClient!RefreshRefused, WebClient!RefreshDone,
         WebClient!RefreshFailed, WebClient!TokenExpires, WebClient!tabVars
    <3> HIDE DEF Tab, Kept, Shown
    <3>2. QED
      BY <2>1, <2>2, <2>3, <2>4, <2>5, <2>6, <3>1
  <2>9. ASSUME NEW h \in Handlers, WebClientStepOf(h) PROVE Tab \/ WebClient!SwitchDone(h)
    BY <2>9 DEF WebClientStepOf, WebClient!Call, WebClient!Switch, WebClient!Accept, WebClient!AcceptSwitch,
       WebClient!Refuse, WebClient!TimeOut, WebClient!Wait, WebClient!tabVars
  <2>10. UNCHANGED WebClient!vars => Tab
    BY DEF WebClient!vars, WebClient!tabVars
  <2> HIDE DEF Tab, Kept, Shown
  <2>11. QED
    BY <2>1, <2>7, <2>8, <2>9, <2>10, WebClientParts
<1>5. QED
  BY <1>2, <1>3, <1>4 DEF WebClientChoiceInv

(* A page opened after a switch acts in the organization switched to,      *)
(* until the tab is loaded again or a token refreshed (onSwitchOrg,        *)
(* refresh).                                                               *)
THEOREM WebClientChoices == WebClient!Spec => []WebClient!ActsWhereChosen
<1>1. ASSUME WebClient!Init PROVE WebClientChoiceInv
  <2>1. WebClient!Idle.op = "idle"
    BY DEF WebClient!Idle
  <2>2. QED
    BY <1>1, <2>1 DEF WebClient!Init, WebClient!ServerInit, WebClientChoiceInv, WebClient!Serving, WebClient!At
<1>2. WebClientChoiceInv => WebClient!ActsWhereChosen
  BY DEF WebClientChoiceInv, WebClient!ActsWhereChosen
<1>3. QED
  BY <1>1, <1>2, WebClientChoiceStep, WebClientTypeCorrect, PTL DEF WebClient!Spec

\* Refreshing and signing out.

LEMMA WebClientWaitStep == ASSUME WebClient!TypeOK, WebClientTokenInv, WebClient!NobodyIsForgotten, [WebClient!Next]_(WebClient!vars)
                           PROVE  WebClient!NobodyIsForgotten'
<1>0. /\ frame \in [Handlers -> WebClientFrames] /\ DOMAIN issued \subseteq WebClient!Tokens
      /\ held \in {WebClient!NoToken} \cup DOMAIN issued /\ WebClient!Idle.op = "idle"
  BY DEF WebClient!TypeOK, WebClientFrames, WebClient!Idle
<1>1. WebClient!NoRefresh.at = "none" /\ [WebClient!NoRefresh EXCEPT !.at = "asked"].at = "asked" /\ [WebClient!NoRefresh EXCEPT !.at = "refused"].at = "refused"
  BY DEF WebClient!NoRefresh
<1>2. WebClient!Join => refreshing' # WebClient!NoRefresh
  BY <1>1 DEF WebClient!Join
<1>3. ASSUME refreshing' = WebClient!NoRefresh, refreshing # WebClient!NoRefresh
      PROVE  loading' = FALSE /\ \A h \in Handlers : frame'[h].op # "waiting"
  <2>1. WebClient!RefreshDone \/ WebClient!RefreshFailed
    <3>1. CASE WebClientTabStep
      <4>1. [at |-> "answered", token |-> WebClient!Latest + 1] # WebClient!NoRefresh
        <5>1. [at |-> "answered", token |-> WebClient!Latest + 1].at = "answered"
          OBVIOUS
        <5>2. QED
          BY <1>1, <5>1
      <4>2. UNCHANGED refreshing \/ WebClient!Join \/ WebClient!Reload \/ WebClient!RefreshServed \/ WebClient!RefreshRefused \/ WebClient!RefreshDone \/ WebClient!RefreshFailed
        BY <3>1 DEF WebClientTabStep, WebClient!SignIn, WebClient!OpenPage, WebClient!OpenPageWithout,
           WebClient!SignOut, WebClient!TokenExpires, WebClient!tabVars
      <4>3. ~WebClient!Reload /\ ~WebClient!RefreshServed /\ ~WebClient!RefreshRefused
        BY <1>1, <1>3, <4>1 DEF WebClient!Reload, WebClient!RefreshServed, WebClient!RefreshRefused
      <4>4. QED
        BY <1>2, <1>3, <4>2, <4>3
    <3>2. ASSUME NEW h \in Handlers, WebClientStepOf(h) PROVE FALSE
      BY <1>2, <1>3, <3>2 DEF WebClientStepOf, WebClient!Call, WebClient!Switch, WebClient!Accept,
         WebClient!AcceptSwitch, WebClient!Refuse, WebClient!TimeOut, WebClient!Wait, WebClient!SwitchDone,
          WebClient!tabVars
    <3>3. QED
      BY <1>3, <3>1, <3>2, WebClientParts DEF WebClient!vars, WebClient!tabVars
  <2>2. CASE WebClient!RefreshDone
    BY <1>0, <2>2 DEF WebClient!RefreshDone, WebClient!At
  <2>3. CASE WebClient!RefreshFailed
    BY <1>0, <2>3 DEF WebClient!RefreshFailed, WebClient!At
  <2>4. QED
    BY <2>1, <2>2, <2>3
<1>4. ASSUME refreshing' = WebClient!NoRefresh, refreshing = WebClient!NoRefresh
      PROVE  ~loading' /\ \A h \in Handlers : frame'[h].op # "waiting"
  <2>1. ~loading /\ \A h \in Handlers : frame[h].op # "waiting"
    BY <1>4 DEF WebClient!NobodyIsForgotten, WebClient!Serving, WebClient!At
  <2>2. CASE WebClientTabStep
    <3>1. \A h \in Handlers : frame'[h].op # "waiting"
      BY <1>0, <2>1, <2>2, WebClientTabMoves
    <3>2. loading' = loading \/ loading' = FALSE
      BY <1>1, <1>2, <1>4, <2>2 DEF WebClientTabStep, WebClient!SignIn, WebClient!OpenPage,
         WebClient!OpenPageWithout, WebClient!Reload, WebClient!SignOut, WebClient!RefreshServed,
         WebClient!RefreshRefused, WebClient!RefreshDone, WebClient!RefreshFailed, WebClient!TokenExpires, WebClient!tabVars
    <3>3. QED
      BY <2>1, <3>1, <3>2
  <2>3. ASSUME NEW h \in Handlers, WebClientStepOf(h)
        PROVE  ~loading' /\ \A g \in Handlers : frame'[g].op # "waiting"
    <3>1. ~WebClient!Wait(h)
      BY <1>2, <1>4 DEF WebClient!Wait
    <3>2. \A g \in Handlers : frame'[g].op # "waiting"
      BY <1>0, <2>1, <2>3, <3>1, WebClientCallMoves
    <3>3. loading' = loading
      BY <2>3 DEF WebClientStepOf, WebClient!Call, WebClient!Switch, WebClient!Accept,
         WebClient!AcceptSwitch, WebClient!Refuse, WebClient!TimeOut, WebClient!Wait, WebClient!SwitchDone,
          WebClient!tabVars
    <3>4. QED
      BY <2>1, <3>2, <3>3
  <2>4. QED
    BY <2>1, <2>2, <2>3, WebClientParts DEF WebClient!vars, WebClient!tabVars
<1>5. QED
  BY <1>3, <1>4 DEF WebClient!NobodyIsForgotten, WebClient!Serving, WebClient!At

(* Nobody waits without a refresh under way (refreshAccessToken).          *)
THEOREM WebClientWaits == WebClient!Spec => []WebClient!NobodyIsForgotten
<1>1. ASSUME WebClient!Init PROVE WebClient!NobodyIsForgotten
  <2>1. WebClient!Idle.op = "idle"
    BY DEF WebClient!Idle
  <2>2. QED
    BY <1>1, <2>1 DEF WebClient!Init, WebClient!ServerInit, WebClient!NobodyIsForgotten, WebClient!Serving,
       WebClient!At
<1>2. QED
  BY <1>1, WebClientWaitStep, WebClientTypeCorrect, PTL DEF WebClient!Spec

LEMMA WebClientOutStep == ASSUME WebClient!TypeOK, WebClientTokenInv, WebClient!NobodyIsForgotten, WebClientOutInv, [WebClient!Next]_(WebClient!vars)
                          PROVE  WebClientOutInv'
<1>0. /\ WebClient!Idle.op = "idle" /\ WebClient!NoRefresh.at = "none" /\ loading \in BOOLEAN
  BY DEF WebClient!Idle, WebClient!NoRefresh, WebClient!TypeOK
<1>1. CASE WebClient!SignOut
  <2>1. signedOut' => refreshing = WebClient!NoRefresh /\ \A h \in Handlers : frame[h] = WebClient!Idle
    BY <1>1 DEF WebClient!SignOut
  <2>2. refreshing = WebClient!NoRefresh => ~loading
    BY DEF WebClient!NobodyIsForgotten
  <2>3. QED
    BY <1>1, <2>1, <2>2 DEF WebClient!SignOut, WebClientOutInv
<1>2. CASE WebClient!SignIn
  BY <1>2 DEF WebClient!SignIn, WebClientOutInv
<1>3. CASE ~signedOut /\ signedOut' = signedOut
  BY <1>3 DEF WebClientOutInv
<1>4. CASE signedOut
  <2>1. /\ memory = WebClient!NoToken /\ held = WebClient!NoToken /\ refreshing = WebClient!NoRefresh /\ ~loading
        /\ \A h \in Handlers : frame[h] = WebClient!Idle
    BY <1>4 DEF WebClientOutInv
  <2>2. CASE WebClientTabStep /\ ~WebClient!SignIn
    <3>1. \E t \in WebClient!Tokens : WebClient!TokenExpires(t)
      BY <1>0, <2>1, <2>2 DEF WebClientTabStep, WebClient!OpenPage, WebClient!OpenPageWithout,
         WebClient!Reload, WebClient!SignOut, WebClient!RefreshServed,
         WebClient!RefreshRefused, WebClient!RefreshDone, WebClient!RefreshFailed
    <3>2. QED
      BY <2>1, <3>1 DEF WebClient!TokenExpires, WebClient!tabVars, WebClientOutInv
  <2>3. ASSUME NEW h \in Handlers, WebClientStepOf(h) PROVE FALSE
    <3>1. frame[h].op = "idle" /\ held = WebClient!NoToken
      BY <1>0, <2>1
    <3>2. QED
      BY <2>3, <3>1 DEF WebClientStepOf, WebClient!Call, WebClient!Switch, WebClient!Accept,
         WebClient!AcceptSwitch, WebClient!Refuse, WebClient!TimeOut, WebClient!Wait, WebClient!SwitchDone,
          WebClient!Asking, WebClient!At
  <2>4. CASE UNCHANGED WebClient!vars
    BY <2>1, <2>4 DEF WebClient!vars, WebClient!tabVars, WebClientOutInv
  <2>5. QED
    BY <1>2, <2>2, <2>3, <2>4, WebClientParts
<1>5. ASSUME ~WebClient!SignOut, ~WebClient!SignIn PROVE signedOut' = signedOut
  <2>1. CASE WebClientTabStep
    BY <1>5, <2>1 DEF WebClientTabStep, WebClient!OpenPage, WebClient!OpenPageWithout, WebClient!Reload,
       WebClient!RefreshServed, WebClient!RefreshRefused, WebClient!RefreshDone,
       WebClient!RefreshFailed, WebClient!TokenExpires, WebClient!tabVars
  <2>2. ASSUME NEW h \in Handlers, WebClientStepOf(h) PROVE signedOut' = signedOut
    BY <2>2 DEF WebClientStepOf, WebClient!Call, WebClient!Switch, WebClient!Accept, WebClient!AcceptSwitch,
       WebClient!Refuse, WebClient!TimeOut, WebClient!Wait, WebClient!SwitchDone, WebClient!tabVars
  <2>3. QED
    BY <2>1, <2>2, WebClientParts DEF WebClient!vars, WebClient!tabVars
<1>6. QED
  BY <1>1, <1>2, <1>3, <1>4, <1>5

(* After the user has signed out while nothing was under way, the tab has  *)
(* no token until somebody signs in (onLogout).                            *)
THEOREM WebClientOuts == WebClient!Spec => []WebClient!SignedOutStays
<1>1. WebClient!Init => WebClientOutInv
  BY DEF WebClient!Init, WebClientOutInv
<1>2. WebClientOutInv => WebClient!SignedOutStays
  BY DEF WebClientOutInv, WebClient!SignedOutStays
<1>3. QED
  BY <1>1, <1>2, WebClientOutStep, WebClientWaits, WebClientTypeCorrect, PTL DEF WebClient!Spec

-----------------------------------------------------------------------------
(* A view of a page.                                                       *)

\* Sets are counted as everywhere.
LEMMA ScreensCount ==
  \A S : Screens!IsFiniteSet(S) = IsFiniteSet(S) /\ Screens!Cardinality(S) = Cardinality(S)
BY DEF Screens!IsFiniteSet, IsFiniteSet, Screens!Cardinality, Cardinality

\* Answers, and requests that have none yet.
ScreensLoaded == [n : 0..MaxLoads, pick : Screens!AnyPick, rows : Screens!AnyRows]

\* A command that runs, of a user who may press it, when the rows are at version v.
ScreensIsRun(r, v) ==
  /\ r = [c |-> r.c, n |-> r.n, pick |-> r.pick, rows |-> r.rows, before |-> r.before]
  /\ r.c \in DOMAIN Screens!ThePage.commands /\ screen.role \in Screens!Command(r.c).roles
  /\ r.pick \in Screens!AnyPick /\ r.rows \in 0..v /\ r.before \subseteq ScreensLoaded

\* The commands the server has not done yet.
ScreensWaiting == {r \in running : r.rows = 0}

\* Every command makes at most one version of the rows.
ScreensViewInv ==
  /\ screen.page \in Opened /\ screen.view \in DOMAIN Screens!ThePage.views /\ screen.role \in Screens!ThePage.roles
  /\ pick \in Screens!AnyPick
  /\ loads \subseteq [n : 1..MaxLoads, pick : Screens!AnyPick, rows : Screens!AnyRows]
  /\ asked \in 0..MaxLoads /\ shown \in ScreensLoaded
  /\ rows \in 1..(MaxPressed + 1) /\ owed \in 0..rows
  /\ IsFiniteSet(running) /\ \A r \in running : ScreensIsRun(r, rows)
  /\ pressed \in 0..MaxPressed /\ rows + Cardinality(ScreensWaiting) <= pressed + 1
  /\ outdated \in BOOLEAN

\* What no step changes.
LEMMA ScreensSameScreen ==
  ASSUME screen' = screen
  PROVE  /\ Screens!ThePage' = Screens!ThePage /\ Screens!TheView' = Screens!TheView /\ Screens!AnyPick' = Screens!AnyPick /\ ScreensLoaded' = ScreensLoaded
         /\ \A c : Screens!Command(c)' = Screens!Command(c)
         /\ \A r, v : ScreensIsRun(r, v)' = ScreensIsRun(r, v)
BY DEF Screens!ThePage, Screens!TheView, Screens!AnyPick, ScreensLoaded, Screens!Command, ScreensIsRun

LEMMA ScreensSomeWaiting ==
  ASSUME IsFiniteSet(running)
  PROVE  IsFiniteSet(ScreensWaiting) /\ Cardinality(ScreensWaiting) \in Nat
BY FS_Subset, FS_CardinalityType DEF ScreensWaiting

LEMMA ScreensOneMoreMember ==
  ASSUME NEW S, NEW x, IsFiniteSet(S)
  PROVE  /\ IsFiniteSet(S \cup {x})
         /\ Cardinality(S \cup {x}) = Cardinality(S) \/ Cardinality(S \cup {x}) = Cardinality(S) + 1
BY FS_AddElement

\* One choice made otherwise.
LEMMA ScreensOtherPick ==
  ASSUME NEW p \in Screens!AnyPick, NEW d
  PROVE  [p EXCEPT ![d] = 3 - p[d]] \in Screens!AnyPick /\ [p EXCEPT ![d] = 1] \in Screens!AnyPick
<1> DEFINE U == Screens!TheView.uses
<1>1. p \in [U -> 1..2]
  BY DEF Screens!AnyPick
<1> HIDE DEF U
<1>2. [p EXCEPT ![d] = 3 - p[d]] \in [U -> 1..2]
  <2>1. \A x \in U : 3 - p[x] \in 1..2
    BY <1>1
  <2>2. QED
    BY <1>1, <2>1
<1>3. [p EXCEPT ![d] = 1] \in [U -> 1..2]
  <2>1. 1 \in 1..2
    OBVIOUS
  <2>2. \A S : 1 \in S /\ p \in [U -> S] => [p EXCEPT ![d] = 1] \in [U -> S]
    OBVIOUS
  <2>3. QED
    BY <1>1, <2>1, <2>2
<1>4. QED
  BY <1>2, <1>3 DEF Screens!AnyPick, U

\* Requests with a number are among all, and have no rows.
LEMMA ScreensRequested ==
  ASSUME ScreensViewInv, NEW n \in 1..MaxLoads, NEW p \in Screens!AnyPick
  PROVE  /\ Screens!Request(n, p) \in [n : 1..MaxLoads, pick : Screens!AnyPick, rows : Screens!AnyRows]
         /\ Screens!Request(n, p) = [n |-> n, pick |-> p, rows |-> 0]
BY ScreenConstants DEF Screens!Request, Screens!AnyRows, ScreensViewInv

\* What another choice d asks: with what is chosen then, as the last request.
LEMMA ScreensChosen ==
  ASSUME ScreensViewInv, NEW d, Screens!Choose(d)
  PROVE  /\ pick' \in Screens!AnyPick /\ asked' \in asked..MaxLoads
         /\ d \in Screens!TheView.on => asked' > asked
         /\ asked' = asked => loads' = loads
         /\ outdated' = (outdated /\ asked' = asked)
         /\ \A l \in loads' : \/ l \in loads
                              \/ \E n \in (asked + 1)..asked', p \in Screens!AnyPick :
                                   l = Screens!Request(n, p) /\ (n = asked' => p = pick')
         /\ d \in Screens!TheView.uses \cup Screens!TheView.on
         /\ UNCHANGED <<screen, shown, rows, running, pressed, owed>>
<1> DEFINE next  == IF d \in DOMAIN pick THEN [pick EXCEPT ![d] = 3 - @] ELSE pick
           back  == d \in Screens!ThePage.resets /\ "page" \in DOMAIN pick /\ pick["page"] # 1
           whole == [next EXCEPT !["page"] = 1]
           first == IF d \in Screens!TheView.on THEN {Screens!Request(asked + 1, next)} ELSE {}
           again == IF back THEN {Screens!Request(asked + Cardinality(first) + 1, whole)} ELSE {}
           i == Cardinality(first)
           j == Cardinality(again)
<1>1. /\ asked + i + j <= MaxLoads
      /\ pick' = IF back THEN whole ELSE next
      /\ loads' = loads \cup first \cup again /\ asked' = asked + i + j
      /\ outdated' = (outdated /\ asked' = asked)
      /\ d \in Screens!TheView.uses \cup Screens!TheView.on
      /\ UNCHANGED <<screen, shown, rows, running, pressed, owed>>
  BY ScreensCount DEF Screens!Choose
<1>2. next \in Screens!AnyPick
  BY ScreensOtherPick DEF ScreensViewInv
<1> HIDE DEF next
<1>3. whole \in Screens!AnyPick
  BY <1>2, ScreensOtherPick
<1> HIDE DEF whole
<1>4. i = IF d \in Screens!TheView.on THEN 1 ELSE 0
  BY FS_Singleton, FS_EmptySet
<1> HIDE DEF i
<1>5. j = IF back THEN 1 ELSE 0
  BY FS_Singleton, FS_EmptySet
<1> HIDE DEF j, back
<1>6. first = IF d \in Screens!TheView.on THEN {Screens!Request(asked + 1, next)} ELSE {}
  OBVIOUS
<1>7. again = IF back THEN {Screens!Request(asked + i + 1, whole)} ELSE {}
  BY DEF i
<1> HIDE DEF first, again
<1>8. asked \in 0..MaxLoads /\ MaxLoads \in Nat
  BY ScreenConstants DEF ScreensViewInv
<1>9. asked' \in asked..MaxLoads /\ (d \in Screens!TheView.on => asked' > asked)
  BY <1>1, <1>4, <1>5, <1>8
<1>10. asked' = asked => first = {} /\ again = {}
  BY <1>1, <1>4, <1>5, <1>6, <1>7, <1>8
<1>11. ASSUME NEW l \in first
       PROVE  \E n \in (asked + 1)..asked', p \in Screens!AnyPick : l = Screens!Request(n, p) /\ (n = asked' => p = pick')
  <2>1. l = Screens!Request(asked + 1, next) /\ i = 1
    BY <1>4, <1>6, <1>11
  <2>2. asked + 1 \in (asked + 1)..asked' /\ (asked + 1 = asked' => ~back)
    BY <1>1, <1>5, <1>8, <2>1
  <2>3. QED
    BY <1>1, <1>2, <2>1, <2>2
<1>12. ASSUME NEW l \in again
       PROVE  \E n \in (asked + 1)..asked', p \in Screens!AnyPick : l = Screens!Request(n, p) /\ (n = asked' => p = pick')
  <2>1. l = Screens!Request(asked + i + 1, whole) /\ back
    BY <1>7, <1>12
  <2>2. asked + i + 1 \in (asked + 1)..asked' /\ pick' = whole
    BY <1>1, <1>4, <1>5, <1>8, <2>1
  <2>3. QED
    BY <1>3, <2>1, <2>2
<1>13. \A l \in loads' : \/ l \in loads
                         \/ \E n \in (asked + 1)..asked', p \in Screens!AnyPick :
                              l = Screens!Request(n, p) /\ (n = asked' => p = pick')
  BY <1>1, <1>11, <1>12
<1>14. QED
  BY <1>1, <1>2, <1>3, <1>9, <1>10, <1>13

\* What happens to the commands that run, and to the rows, when r is done or gone.
LEMMA ScreensRunEnds ==
  ASSUME ScreensViewInv, NEW r \in running
  PROVE  /\ IsFiniteSet(running \ {r}) /\ \A q \in running \ {r} : ScreensIsRun(q, rows)
         /\ IsFiniteSet(ScreensWaiting) /\ Cardinality(ScreensWaiting) \in Nat
         /\ IF r.rows = 0 THEN Cardinality(ScreensWaiting \ {r}) = Cardinality(ScreensWaiting) - 1
                          ELSE ScreensWaiting \ {r} = ScreensWaiting
<1>1. IsFiniteSet(running) /\ \A q \in running : ScreensIsRun(q, rows)
  BY DEF ScreensViewInv
<1>2. IsFiniteSet(ScreensWaiting) /\ Cardinality(ScreensWaiting) \in Nat
  BY <1>1, ScreensSomeWaiting
<1>3. IsFiniteSet(running \ {r})
  BY <1>1, FS_RemoveElement
<1>4. r.rows = 0 => r \in ScreensWaiting
  BY DEF ScreensWaiting
<1>5. r.rows # 0 => ScreensWaiting \ {r} = ScreensWaiting
  BY DEF ScreensWaiting
<1>6. r.rows = 0 => Cardinality(ScreensWaiting \ {r}) = Cardinality(ScreensWaiting) - 1
  BY <1>2, <1>4, FS_RemoveElement
<1>7. QED
  BY <1>1, <1>2, <1>3, <1>5, <1>6

LEMMA ScreensViewStep == ASSUME ScreensViewInv, [Screens!Next]_(Screens!vars) PROVE ScreensViewInv'
<1>1. ASSUME NEW d, Screens!Choose(d) PROVE ScreensViewInv'
  <2>1. /\ pick' \in Screens!AnyPick /\ asked' \in asked..MaxLoads
        /\ outdated' \in BOOLEAN
        /\ UNCHANGED <<screen, shown, rows, running, pressed, owed>>
    BY <1>1, ScreensChosen DEF ScreensViewInv
  <2>2. loads' \subseteq [n : 1..MaxLoads, pick : Screens!AnyPick, rows : Screens!AnyRows]
    <3> SUFFICES ASSUME NEW l \in loads'
                 PROVE  l \in [n : 1..MaxLoads, pick : Screens!AnyPick, rows : Screens!AnyRows]
      OBVIOUS
    <3>1. CASE l \in loads
      BY <3>1 DEF ScreensViewInv
    <3>2. CASE l \notin loads
      <4>1. PICK n \in (asked + 1)..asked', p \in Screens!AnyPick : l = Screens!Request(n, p)
        BY <1>1, <3>2, ScreensChosen
      <4>2. n \in 1..MaxLoads
        BY <2>1, ScreenConstants DEF ScreensViewInv
      <4>3. QED
        BY <4>1, <4>2, ScreensRequested
    <3>3. QED
      BY <3>1, <3>2
  <2>3. asked' \in 0..MaxLoads
    BY <2>1, ScreenConstants DEF ScreensViewInv
  <2>4. ScreensWaiting' = ScreensWaiting
    BY <2>1 DEF ScreensWaiting
  <2>5. QED
    BY <2>1, <2>2, <2>3, <2>4, ScreensSameScreen DEF ScreensViewInv
<1>2. ASSUME NEW l \in loads, Screens!Answer(l) \/ Screens!Show(l) \/ Screens!GiveUp(l) PROVE ScreensViewInv'
  <2>1. l \in [n : 1..MaxLoads, pick : Screens!AnyPick, rows : Screens!AnyRows] /\ rows \in Screens!AnyRows /\ l \in ScreensLoaded
    BY ScreenConstants DEF ScreensViewInv, ScreensLoaded, Screens!AnyRows
  <2>2. [l EXCEPT !.rows = rows] \in [n : 1..MaxLoads, pick : Screens!AnyPick, rows : Screens!AnyRows]
    BY <2>1
  <2>3. /\ loads' \subseteq loads \cup {[l EXCEPT !.rows = rows]}
        /\ shown' \in {shown, l}
        /\ UNCHANGED <<screen, pick, asked, rows, running, pressed, owed, outdated>>
    BY <1>2 DEF Screens!Answer, Screens!Show, Screens!GiveUp
  <2>4. loads' \subseteq [n : 1..MaxLoads, pick : Screens!AnyPick, rows : Screens!AnyRows] /\ shown' \in ScreensLoaded
    BY <2>1, <2>2, <2>3 DEF ScreensViewInv
  <2>5. ScreensWaiting' = ScreensWaiting
    BY <2>3 DEF ScreensWaiting
  <2>6. QED
    BY <2>3, <2>4, <2>5, ScreensSameScreen DEF ScreensViewInv
<1>3. ASSUME NEW c \in DOMAIN Screens!ThePage.commands, Screens!Press(c) PROVE ScreensViewInv'
  <2> DEFINE r == [c |-> c, n |-> pressed + 1, pick |-> pick, rows |-> 0,
                   before |-> IF screen.view \in Screens!Command(c).optimistic THEN {shown} ELSE {}]
  <2>1. /\ pressed < MaxPressed /\ screen.role \in Screens!Command(c).roles
        /\ pressed' = pressed + 1 /\ running' = running \cup {r}
        /\ UNCHANGED <<screen, pick, loads, asked, shown, rows, owed, outdated>>
    BY <1>3 DEF Screens!Press
  <2>2. ScreensIsRun(r, rows) /\ r.rows = 0
    BY <1>3, <2>1 DEF ScreensIsRun, ScreensViewInv
  <2> HIDE DEF r
  <2>3. IsFiniteSet(running') /\ \A q \in running' : ScreensIsRun(q, rows)
    BY <2>1, <2>2, FS_AddElement DEF ScreensViewInv
  <2>4. ScreensWaiting' = ScreensWaiting \cup {r}
    BY <2>1, <2>2 DEF ScreensWaiting
  <2>5. Cardinality(ScreensWaiting) \in Nat /\ Cardinality(ScreensWaiting \cup {r}) \in Nat
        /\ Cardinality(ScreensWaiting \cup {r}) <= Cardinality(ScreensWaiting) + 1
    <3>1. IsFiniteSet(ScreensWaiting) /\ Cardinality(ScreensWaiting) \in Nat
      BY ScreensSomeWaiting DEF ScreensViewInv
    <3>2. /\ IsFiniteSet(ScreensWaiting \cup {r})
          /\ Cardinality(ScreensWaiting \cup {r}) = Cardinality(ScreensWaiting) \/ Cardinality(ScreensWaiting \cup {r}) = Cardinality(ScreensWaiting) + 1
      BY <3>1, ScreensOneMoreMember
    <3>3. QED
      BY <3>1, <3>2
  <2>6. pressed' \in 0..MaxPressed /\ rows + Cardinality(ScreensWaiting') <= pressed' + 1
    BY <2>1, <2>4, <2>5, ScreenConstants DEF ScreensViewInv
  <2>7. QED
    BY <2>1, <2>3, <2>6, ScreensSameScreen DEF ScreensViewInv
<1>4. ASSUME NEW r \in running, rows' \in {rows, rows + 1}, r.rows = 0 \/ rows' = rows,
             NEW s, s = {} \/ \E q : s = {q} /\ ScreensIsRun(q, rows') /\ q.rows # 0, running' = (running \ {r}) \cup s
      PROVE  /\ rows' \in 1..(MaxPressed + 1) /\ rows' >= rows
             /\ IsFiniteSet(running') /\ \A q \in running' : ScreensIsRun(q, rows')
             /\ rows' + Cardinality(ScreensWaiting') <= pressed + 1
  <2>1. /\ IsFiniteSet(running \ {r}) /\ \A q \in running \ {r} : ScreensIsRun(q, rows)
        /\ Cardinality(ScreensWaiting) \in Nat
        /\ IF r.rows = 0 THEN Cardinality(ScreensWaiting \ {r}) = Cardinality(ScreensWaiting) - 1
                         ELSE ScreensWaiting \ {r} = ScreensWaiting
    BY ScreensRunEnds
  <2>2. ScreensWaiting' = ScreensWaiting \ {r}
    BY <1>4 DEF ScreensWaiting
  <2>3. IsFiniteSet(running')
    BY <1>4, <2>1, ScreensOneMoreMember
  <2>4. /\ rows \in 1..(MaxPressed + 1) /\ pressed \in 0..MaxPressed /\ MaxPressed \in Nat
        /\ rows + Cardinality(ScreensWaiting) <= pressed + 1
    BY ScreenConstants DEF ScreensViewInv
  <2> DEFINE k == Cardinality(ScreensWaiting)
             i == Cardinality(ScreensWaiting')
  <2>5. k \in Nat /\ i = (IF r.rows = 0 THEN k - 1 ELSE k) /\ rows + k <= pressed + 1
    BY <2>1, <2>2, <2>4
  <2>6. i \in Nat
    <3>1. IsFiniteSet(ScreensWaiting \ {r})
      BY ScreensRunEnds, FS_RemoveElement
    <3>2. QED
      BY <2>2, <3>1, FS_CardinalityType
  <2> HIDE DEF k, i
  <2>7. rows' \in 1..(MaxPressed + 1) /\ rows' >= rows /\ rows' + i <= pressed + 1
    <3>1. rows' \in Nat /\ rows' >= 1 /\ rows' >= rows
      BY <1>4, <2>4
    <3>2. rows' + i <= pressed + 1
      <4>1. CASE rows' = rows
        BY <2>4, <2>5, <4>1
      <4>2. CASE rows' # rows
        <5>1. r.rows = 0 /\ rows' = rows + 1
          BY <1>4, <4>2
        <5>2. i = k - 1 /\ k \in Nat /\ rows + k <= pressed + 1 /\ rows \in Nat /\ pressed \in Nat
          BY <2>4, <2>5, <5>1
        <5>3. QED
          BY <5>1, <5>2
      <4>3. QED
        BY <4>1, <4>2
    <3>3. rows' <= MaxPressed + 1
      <4>1. \A v, x, y, m \in Nat : v + x <= y + 1 /\ y <= m => v <= m + 1
        OBVIOUS
      <4>2. pressed \in Nat /\ pressed <= MaxPressed /\ MaxPressed \in Nat
        BY <2>4
      <4>3. QED
        BY <2>6, <3>1, <3>2, <4>1, <4>2
    <3>4. QED
      BY <2>4, <3>1, <3>2, <3>3
  <2>8. \A q : ScreensIsRun(q, rows) => ScreensIsRun(q, rows')
    BY <2>4, <2>7 DEF ScreensIsRun
  <2>9. QED
    BY <1>4, <2>1, <2>3, <2>7, <2>8 DEF i
<1>5. ASSUME NEW r \in running, Screens!Execute(r) PROVE ScreensViewInv'
  <2> DEFINE q == [c |-> r.c, n |-> r.n, pick |-> r.pick, rows |-> rows', before |-> r.before]
  <2>1. ScreensIsRun(r, rows)
    BY DEF ScreensViewInv
  <2>2. /\ r.rows = 0 /\ rows' \in {rows, rows + 1} /\ rows \in Nat /\ rows >= 1 /\ rows' # 0 /\ rows' \in 0..rows'
        /\ UNCHANGED <<screen, pick, loads, asked, shown, pressed, owed, outdated>>
    BY <1>5 DEF Screens!Execute, ScreensViewInv
  <2>3. running' = (running \ {r}) \cup {q}
    BY <1>5, <2>1 DEF Screens!Execute, ScreensIsRun
  <2>4. ScreensIsRun(q, rows') /\ q.rows # 0
    BY <2>1, <2>2 DEF ScreensIsRun
  <2> HIDE DEF q
  <2>5. /\ rows' \in 1..(MaxPressed + 1) /\ rows' >= rows
        /\ IsFiniteSet(running') /\ \A z \in running' : ScreensIsRun(z, rows')
        /\ rows' + Cardinality(ScreensWaiting') <= pressed + 1
    BY <1>4, <2>2, <2>3, <2>4
  <2>6. owed \in 0..rows'
    BY <2>2, <2>5 DEF ScreensViewInv
  <2>7. QED
    BY <2>2, <2>5, <2>6, ScreensSameScreen DEF ScreensViewInv
<1>6. ASSUME NEW r \in running, Screens!Return(r) PROVE ScreensViewInv'
  <2> DEFINE both == screen.view \in Screens!Command(r.c).reloads \/ screen.view \in Screens!Command(r.c).sets
  <2>1. ScreensIsRun(r, rows)
    BY DEF ScreensViewInv
  <2>2. /\ running' = (running \ {r}) \cup {} /\ r.rows # 0
        /\ UNCHANGED <<screen, pick, rows, pressed>>
        /\ both => asked < MaxLoads
        /\ asked' = IF both THEN asked + 1 ELSE asked
        /\ owed' \in {owed, r.rows} /\ outdated' \in {outdated, r.pick # pick}
        /\ loads' = loads \/ (both /\ loads' = loads \cup {Screens!Request(asked', r.pick)})
        /\ shown' = shown \/ (both /\ shown' = [n |-> asked', pick |-> r.pick, rows |-> r.rows])
    BY <1>6 DEF Screens!Return
  <2> HIDE DEF both
  <2>3. asked' \in 0..MaxLoads /\ (both => asked' \in 1..MaxLoads)
    BY <2>2, ScreenConstants DEF ScreensViewInv
  <2>4. r.pick \in Screens!AnyPick /\ r.rows \in 0..rows /\ r.rows \in Screens!AnyRows
    BY <2>1, ScreenConstants DEF ScreensIsRun, ScreensViewInv, Screens!AnyRows
  <2>5. loads' \subseteq [n : 1..MaxLoads, pick : Screens!AnyPick, rows : Screens!AnyRows]
    BY <2>2, <2>3, <2>4, ScreensRequested DEF ScreensViewInv
  <2>6. shown' \in ScreensLoaded
    BY <2>2, <2>3, <2>4 DEF ScreensViewInv, ScreensLoaded
  <2>7. owed' \in 0..rows /\ outdated' \in BOOLEAN
    BY <2>2, <2>4 DEF ScreensViewInv
  <2>8. /\ rows' \in 1..(MaxPressed + 1)
        /\ IsFiniteSet(running') /\ \A z \in running' : ScreensIsRun(z, rows')
        /\ rows' + Cardinality(ScreensWaiting') <= pressed + 1
    BY <1>4, <2>2
  <2>9. QED
    BY <2>2, <2>3, <2>5, <2>6, <2>7, <2>8, ScreensSameScreen DEF ScreensViewInv
<1>7. ASSUME NEW r \in running, Screens!Fail(r) PROVE ScreensViewInv'
  <2>1. ScreensIsRun(r, rows)
    BY DEF ScreensViewInv
  <2>2. /\ running' = (running \ {r}) \cup {} /\ rows' \in {rows, rows + 1} /\ (r.rows = 0 \/ rows' = rows)
        /\ shown' = shown \/ shown' \in r.before
        /\ UNCHANGED <<screen, pick, loads, asked, pressed, owed, outdated>>
    BY <1>7 DEF Screens!Fail
  <2>3. shown' \in ScreensLoaded
    BY <2>1, <2>2 DEF ScreensIsRun, ScreensViewInv
  <2>4. /\ rows' \in 1..(MaxPressed + 1) /\ rows' >= rows
        /\ IsFiniteSet(running') /\ \A z \in running' : ScreensIsRun(z, rows')
        /\ rows' + Cardinality(ScreensWaiting') <= pressed + 1
    BY <1>4, <2>2
  <2>5. owed \in 0..rows'
    BY <2>4 DEF ScreensViewInv
  <2>6. QED
    BY <2>2, <2>3, <2>4, <2>5, ScreensSameScreen DEF ScreensViewInv
<1>8. ASSUME UNCHANGED Screens!vars PROVE ScreensViewInv'
  <2>1. UNCHANGED <<screen, pick, loads, asked, shown, rows, running, pressed, owed, outdated>>
    BY <1>8 DEF Screens!vars
  <2>2. ScreensWaiting' = ScreensWaiting
    BY <2>1 DEF ScreensWaiting
  <2>3. QED
    BY <2>1, <2>2, ScreensSameScreen DEF ScreensViewInv
<1>9. QED
  BY <1>1, <1>2, <1>3, <1>5, <1>6, <1>7, <1>8 DEF Screens!Next

LEMMA ScreensViewStarts == ASSUME Screens!Init PROVE ScreensViewInv
<1>1. PICK p \in Opened : \E v \in DOMAIN Screens!PageTable[p].views : \E r \in Screens!PageTable[p].roles :
        screen = [page |-> p, view |-> v, role |-> r]
  BY ScreensCount DEF Screens!Init
<1>2. screen.page \in Opened /\ screen.view \in DOMAIN Screens!ThePage.views /\ screen.role \in Screens!ThePage.roles
  BY <1>1 DEF Screens!ThePage
<1>3. pick \in Screens!AnyPick
  <2> DEFINE U == Screens!TheView.uses
  <2>1. pick = [d \in U |-> 1]
    BY ScreensCount DEF Screens!Init
  <2> HIDE DEF U
  <2>2. pick \in [U -> 1..2]
    BY <2>1
  <2>3. QED
    BY <2>2 DEF U, Screens!AnyPick
<1>4. /\ rows = 1 /\ running = {} /\ pressed = 0 /\ owed = 0 /\ outdated = FALSE
      /\ shown = [Screens!Request(1, pick) EXCEPT !.n = 0]
      /\ loads = (IF Screens!TheView.mount THEN {Screens!Request(1, pick)} ELSE {}) /\ asked = Cardinality(loads)
  BY ScreensCount DEF Screens!Init
<1>5. Screens!Request(1, pick) = [n |-> 1, pick |-> pick, rows |-> 0]
  BY DEF Screens!Request
<1>6. loads \subseteq [n : 1..MaxLoads, pick : Screens!AnyPick, rows : Screens!AnyRows]
  BY <1>3, <1>4, <1>5, ScreenConstants DEF Screens!AnyRows
<1>7. shown \in ScreensLoaded
  BY <1>3, <1>4, <1>5, ScreenConstants DEF Screens!AnyRows, ScreensLoaded
<1>8. asked = IF Screens!TheView.mount THEN 1 ELSE 0
  BY <1>4, FS_Singleton, FS_EmptySet
<1>9. ScreensWaiting = {} /\ Cardinality(ScreensWaiting) = 0 /\ IsFiniteSet(running)
  BY <1>4, FS_EmptySet DEF ScreensWaiting
<1>10. asked \in 0..MaxLoads
  BY <1>8, ScreenConstants
<1>11. /\ rows \in 1..(MaxPressed + 1) /\ owed \in 0..rows /\ pressed \in 0..MaxPressed
       /\ rows + Cardinality(ScreensWaiting) <= pressed + 1
  BY <1>4, <1>9, ScreenConstants
<1>12. outdated \in BOOLEAN /\ \A r \in running : ScreensIsRun(r, rows)
  BY <1>4
<1>13. QED
  BY <1>2, <1>3, <1>6, <1>7, <1>9, <1>10, <1>11, <1>12 DEF ScreensViewInv

(* A page stays one of those opened and in a role led to it, its view      *)
(* shows an answer to one of its loads, and the rows are no newer than the *)
(* commands pressed can have made them.                                    *)
THEOREM ScreensTypeCorrect == Screens!Spec => []Screens!TypeOK
<1>1. ASSUME ScreensViewInv PROVE Screens!TypeOK
  <2>1. owed \in Screens!AnyRows /\ \A r \in running : r.rows \in Screens!AnyRows
    BY <1>1, ScreenConstants DEF ScreensViewInv, ScreensIsRun, Screens!AnyRows
  <2>2. QED
    BY <1>1, <2>1 DEF ScreensViewInv, Screens!TypeOK, ScreensIsRun, ScreensLoaded
<1>2. QED
  BY <1>1, ScreensViewStarts, ScreensViewStep, PTL DEF Screens!Spec

\* What the view shows.

\* Whether the latest load went with choices that had changed, or changes of choice do not load.
ScreensBehind == outdated \/ screen.page = "impact"

\* An answer or a request that, if it is of the last load, is of what is chosen and, once
\* answered, no older than the user's own commands.
ScreensCurrent(a, last, choice, least, unseen) ==
  a.n = last /\ last > 0 => /\ unseen \/ a.pick = choice
                            /\ a.rows = 0 \/ a.rows >= least

\* Something that has been shown.
ScreensWasShown(a, last) == a.n \in 0..last /\ (a.n > 0 => a.rows # 0)

\* The command r sets the view from its answer.
ScreensSets(r) == screen.view \in Screens!Command(r.c).sets

ScreensTruthInv ==
  /\ \A l \in loads : l.n \in 0..asked /\ ScreensCurrent(l, asked, pick, owed, ScreensBehind)
  /\ ScreensWasShown(shown, asked) /\ ScreensCurrent(shown, asked, pick, owed, ScreensBehind)
  /\ \A r \in running : \A a \in r.before : ScreensWasShown(a, asked) /\ ScreensCurrent(a, asked, pick, owed, ScreensBehind)
  /\ \A q, r \in running : q.c = r.c /\ Screens!Command(r.c).busy => q = r
  /\ \A r \in running : ScreensSets(r) /\ r.rows # 0 => r.rows >= owed

\* Older answers are current whatever is chosen or done.
LEMMA ScreensOlderCurrent ==
  ASSUME NEW a, NEW last \in Nat, NEW later \in Nat, later > last, a.n \in 0..last
  PROVE  \A choice, least, unseen : a.n \in 0..later /\ ScreensCurrent(a, later, choice, least, unseen)
BY DEF ScreensCurrent

\* The view is set by one command at most, which then is the only one that renews it, and has no choices.
LEMMA ScreensOneSetter ==
  ASSUME ScreensViewInv, NEW r, r \in running, ScreensSets(r)
  PROVE  /\ Screens!Command(r.c).busy
         /\ \A q \in running : screen.view \in Screens!Command(q.c).reloads \cup Screens!Command(q.c).sets => q.c = r.c
         /\ \A p, q \in Screens!AnyPick : p = q
<1>1. Screens!Fits(screen.page) /\ r.c \in DOMAIN Screens!ThePage.commands /\ screen.view \in DOMAIN Screens!ThePage.views
  BY ScreenConstants DEF ScreensViewInv, ScreensIsRun
<1>2. /\ Screens!TheView.uses = {} /\ Screens!Command(r.c).busy
      /\ Screens!Renewing(Screens!ThePage, screen.view) = {r.c}
  BY <1>1 DEF Screens!Fits, ScreensSets, Screens!Command, Screens!ThePage, Screens!TheView
<1>3. \A q \in running : q.c \in DOMAIN Screens!ThePage.commands
  BY DEF ScreensViewInv, ScreensIsRun
<1>4. \A q \in running : screen.view \in Screens!Command(q.c).reloads \cup Screens!Command(q.c).sets
                           => q.c \in Screens!Renewing(Screens!ThePage, screen.view)
  BY <1>3 DEF Screens!Renewing, Screens!Command
<1>5. \A p, q \in Screens!AnyPick : p = q
  BY <1>2 DEF Screens!AnyPick
<1>6. QED
  BY <1>2, <1>4, <1>5

LEMMA ScreensTruthStep == ASSUME ScreensViewInv, ScreensTruthInv, [Screens!Next]_(Screens!vars)
                          PROVE  ScreensTruthInv'
<1>0. asked \in Nat /\ owed \in Nat /\ rows \in Nat /\ owed <= rows /\ rows >= 1
  BY DEF ScreensViewInv
<1>1. ASSUME NEW d, Screens!Choose(d) PROVE ScreensTruthInv'
  <2>1. /\ asked' \in Nat /\ asked' >= asked /\ (d \in Screens!TheView.on => asked' > asked)
        /\ asked' = asked => loads' = loads
        /\ outdated' = (outdated /\ asked' = asked)
        /\ \A l \in loads' : \/ l \in loads
                             \/ \E n \in (asked + 1)..asked', p \in Screens!AnyPick :
                                  l = Screens!Request(n, p) /\ (n = asked' => p = pick')
        /\ d \in Screens!TheView.uses \cup Screens!TheView.on
        /\ UNCHANGED <<screen, shown, rows, running, pressed, owed>>
    <3>1. asked' \in asked..MaxLoads
      BY <1>1, ScreensChosen
    <3>2. asked' \in Nat /\ asked' >= asked
      BY <1>0, <3>1, ScreenConstants
    <3>3. QED
      BY <1>1, <3>2, ScreensChosen
  <2>2. asked' = asked => screen.page = "impact"
    <3>1. Screens!Fits(screen.page) /\ screen.view \in DOMAIN Screens!ThePage.views
      BY ScreenConstants DEF ScreensViewInv
    <3>2. screen.page # "impact" => Screens!TheView.uses \subseteq Screens!TheView.on
      BY <3>1 DEF Screens!Fits, Screens!ThePage, Screens!TheView
    <3>3. QED
      BY <1>0, <2>1, <3>2
  <2>3. ASSUME NEW a, a.n \in 0..asked, ScreensCurrent(a, asked, pick, owed, ScreensBehind)
        PROVE  a.n \in 0..asked' /\ ScreensCurrent(a, asked', pick', owed, ScreensBehind')
    <3>1. CASE asked' > asked
      BY <1>0, <2>1, <2>3, <3>1, ScreensOlderCurrent
    <3>2. CASE asked' = asked
      <4>1. ScreensBehind'
        BY <2>1, <2>2, <3>2 DEF ScreensBehind
      <4>2. QED
        BY <2>3, <3>2, <4>1 DEF ScreensCurrent
    <3>3. QED
      BY <1>0, <2>1, <3>1, <3>2
  <2>4. ASSUME NEW l \in loads'
        PROVE  l.n \in 0..asked' /\ ScreensCurrent(l, asked', pick', owed, ScreensBehind')
    <3>1. CASE l \in loads
      BY <2>3, <3>1 DEF ScreensTruthInv
    <3>2. CASE l \notin loads
      <4>1. PICK n \in (asked + 1)..asked', p \in Screens!AnyPick : l = Screens!Request(n, p) /\ (n = asked' => p = pick')
        BY <2>1, <3>2
      <4>2. l.n = n /\ l.pick = p /\ l.rows = 0
        BY <4>1 DEF Screens!Request
      <4>3. QED
        BY <1>0, <2>1, <4>1, <4>2 DEF ScreensCurrent
    <3>3. QED
      BY <3>1, <3>2
  <2>5. \A a : ScreensWasShown(a, asked) => ScreensWasShown(a, asked')
    BY <1>0, <2>1 DEF ScreensWasShown
  <2>6. \A a : ScreensWasShown(a, asked) => a.n \in 0..asked
    BY DEF ScreensWasShown
  <2>7. \A r \in running : ScreensSets(r)' = ScreensSets(r) /\ Screens!Command(r.c)' = Screens!Command(r.c)
    BY <2>1, ScreensSameScreen DEF ScreensSets
  <2>8. QED
    BY <2>1, <2>3, <2>4, <2>5, <2>6, <2>7 DEF ScreensTruthInv
<1>2. ASSUME UNCHANGED <<screen, pick, asked, owed, outdated>>,
             \A l \in loads' : l \in loads \/ (l.n \in 0..asked /\ ScreensCurrent(l, asked, pick, owed, ScreensBehind)),
             ScreensWasShown(shown', asked) /\ ScreensCurrent(shown', asked, pick, owed, ScreensBehind),
             \A r \in running' : \A a \in r.before : ScreensWasShown(a, asked) /\ ScreensCurrent(a, asked, pick, owed, ScreensBehind),
             \A q, r \in running' : q.c = r.c /\ Screens!Command(r.c).busy => q = r,
             \A r \in running' : ScreensSets(r) /\ r.rows # 0 => r.rows >= owed
      PROVE  ScreensTruthInv'
  <2>1. ScreensBehind' = ScreensBehind /\ \A r : ScreensSets(r)' = ScreensSets(r) /\ Screens!Command(r.c)' = Screens!Command(r.c)
    BY <1>2, ScreensSameScreen DEF ScreensBehind, ScreensSets
  <2>2. \A l \in loads : l.n \in 0..asked /\ ScreensCurrent(l, asked, pick, owed, ScreensBehind)
    BY DEF ScreensTruthInv
  <2>3. QED
    BY <1>2, <2>1, <2>2 DEF ScreensTruthInv
<1>3. /\ ScreensWasShown(shown, asked) /\ ScreensCurrent(shown, asked, pick, owed, ScreensBehind)
      /\ \A l \in loads : l.n \in 0..asked /\ ScreensCurrent(l, asked, pick, owed, ScreensBehind)
      /\ \A r \in running : \A a \in r.before : ScreensWasShown(a, asked) /\ ScreensCurrent(a, asked, pick, owed, ScreensBehind)
      /\ \A q, r \in running : q.c = r.c /\ Screens!Command(r.c).busy => q = r
      /\ \A r \in running : ScreensSets(r) /\ r.rows # 0 => r.rows >= owed
  BY DEF ScreensTruthInv
<1>4. ASSUME NEW l \in loads, Screens!Answer(l) PROVE ScreensTruthInv'
  <2> DEFINE a == [l EXCEPT !.rows = rows]
  <2>1. loads' = (loads \ {l}) \cup {a} /\ UNCHANGED <<screen, pick, asked, shown, rows, running, pressed, owed, outdated>>
    BY <1>4 DEF Screens!Answer
  <2>2. a.n = l.n /\ a.pick = l.pick /\ a.rows = rows
    BY DEF ScreensViewInv
  <2> HIDE DEF a
  <2>3. a.n \in 0..asked /\ ScreensCurrent(a, asked, pick, owed, ScreensBehind)
    BY <1>0, <1>3, <2>2 DEF ScreensCurrent
  <2>4. QED
    BY <1>2, <1>3, <2>1, <2>3
<1>5. ASSUME NEW l \in loads, Screens!Show(l) PROVE ScreensTruthInv'
  <2>1. /\ loads' = loads \ {l} /\ shown' = l /\ l.rows # 0
        /\ UNCHANGED <<screen, pick, asked, rows, running, pressed, owed, outdated>>
    BY <1>5 DEF Screens!Show
  <2>2. ScreensWasShown(l, asked) /\ ScreensCurrent(l, asked, pick, owed, ScreensBehind)
    BY <1>3, <2>1 DEF ScreensWasShown
  <2>3. QED
    BY <1>2, <1>3, <2>1, <2>2
<1>6. ASSUME NEW l \in loads, Screens!GiveUp(l) PROVE ScreensTruthInv'
  BY <1>2, <1>3, <1>6 DEF Screens!GiveUp
<1>7. ASSUME NEW c \in DOMAIN Screens!ThePage.commands, Screens!Press(c) PROVE ScreensTruthInv'
  <2> DEFINE b == IF screen.view \in Screens!Command(c).optimistic THEN {shown} ELSE {}
             s == [c |-> c, n |-> pressed + 1, pick |-> pick, rows |-> 0, before |-> b]
  <2>1. /\ running' = running \cup {s} /\ (Screens!Command(c).busy => \A r \in running : r.c # c)
        /\ UNCHANGED <<screen, pick, loads, asked, shown, rows, owed, outdated>>
    BY <1>7 DEF Screens!Press
  <2>2. s.c = c /\ s.rows = 0 /\ s.before \subseteq {shown}
    OBVIOUS
  <2> HIDE DEF s
  <2>3. \A q, r \in running' : q.c = r.c /\ Screens!Command(r.c).busy => q = r
    BY <1>3, <2>1, <2>2
  <2>4. \A r \in running' : \A a \in r.before : ScreensWasShown(a, asked) /\ ScreensCurrent(a, asked, pick, owed, ScreensBehind)
    BY <1>3, <2>1, <2>2
  <2>5. \A r \in running' : ScreensSets(r) /\ r.rows # 0 => r.rows >= owed
    BY <1>3, <2>1, <2>2
  <2>6. QED
    BY <1>2, <1>3, <2>1, <2>3, <2>4, <2>5
<1>8. ASSUME NEW r \in running, Screens!Execute(r) PROVE ScreensTruthInv'
  <2> DEFINE s == [c |-> r.c, n |-> r.n, pick |-> r.pick, rows |-> rows', before |-> r.before]
  <2>1. ScreensIsRun(r, rows)
    BY DEF ScreensViewInv
  <2>2. rows' \in {rows, rows + 1} /\ UNCHANGED <<screen, pick, loads, asked, shown, pressed, owed, outdated>>
    BY <1>8 DEF Screens!Execute
  <2>3. running' = (running \ {r}) \cup {s}
    BY <1>8, <2>1 DEF Screens!Execute, ScreensIsRun
  <2>4. s.c = r.c /\ s.rows = rows' /\ s.before = r.before
    OBVIOUS
  <2> HIDE DEF s
  <2>5. s.rows >= owed
    BY <1>0, <2>2, <2>4
  <2>6. \A q, z \in running' : q.c = z.c /\ Screens!Command(z.c).busy => q = z
    BY <1>3, <2>3, <2>4
  <2>7. \A z \in running' : \A a \in z.before : ScreensWasShown(a, asked) /\ ScreensCurrent(a, asked, pick, owed, ScreensBehind)
    BY <1>3, <2>3, <2>4
  <2>8. \A z \in running' : ScreensSets(z) /\ z.rows # 0 => z.rows >= owed
    BY <1>3, <2>3, <2>5
  <2>9. QED
    BY <1>2, <1>3, <2>2, <2>6, <2>7, <2>8
<1>9. ASSUME NEW r \in running, Screens!Fail(r) PROVE ScreensTruthInv'
  <2>1. /\ running' = running \ {r} /\ (shown' = shown \/ shown' \in r.before)
        /\ UNCHANGED <<screen, pick, loads, asked, pressed, owed, outdated>>
    BY <1>9 DEF Screens!Fail
  <2>2. ScreensWasShown(shown', asked) /\ ScreensCurrent(shown', asked, pick, owed, ScreensBehind)
    BY <1>3, <2>1
  <2>3. QED
    BY <1>2, <1>3, <2>1, <2>2
<1>10. ASSUME NEW r \in running, Screens!Return(r) PROVE ScreensTruthInv'
  <2> DEFINE again == screen.view \in Screens!Command(r.c).reloads
  <2>1. /\ running' = running \ {r} /\ r.rows # 0
        /\ UNCHANGED <<screen, pick, rows, pressed>>
        /\ asked' = IF again \/ ScreensSets(r) THEN asked + 1 ELSE asked
        /\ loads' = IF again THEN loads \cup {Screens!Request(asked', r.pick)} ELSE loads
        /\ shown' = IF ScreensSets(r) THEN [n |-> asked', pick |-> r.pick, rows |-> r.rows] ELSE shown
        /\ owed' = IF (again \/ ScreensSets(r)) /\ r.rows > owed THEN r.rows ELSE owed
        /\ outdated' = IF again THEN r.pick # pick ELSE outdated
    BY <1>10 DEF Screens!Return, ScreensSets
  <2>2. ScreensIsRun(r, rows) /\ pick \in Screens!AnyPick
    BY DEF ScreensViewInv
  <2>3. CASE ~again /\ ~ScreensSets(r)
    <3>1. asked' = asked /\ loads' = loads /\ shown' = shown /\ owed' = owed /\ outdated' = outdated
      BY <2>1, <2>3
    <3> HIDE DEF again
    <3>2. QED
      BY <1>2, <1>3, <2>1, <3>1
  <2>4. CASE again \/ ScreensSets(r)
    <3>1. r.rows \in Nat /\ asked' = asked + 1 /\ asked' \in Nat /\ asked' > asked
      BY <1>0, <2>1, <2>2, <2>4 DEF ScreensIsRun
    <3>3. \A a : a.n \in 0..asked => a.n \in 0..asked' /\ ScreensCurrent(a, asked', pick, owed', ScreensBehind')
      BY <1>0, <3>1, ScreensOlderCurrent
    <3>4. \A a : ScreensWasShown(a, asked) => ScreensWasShown(a, asked') /\ a.n \in 0..asked
      BY <1>0, <3>1 DEF ScreensWasShown
    <3>5. again => ScreensBehind' \/ r.pick = pick
      BY <2>1 DEF ScreensBehind
    <3>6. ScreensSets(r) => r.pick = pick
      BY <2>2, ScreensOneSetter DEF ScreensIsRun
    <3>7. ScreensSets(r) => r.rows >= owed'
      BY <1>0, <1>3, <2>1, <3>1
    <3>8. \A l \in loads' : l.n \in 0..asked' /\ ScreensCurrent(l, asked', pick, owed', ScreensBehind')
      <4>1. ASSUME again, NEW l, l = Screens!Request(asked', r.pick)
            PROVE  l.n \in 0..asked' /\ ScreensCurrent(l, asked', pick, owed', ScreensBehind')
        <5>1. l.n = asked' /\ l.pick = r.pick /\ l.rows = 0
          BY <4>1 DEF Screens!Request
        <5>2. QED
          BY <3>1, <3>5, <4>1, <5>1 DEF ScreensCurrent
      <4>2. QED
        BY <1>3, <2>1, <3>3, <4>1
    <3>9. ScreensWasShown(shown', asked') /\ ScreensCurrent(shown', asked', pick, owed', ScreensBehind')
      <4>1. CASE ScreensSets(r)
        <5>1. shown'.n = asked' /\ shown'.pick = r.pick /\ shown'.rows = r.rows
          BY <2>1, <4>1
        <5>2. QED
          BY <2>1, <3>1, <3>6, <3>7, <4>1, <5>1 DEF ScreensWasShown, ScreensCurrent
      <4>2. CASE ~ScreensSets(r)
        BY <1>3, <2>1, <3>3, <3>4, <4>2
      <4>3. QED
        BY <4>1, <4>2
    <3>10. \A q \in running' : \A a \in q.before : ScreensWasShown(a, asked') /\ ScreensCurrent(a, asked', pick, owed', ScreensBehind')
      BY <1>3, <2>1, <3>3, <3>4
    <3>11. ASSUME NEW q \in running', ScreensSets(q) PROVE FALSE
      <4>1. q \in running /\ q # r
        BY <2>1, <3>11
      <4>2. /\ Screens!Command(q.c).busy
            /\ \A z \in running : screen.view \in Screens!Command(z.c).reloads \cup Screens!Command(z.c).sets => z.c = q.c
        BY <3>11, <4>1, ScreensOneSetter
      <4>3. r.c = q.c
        BY <2>4, <4>2 DEF ScreensSets
      <4>4. QED
        BY <1>3, <4>1, <4>2, <4>3
    <3>12. \A z : ScreensSets(z)' = ScreensSets(z) /\ Screens!Command(z.c)' = Screens!Command(z.c)
      BY <2>1, ScreensSameScreen DEF ScreensSets
    <3> HIDE DEF again
    <3>13. QED
      BY <1>3, <2>1, <3>8, <3>9, <3>10, <3>11, <3>12 DEF ScreensTruthInv
  <2>5. QED
    BY <2>3, <2>4
<1>11. ASSUME UNCHANGED Screens!vars PROVE ScreensTruthInv'
  BY <1>2, <1>3, <1>11 DEF Screens!vars
<1>12. QED
  BY <1>1, <1>4, <1>5, <1>6, <1>7, <1>8, <1>9, <1>10, <1>11 DEF Screens!Next

LEMMA ScreensTruthStarts == ASSUME Screens!Init PROVE ScreensTruthInv
<1>1. /\ running = {} /\ owed = 0
      /\ shown = [Screens!Request(1, pick) EXCEPT !.n = 0]
      /\ loads = (IF Screens!TheView.mount THEN {Screens!Request(1, pick)} ELSE {}) /\ asked = Cardinality(loads)
  BY ScreensCount DEF Screens!Init
<1>2. Screens!Request(1, pick) = [n |-> 1, pick |-> pick, rows |-> 0]
  BY DEF Screens!Request
<1>3. shown.n = 0
  BY <1>1, <1>2
<1>4. asked = IF Screens!TheView.mount THEN 1 ELSE 0
  BY <1>1, FS_Singleton, FS_EmptySet
<1>5. ScreensWasShown(shown, asked) /\ ScreensCurrent(shown, asked, pick, owed, ScreensBehind)
  BY <1>3, <1>4 DEF ScreensWasShown, ScreensCurrent
<1>6. \A l \in loads : l.n \in 0..asked /\ ScreensCurrent(l, asked, pick, owed, ScreensBehind)
  BY <1>1, <1>2, <1>4 DEF ScreensCurrent
<1>7. QED
  BY <1>1, <1>5, <1>6 DEF ScreensTruthInv

(* Whatever is loaded, chosen and pressed in whatever order, and whichever *)
(* answers are late or lost: a view at rest that shows its latest load     *)
(* shows what is chosen.                                                   *)
THEOREM ScreensChoice == Screens!Spec => []Screens!SettledShowsTheChoice
<1>1. ASSUME ScreensTruthInv PROVE Screens!SettledShowsTheChoice
  BY <1>1 DEF ScreensTruthInv, Screens!SettledShowsTheChoice, Screens!Settled, ScreensCurrent, ScreensBehind
<1>2. QED
  BY <1>1, ScreensViewStarts, ScreensViewStep, ScreensTruthStarts, ScreensTruthStep, PTL DEF Screens!Spec

(* And it shows what the user's own commands on it have done.              *)
THEOREM ScreensOwnWrites == Screens!Spec => []Screens!OwnWritesShown
<1>1. ASSUME ScreensViewInv, ScreensTruthInv PROVE Screens!OwnWritesShown
  <2>1. ASSUME Screens!Settled PROVE shown.rows >= owed
    <3>1. shown.n = asked /\ asked > 0
      BY <2>1 DEF Screens!Settled
    <3>2. shown.rows # 0
      BY <1>1, <3>1 DEF ScreensTruthInv, ScreensWasShown
    <3>3. QED
      BY <1>1, <3>1, <3>2 DEF ScreensTruthInv, ScreensCurrent
  <2>2. QED
    BY <2>1 DEF Screens!OwnWritesShown
<1>2. QED
  BY <1>1, ScreensViewStarts, ScreensViewStep, ScreensTruthStarts, ScreensTruthStep, PTL DEF Screens!Spec

(* Nobody asks for what the API refuses to their role, given that no page  *)
(* and no button does that is led to or shown.                             *)
THEOREM ScreensServed == Screens!Spec => []Screens!NavServes
<1>1. ASSUME ScreensViewInv PROVE Screens!NavServes
  <2>1. Screens!Fits(screen.page) /\ screen.view \in DOMAIN Screens!ThePage.views /\ screen.role \in Screens!ThePage.roles
    BY <1>1, ScreenConstants DEF ScreensViewInv
  <2>2. screen.page # "docs" => Screens!Granted(Screens!TheView.calls)
    BY <2>1 DEF Screens!Fits, Screens!ThePage, Screens!TheView, Screens!Granted
  <2>3. \A r \in running : r.c \in DOMAIN Screens!ThePage.commands /\ screen.role \in Screens!Command(r.c).roles
    BY <1>1 DEF ScreensViewInv, ScreensIsRun
  <2>4. \A r \in running : Screens!Granted(Screens!Command(r.c).calls)
    BY <2>1, <2>3 DEF Screens!Fits, Screens!ThePage, Screens!Command, Screens!Granted
  <2>5. QED
    BY <2>2, <2>4 DEF Screens!NavServes
<1>2. QED
  BY <1>1, ScreensViewStarts, ScreensViewStep, PTL DEF Screens!Spec

-----------------------------------------------------------------------------
(* Automatic and risk nudges.                                              *)

\* Sets are counted as everywhere.
LEMMA GuidanceCount ==
  \A S : Guidance!IsFiniteSet(S) = IsFiniteSet(S) /\ Guidance!Cardinality(S) = Cardinality(S)
BY DEF Guidance!IsFiniteSet, IsFiniteSet, Guidance!Cardinality, Cardinality

GuidanceScans == [op : {"scan"}, left : SUBSET Entities]
GuidanceNudgeScans == [op : {"nudge"}, entity : Entities, left : SUBSET Entities]
GuidanceDrivers == [op : {"driver"}, today : BOOLEAN, remaining : 1..Cap, left : SUBSET Guidance!RiskKeys]
GuidanceCreators == [op : {"create"}, today : BOOLEAN, remaining : 1..Cap, key : Guidance!RiskKeys, left : SUBSET Guidance!RiskKeys]
GuidanceFrames == {Guidance!Idle} \cup GuidanceScans \cup GuidanceNudgeScans \cup GuidanceDrivers \cup GuidanceCreators

\* A step of the request h.
GuidanceStepOf(h) ==
  \/ \E overdue \in (SUBSET Entities) \ {{}} : Guidance!ScanBegin(h, overdue)
  \/ Guidance!ScanLookUp(h) \/ Guidance!ScanCreate(h)
  \/ Guidance!RiskBegin(h) \/ Guidance!RiskLookUp(h) \/ Guidance!RiskCreate(h) \/ Guidance!Lost(h)

\* The scans that have found no open nudge for an entity.
GuidanceNudging(e) == {h \in Handlers : frame[h].op = "nudge" /\ frame[h].entity = e}

GuidanceScanInv == \A e \in Entities : autoOpen[e] + Cardinality(GuidanceNudging(e)) <= Cardinality(Handlers)

\* A run that is alone on the day's snapshot may create what the nudges of the day leave of the cap.
GuidanceCapInv ==
  ~disturbed =>
    /\ made <= Cap
    /\ \A g, h \in Guidance!RiskRuns : g = h
    /\ \A h \in Guidance!RiskRuns : made + frame[h].remaining <= Cap

\* Types.

LEMMA GuidanceParts ==
  ASSUME Guidance!TypeOK
  PROVE  /\ frame \in [Handlers -> GuidanceFrames]
         /\ autoOpen \in [Entities -> 0..MaxAuto]
         /\ manualOpen \subseteq Entities
         /\ keys \subseteq Guidance!RiskKeys /\ oldKeys \subseteq Guidance!RiskKeys /\ riskOpen \subseteq Entities
         /\ made \in 0..MaxRisk /\ madeBefore \in 0..MaxRisk
         /\ fresh \in BOOLEAN /\ disturbed \in BOOLEAN
         /\ days \in 0..MaxDays
BY DEF Guidance!TypeOK, GuidanceFrames, GuidanceScans, GuidanceNudgeScans, GuidanceDrivers, GuidanceCreators

LEMMA GuidancePartsSuffice ==
  ASSUME frame' \in [Handlers -> GuidanceFrames],
         autoOpen' \in [Entities -> 0..MaxAuto],
         manualOpen' \subseteq Entities,
         keys' \subseteq Guidance!RiskKeys, oldKeys' \subseteq Guidance!RiskKeys, riskOpen' \subseteq Entities,
         made' \in 0..MaxRisk, madeBefore' \in 0..MaxRisk,
         fresh' \in BOOLEAN, disturbed' \in BOOLEAN,
         days' \in 0..MaxDays
  PROVE  Guidance!TypeOK'
BY DEF Guidance!TypeOK, GuidanceFrames, GuidanceScans, GuidanceNudgeScans, GuidanceDrivers, GuidanceCreators

LEMMA GuidanceFrameParts ==
  ASSUME Guidance!TypeOK, NEW h \in Handlers
  PROVE  /\ frame[h].op \in {"idle", "scan", "nudge", "driver", "create"}
         /\ frame[h].op = "scan" => frame[h].left \subseteq Entities
         /\ frame[h].op = "nudge" => frame[h].entity \in Entities /\ frame[h].left \subseteq Entities
         /\ frame[h].op \in Guidance!RiskOps => /\ frame[h].today \in BOOLEAN /\ frame[h].remaining \in 1..Cap
                                                /\ frame[h].left \subseteq Guidance!RiskKeys
         /\ frame[h].op = "create" => frame[h].key \in Guidance!RiskKeys
         /\ frame[h].op = "driver" =>
              \A l : [frame[h] EXCEPT !.left = l] =
                       [op |-> "driver", today |-> frame[h].today, remaining |-> frame[h].remaining, left |-> l]
<1>1. frame[h] = Guidance!Idle \/ frame[h] \in GuidanceScans \/ frame[h] \in GuidanceNudgeScans \/ frame[h] \in GuidanceDrivers \/ frame[h] \in GuidanceCreators
  BY GuidanceParts DEF GuidanceFrames
<1>2. CASE frame[h] = Guidance!Idle
  BY <1>2 DEF Guidance!Idle, Guidance!RiskOps
<1>3. CASE frame[h] \in GuidanceScans
  BY <1>3 DEF GuidanceScans, Guidance!RiskOps
<1>4. CASE frame[h] \in GuidanceNudgeScans
  BY <1>4 DEF GuidanceNudgeScans, Guidance!RiskOps
<1>5. CASE frame[h] \in GuidanceDrivers
  BY <1>5 DEF GuidanceDrivers, Guidance!RiskOps
<1>6. CASE frame[h] \in GuidanceCreators
  BY <1>6 DEF GuidanceCreators, Guidance!RiskOps
<1>7. QED
  BY <1>1, <1>2, <1>3, <1>4, <1>5, <1>6

\* Where h goes on.
LEMMA GuidanceNextFrame ==
  ASSUME Guidance!TypeOK, NEW h \in Handlers, GuidanceStepOf(h)
  PROVE  \E f \in GuidanceFrames : Guidance!GoOn(h, f)
<1>1. /\ Guidance!Idle \in GuidanceFrames
      /\ \A l \in SUBSET Entities : [op |-> "scan", left |-> l] \in GuidanceFrames
      /\ \A e \in Entities, l \in SUBSET Entities : [op |-> "nudge", entity |-> e, left |-> l] \in GuidanceFrames
  BY DEF GuidanceFrames, GuidanceScans, GuidanceNudgeScans
<1>2. /\ \A t \in BOOLEAN, r \in 1..Cap, l \in SUBSET Guidance!RiskKeys :
           [op |-> "driver", today |-> t, remaining |-> r, left |-> l] \in GuidanceFrames
      /\ \A t \in BOOLEAN, r \in 1..Cap, k \in Guidance!RiskKeys, l \in SUBSET Guidance!RiskKeys :
           [op |-> "create", today |-> t, remaining |-> r, key |-> k, left |-> l] \in GuidanceFrames
  BY DEF GuidanceFrames, GuidanceDrivers, GuidanceCreators
<1>3. CASE \E overdue \in (SUBSET Entities) \ {{}} : Guidance!ScanBegin(h, overdue)
  BY <1>1, <1>3 DEF Guidance!ScanBegin, Guidance!Serve, Guidance!GoOn
<1>4. CASE Guidance!ScanLookUp(h)
  <2>1. frame[h].left \subseteq Entities
    BY <1>4, GuidanceFrameParts DEF Guidance!ScanLookUp, Guidance!At
  <2>2. QED
    BY <1>1, <1>4, <2>1 DEF Guidance!ScanLookUp, Guidance!GoOnScanning, Guidance!Finish
<1>5. CASE Guidance!ScanCreate(h)
  <2>1. frame[h].left \subseteq Entities
    BY <1>5, GuidanceFrameParts DEF Guidance!ScanCreate, Guidance!At
  <2>2. QED
    BY <1>1, <1>5, <2>1 DEF Guidance!ScanCreate, Guidance!GoOnScanning, Guidance!Finish
<1>6. CASE Guidance!RiskBegin(h)
  <2>1. PICK existing \in {made, madeBefore} :
          /\ existing < Cap
          /\ Guidance!GoOn(h, [op |-> "driver", today |-> fresh, remaining |-> Cap - existing, left |-> Guidance!RiskKeys])
    BY <1>6 DEF Guidance!RiskBegin, Guidance!Serve, Guidance!GoOn
  <2>2. Cap - existing \in 1..Cap /\ fresh \in BOOLEAN
    BY <2>1, GuidanceParts, GuidanceConstants
  <2>3. QED
    BY <1>2, <2>1, <2>2
<1>7. CASE Guidance!RiskLookUp(h)
  <2>1. /\ frame[h].today \in BOOLEAN /\ frame[h].remaining \in 1..Cap /\ frame[h].left \subseteq Guidance!RiskKeys
        /\ \A l : [frame[h] EXCEPT !.left = l] =
                       [op |-> "driver", today |-> frame[h].today, remaining |-> frame[h].remaining, left |-> l]
    BY <1>7, GuidanceFrameParts DEF Guidance!RiskLookUp, Guidance!At, Guidance!RiskOps
  <2>2. CASE Guidance!GoOn(h, Guidance!Idle)
    BY <1>1, <2>2
  <2>3. CASE \E k \in frame[h].left :
              \/ Guidance!GoOn(h, [frame[h] EXCEPT !.left = frame[h].left \ {k}])
              \/ Guidance!GoOn(h, [op |-> "create", today |-> frame[h].today, remaining |-> frame[h].remaining,
                                    key |-> k, left |-> frame[h].left \ {k}])
    BY <1>2, <2>1, <2>3
  <2>4. QED
    BY <1>7, <2>2, <2>3 DEF Guidance!RiskLookUp, Guidance!Finish
<1>8. CASE Guidance!RiskCreate(h)
  <2>1. frame[h].today \in BOOLEAN /\ frame[h].remaining \in 1..Cap /\ frame[h].left \subseteq Guidance!RiskKeys
    BY <1>8, GuidanceFrameParts DEF Guidance!RiskCreate, Guidance!At, Guidance!RiskOps
  <2>2. frame[h].remaining # 1 => frame[h].remaining - 1 \in 1..Cap
    BY <2>1, GuidanceConstants
  <2>3. \/ Guidance!GoOn(h, Guidance!Idle)
        \/ /\ frame[h].remaining # 1
           /\ Guidance!GoOn(h, [op |-> "driver", today |-> frame[h].today, remaining |-> frame[h].remaining - 1,
                                left |-> frame[h].left])
    BY <1>8 DEF Guidance!RiskCreate, Guidance!Finish
  <2>4. QED
    BY <1>1, <1>2, <2>1, <2>2, <2>3
<1>9. CASE Guidance!Lost(h)
  BY <1>1, <1>9 DEF Guidance!Lost, Guidance!Drop, Guidance!Finish
<1>10. QED
  BY <1>3, <1>4, <1>5, <1>6, <1>7, <1>8, <1>9 DEF GuidanceStepOf

\* A run that looks at a driver keeps what it may create.
LEMMA GuidanceLookUpFrame ==
  ASSUME Guidance!TypeOK, NEW h \in Handlers, Guidance!RiskLookUp(h)
  PROVE  \E f : /\ \/ f = Guidance!Idle
                   \/ f.op \in {"driver", "create"} /\ f.remaining = frame[h].remaining
                /\ Guidance!GoOn(h, f)
<1>1. \A l : [frame[h] EXCEPT !.left = l] =
               [op |-> "driver", today |-> frame[h].today, remaining |-> frame[h].remaining, left |-> l]
  BY GuidanceFrameParts DEF Guidance!RiskLookUp, Guidance!At
<1>2. CASE Guidance!GoOn(h, Guidance!Idle)
  BY <1>2
<1>3. ASSUME NEW k, Guidance!GoOn(h, [frame[h] EXCEPT !.left = frame[h].left \ {k}])
      PROVE  \E f : f.op = "driver" /\ f.remaining = frame[h].remaining /\ Guidance!GoOn(h, f)
  <2>1. Guidance!GoOn(h, [op |-> "driver", today |-> frame[h].today, remaining |-> frame[h].remaining, left |-> frame[h].left \ {k}])
    BY <1>1, <1>3
  <2>2. QED
    BY <2>1
<1>4. ASSUME NEW k, Guidance!GoOn(h, [op |-> "create", today |-> frame[h].today, remaining |-> frame[h].remaining,
                                      key |-> k, left |-> frame[h].left \ {k}])
      PROVE  \E f : f.op = "create" /\ f.remaining = frame[h].remaining /\ Guidance!GoOn(h, f)
  BY <1>4
<1>5. \/ Guidance!GoOn(h, Guidance!Idle)
      \/ \E k : \/ Guidance!GoOn(h, [frame[h] EXCEPT !.left = frame[h].left \ {k}])
                \/ Guidance!GoOn(h, [op |-> "create", today |-> frame[h].today, remaining |-> frame[h].remaining,
                                      key |-> k, left |-> frame[h].left \ {k}])
  BY DEF Guidance!RiskLookUp, Guidance!Finish
<1>6. QED
  BY <1>2, <1>3, <1>4, <1>5

LEMMA GuidanceFrameStep ==
  ASSUME Guidance!TypeOK, NEW h \in Handlers, GuidanceStepOf(h)
  PROVE  /\ frame' \in [Handlers -> GuidanceFrames]
         /\ \A g \in Handlers \ {h} : frame'[g] = frame[g]
BY GuidanceNextFrame, GuidanceParts DEF Guidance!GoOn

LEMMA GuidanceTypeStep == ASSUME Guidance!TypeOK, [Guidance!Next]_(Guidance!vars) PROVE Guidance!TypeOK'
<1>1. ASSUME NEW h \in Handlers, GuidanceStepOf(h) PROVE Guidance!TypeOK'
  <2>1. frame' \in [Handlers -> GuidanceFrames]
    BY <1>1, GuidanceFrameStep
  <2>2. CASE (\E overdue \in (SUBSET Entities) \ {{}} : Guidance!ScanBegin(h, overdue)) \/ Guidance!ScanLookUp(h) \/ Guidance!RiskLookUp(h) \/ Guidance!Lost(h)
    <3>1. UNCHANGED <<autoOpen, manualOpen, Guidance!riskVars>>
      BY <2>2 DEF Guidance!ScanBegin, Guidance!ScanLookUp, Guidance!RiskLookUp, Guidance!Lost
    <3>2. QED
      BY <2>1, <3>1, GuidanceParts, GuidancePartsSuffice DEF Guidance!riskVars
  <2>3. CASE Guidance!ScanCreate(h)
    <3>1. frame[h].entity \in Entities
      BY <2>3, GuidanceFrameParts DEF Guidance!ScanCreate, Guidance!At
    <3>2. autoOpen' \in [Entities -> 0..MaxAuto]
      BY <2>3, <3>1, GuidanceParts, GuidanceConstants DEF Guidance!ScanCreate
    <3>3. UNCHANGED <<manualOpen, Guidance!riskVars>>
      BY <2>3 DEF Guidance!ScanCreate
    <3>4. QED
      BY <2>1, <3>2, <3>3, GuidanceParts, GuidancePartsSuffice DEF Guidance!riskVars
  <2>4. CASE Guidance!RiskBegin(h)
    <3>1. disturbed' \in BOOLEAN
      BY <2>4 DEF Guidance!RiskBegin
    <3>2. UNCHANGED <<autoOpen, manualOpen, keys, oldKeys, riskOpen, made, madeBefore, fresh, days>>
      BY <2>4 DEF Guidance!RiskBegin
    <3>3. QED
      BY <2>1, <3>1, <3>2, GuidanceParts, GuidancePartsSuffice
  <2>5. CASE Guidance!RiskCreate(h)
    <3>1. frame[h].key \in Guidance!RiskKeys /\ frame[h].key[2] \in Entities
      BY <2>5, GuidanceFrameParts DEF Guidance!RiskCreate, Guidance!At, Guidance!RiskKeys
    <3>2. UNCHANGED <<autoOpen, manualOpen, madeBefore, fresh, disturbed, days>>
      BY <2>5 DEF Guidance!RiskCreate
    <3>3. made' \in 0..MaxRisk
      BY <2>5, GuidanceParts, GuidanceConstants DEF Guidance!RiskCreate
    <3>4. keys' \subseteq Guidance!RiskKeys /\ oldKeys' \subseteq Guidance!RiskKeys /\ riskOpen' \subseteq Entities
      BY <2>5, <3>1, GuidanceParts DEF Guidance!RiskCreate
    <3>5. QED
      BY <2>1, <3>2, <3>3, <3>4, GuidanceParts, GuidancePartsSuffice
  <2>6. QED
    BY <1>1, <2>2, <2>3, <2>4, <2>5 DEF GuidanceStepOf
<1>2. ASSUME NEW e \in Entities, Guidance!Create(e) PROVE Guidance!TypeOK'
  <2>1. manualOpen' \subseteq Entities /\ UNCHANGED <<frame, autoOpen, Guidance!riskVars>>
    BY <1>2, GuidanceParts DEF Guidance!Create
  <2>2. QED
    BY <2>1, GuidanceParts, GuidancePartsSuffice DEF Guidance!riskVars
<1>3. ASSUME NEW e \in Entities, Guidance!Resolve(e) PROVE Guidance!TypeOK'
  <2>1. /\ autoOpen' \in [Entities -> 0..MaxAuto]
        /\ manualOpen' \subseteq Entities /\ riskOpen' \subseteq Entities
    BY <1>3, GuidanceParts, GuidanceConstants DEF Guidance!Resolve
  <2>2. UNCHANGED <<frame, keys, oldKeys, made, madeBefore, fresh, disturbed, days>>
    BY <1>3 DEF Guidance!Resolve
  <2>3. QED
    BY <2>1, <2>2, GuidanceParts, GuidancePartsSuffice
<1>4. CASE Guidance!DayPasses
  <2>1. days' \in 0..MaxDays /\ made' \in 0..MaxRisk /\ madeBefore' \in 0..MaxRisk
    BY <1>4, GuidanceParts, GuidanceConstants DEF Guidance!DayPasses
  <2>2. keys' \subseteq Guidance!RiskKeys /\ oldKeys' \subseteq Guidance!RiskKeys /\ fresh' \in BOOLEAN /\ disturbed' \in BOOLEAN
    BY <1>4, GuidanceParts DEF Guidance!DayPasses
  <2>3. UNCHANGED <<frame, autoOpen, manualOpen, riskOpen>>
    BY <1>4 DEF Guidance!DayPasses
  <2>4. QED
    BY <2>1, <2>2, <2>3, GuidanceParts, GuidancePartsSuffice
<1>5. CASE Guidance!SnapshotStored
  <2>1. /\ fresh' \in BOOLEAN
        /\ UNCHANGED <<frame, autoOpen, manualOpen, keys, oldKeys, riskOpen, made, madeBefore, disturbed, days>>
    BY <1>5 DEF Guidance!SnapshotStored
  <2>2. QED
    BY <2>1, GuidanceParts, GuidancePartsSuffice
<1>6. CASE UNCHANGED Guidance!vars
  BY <1>6, GuidanceParts, GuidancePartsSuffice DEF Guidance!vars, Guidance!riskVars
<1>7. QED
  BY <1>1, <1>2, <1>3, <1>4, <1>5, <1>6 DEF Guidance!Next, GuidanceStepOf, Guidance!InvoiceScanBegin

(* The scans and the nudges keep their types, for any entities, types of   *)
(* risk and number of scans.                                               *)
THEOREM GuidanceTypeCorrect == Guidance!Spec => []Guidance!TypeOK
<1>1. ASSUME Guidance!Init PROVE Guidance!TypeOK
  <2>1. frame \in [Handlers -> {Guidance!Idle}]
    BY <1>1 DEF Guidance!Init, Guidance!ServerInit
  <2>2. autoOpen \in [Entities -> 0..MaxAuto] /\ made \in 0..MaxRisk /\ madeBefore \in 0..MaxRisk /\ days \in 0..MaxDays
    BY <1>1, GuidanceConstants DEF Guidance!Init
  <2>3. QED
    BY <1>1, <2>1, <2>2 DEF Guidance!Init, Guidance!TypeOK
<1>2. QED
  BY <1>1, GuidanceTypeStep, PTL DEF Guidance!Spec

\* Scans.

\* What a step of h does to the scan nudges of an entity.
LEMMA GuidanceScanCases ==
  ASSUME Guidance!TypeOK, NEW h \in Handlers, GuidanceStepOf(h), NEW e \in Entities
  PROVE  \/ autoOpen'[e] = autoOpen[e] /\ (h \notin GuidanceNudging(e)' \/ autoOpen[e] = 0)
         \/ autoOpen'[e] = autoOpen[e] + 1 /\ h \in GuidanceNudging(e) /\ h \notin GuidanceNudging(e)'
<1>0. /\ frame \in [Handlers -> GuidanceFrames] /\ autoOpen[e] \in Nat
      /\ h \in GuidanceNudging(e) <=> (frame[h].op = "nudge" /\ frame[h].entity = e)
      /\ h \in GuidanceNudging(e)' <=> (frame'[h].op = "nudge" /\ frame'[h].entity = e)
  BY GuidanceParts DEF GuidanceNudging
<1>i. Guidance!Idle.op = "idle"
  BY DEF Guidance!Idle
<1>1. CASE Guidance!ScanCreate(h)
  <2>1. /\ frame[h].op = "nudge" /\ frame[h].entity \in Entities
        /\ autoOpen' = [autoOpen EXCEPT ![frame[h].entity] = @ + 1]
    BY <1>1, GuidanceFrameParts DEF Guidance!ScanCreate, Guidance!At
  <2>2. frame'[h] = Guidance!Idle \/ frame'[h] = [op |-> "scan", left |-> frame[h].left]
    BY <1>0, <1>1 DEF Guidance!ScanCreate, Guidance!GoOnScanning, Guidance!GoOn, Guidance!Finish
  <2>3. frame'[h].op \in {"idle", "scan"}
    BY <1>i, <2>2
  <2>4. autoOpen'[e] = IF frame[h].entity = e THEN autoOpen[e] + 1 ELSE autoOpen[e]
    BY <2>1, GuidanceParts
  <2>5. QED
    BY <1>0, <2>1, <2>3, <2>4
<1>2. CASE Guidance!ScanLookUp(h)
  <2>1. PICK d \in frame[h].left :
          \/ frame'[h] = Guidance!Idle \/ frame'[h] = [op |-> "scan", left |-> frame[h].left \ {d}]
          \/ autoOpen[d] <= 0 /\ frame'[h] = [op |-> "nudge", entity |-> d, left |-> frame[h].left \ {d}]
    <3>1. frame[h].left \subseteq Entities
      BY <1>2, GuidanceFrameParts DEF Guidance!ScanLookUp, Guidance!At
    <3>2. \A d \in Entities : autoOpen[d] \in Nat
      BY GuidanceParts
    <3>3. PICK d \in frame[h].left :
            \/ Guidance!GoOn(h, Guidance!Idle) \/ Guidance!GoOn(h, [op |-> "scan", left |-> frame[h].left \ {d}])
            \/ ~(autoOpen[d] > 0) /\ Guidance!GoOn(h, [op |-> "nudge", entity |-> d, left |-> frame[h].left \ {d}])
      BY <1>2 DEF Guidance!ScanLookUp, Guidance!GoOnScanning, Guidance!Finish
    <3>4. \/ frame'[h] = Guidance!Idle \/ frame'[h] = [op |-> "scan", left |-> frame[h].left \ {d}]
          \/ ~(autoOpen[d] > 0) /\ frame'[h] = [op |-> "nudge", entity |-> d, left |-> frame[h].left \ {d}]
      BY <1>0, <3>3 DEF Guidance!GoOn
    <3>5. d \in Entities /\ (~(autoOpen[d] > 0) => autoOpen[d] <= 0)
      BY <3>1, <3>2
    <3>6. QED
      BY <3>4, <3>5
  <2>2. \/ frame'[h].op \in {"idle", "scan"}
        \/ autoOpen[d] <= 0 /\ frame'[h].entity = d
    BY <1>i, <2>1
  <2>3. autoOpen' = autoOpen
    BY <1>2 DEF Guidance!ScanLookUp
  <2>4. QED
    BY <1>0, <2>2, <2>3
<1>3. CASE (\E overdue \in (SUBSET Entities) \ {{}} : Guidance!ScanBegin(h, overdue))
           \/ Guidance!RiskBegin(h) \/ Guidance!RiskCreate(h) \/ Guidance!RiskLookUp(h) \/ Guidance!Lost(h)
  <2>1. autoOpen' = autoOpen
    BY <1>3 DEF Guidance!ScanBegin, Guidance!RiskBegin, Guidance!RiskCreate, Guidance!RiskLookUp, Guidance!Lost
  <2>2. frame'[h].op # "nudge"
    <3>1. CASE Guidance!RiskLookUp(h)
      <4>1. /\ frame[h].op = "driver"
            /\ \A l : [frame[h] EXCEPT !.left = l] =
                       [op |-> "driver", today |-> frame[h].today, remaining |-> frame[h].remaining, left |-> l]
        BY <3>1, GuidanceFrameParts DEF Guidance!RiskLookUp, Guidance!At
      <4>2. \E f : f.op \in {"idle", "driver", "create"} /\ Guidance!GoOn(h, f)
        BY <1>i, <3>1, GuidanceLookUpFrame
      <4>3. QED
        BY <1>0, <4>2 DEF Guidance!GoOn
    <3>2. CASE (\E overdue \in (SUBSET Entities) \ {{}} : Guidance!ScanBegin(h, overdue))
               \/ Guidance!RiskBegin(h) \/ Guidance!RiskCreate(h) \/ Guidance!Lost(h)
      <4>1. \E f : f.op \in {"idle", "driver", "scan"} /\ Guidance!GoOn(h, f)
        BY <1>i, <3>2 DEF Guidance!ScanBegin, Guidance!RiskBegin, Guidance!RiskCreate, Guidance!Lost,
           Guidance!Drop, Guidance!Serve, Guidance!Finish, Guidance!GoOn
      <4>2. QED
        BY <1>0, <4>1 DEF Guidance!GoOn
    <3>3. QED
      BY <1>3, <3>1, <3>2
  <2>3. QED
    BY <1>0, <2>1, <2>2
<1>4. QED
  BY <1>1, <1>2, <1>3 DEF GuidanceStepOf

LEMMA GuidanceScanStep == ASSUME Guidance!TypeOK, GuidanceScanInv, [Guidance!Next]_(Guidance!vars)
                          PROVE  GuidanceScanInv'
<1>1. ASSUME NEW h \in Handlers, GuidanceStepOf(h), NEW e \in Entities
      PROVE  autoOpen'[e] + Cardinality(GuidanceNudging(e)') <= Cardinality(Handlers)
  <2> DEFINE C == GuidanceNudging(e)
             D == GuidanceNudging(e)'
             n == Cardinality(Handlers)
  <2>1. C \in SUBSET Handlers /\ D \in SUBSET Handlers /\ D \ {h} = C \ {h}
    BY <1>1, GuidanceFrameStep DEF GuidanceNudging
  <2>2. /\ Cardinality(C) \in Nat /\ Cardinality(D) \in Nat /\ Cardinality(D) <= n
        /\ n \in Nat /\ autoOpen[e] \in Nat
    BY <2>1, SomeCounted, HandlersCounted, GuidanceParts
  <2>3. /\ h \notin D => Cardinality(D) <= Cardinality(C)
        /\ h \in C /\ h \notin D => Cardinality(D) = Cardinality(C) - 1
    BY <2>1, OneMoves
  <2>4. autoOpen[e] + Cardinality(C) <= n
    BY DEF GuidanceScanInv
  <2>5. \/ autoOpen'[e] = autoOpen[e] /\ (h \notin D \/ autoOpen[e] = 0)
        \/ autoOpen'[e] = autoOpen[e] + 1 /\ h \in C /\ h \notin D
    BY <1>1, GuidanceScanCases
  <2> HIDE DEF C, D, n
  <2>6. autoOpen'[e] + Cardinality(D) <= n
    BY <2>2, <2>3, <2>4, <2>5
  <2>7. QED
    BY <2>6 DEF D, n
<1>2. ASSUME NEW d \in Entities, Guidance!Resolve(d) PROVE GuidanceScanInv'
  <2>1. \A e \in Entities : /\ GuidanceNudging(e)' = GuidanceNudging(e) /\ Cardinality(GuidanceNudging(e)) \in Nat
                            /\ autoOpen[e] \in Nat /\ autoOpen'[e] \in Nat /\ autoOpen'[e] <= autoOpen[e]
    <3>1. ASSUME NEW e \in Entities
          PROVE  autoOpen[e] \in Nat /\ autoOpen'[e] \in Nat /\ autoOpen'[e] <= autoOpen[e]
      <4>1. autoOpen' = autoOpen \/ (autoOpen[d] > 0 /\ autoOpen' = [autoOpen EXCEPT ![d] = @ - 1])
        BY <1>2 DEF Guidance!Resolve
      <4>2. QED
        BY <4>1, GuidanceParts
    <3>2. \A e \in Entities : GuidanceNudging(e)' = GuidanceNudging(e)
      BY <1>2 DEF Guidance!Resolve, GuidanceNudging
    <3>3. QED
      BY <3>1, <3>2, SomeCounted DEF GuidanceNudging
  <2>2. QED
    BY <2>1, HandlersCounted DEF GuidanceScanInv
<1>3. CASE (\E e \in Entities : Guidance!Create(e)) \/ Guidance!DayPasses \/ Guidance!SnapshotStored \/ UNCHANGED Guidance!vars
  BY <1>3 DEF Guidance!Create, Guidance!DayPasses, Guidance!SnapshotStored, Guidance!vars, GuidanceScanInv,
     GuidanceNudging
<1>4. QED
  BY <1>1, <1>2, <1>3 DEF Guidance!Next, GuidanceStepOf, Guidance!InvoiceScanBegin, GuidanceScanInv

(* No entity has more open scan nudges than there are handlers: the open   *)
(* ones and the scans that found none and are about to create one are      *)
(* together at most the handlers (createAutoNudgeIfMissing).               *)
THEOREM GuidanceScanNudges == Guidance!Spec => []Guidance!ScanNudgesBounded
<1>1. ASSUME Guidance!Init PROVE GuidanceScanInv
  <2>1. \A e \in Entities : GuidanceNudging(e) = {}
    BY <1>1 DEF Guidance!Init, Guidance!ServerInit, GuidanceNudging, Guidance!Idle
  <2>2. QED
    BY <1>1, <2>1, FS_EmptySet, HandlersCounted DEF Guidance!Init, GuidanceScanInv
<1>2. ASSUME Guidance!TypeOK, GuidanceScanInv PROVE Guidance!ScanNudgesBounded
  <2>1. \A e \in Entities : Cardinality(GuidanceNudging(e)) \in Nat /\ autoOpen[e] \in Nat
    BY <1>2, SomeCounted, GuidanceParts DEF GuidanceNudging
  <2>2. QED
    BY <1>2, <2>1, HandlersCounted, GuidanceCount DEF GuidanceScanInv, Guidance!ScanNudgesBounded
<1>3. QED
  BY <1>1, <1>2, GuidanceScanStep, GuidanceTypeCorrect, PTL DEF Guidance!Spec

\* The cap.

LEMMA GuidanceCapStep == ASSUME Guidance!TypeOK, GuidanceCapInv, [Guidance!Next]_(Guidance!vars)
                         PROVE  GuidanceCapInv'
<1>0. made \in Nat /\ Cap \in Nat /\ frame \in [Handlers -> GuidanceFrames]
  BY GuidanceParts, GuidanceConstants
<1>i. Guidance!Idle.op = "idle"
  BY DEF Guidance!Idle
<1>1. ASSUME NEW h \in Handlers, GuidanceStepOf(h) PROVE GuidanceCapInv'
  <2> SUFFICES ASSUME ~disturbed'
               PROVE  /\ made' <= Cap
                      /\ \A f, g \in Guidance!RiskRuns' : f = g
                      /\ \A g \in Guidance!RiskRuns' : made' + frame'[g].remaining <= Cap
    BY DEF GuidanceCapInv
  <2>1. /\ Guidance!RiskRuns \subseteq Handlers /\ Guidance!RiskRuns' \subseteq Handlers
        /\ \A g \in Handlers \ {h} : frame'[g] = frame[g] /\ (g \in Guidance!RiskRuns' <=> g \in Guidance!RiskRuns)
        /\ h \in Guidance!RiskRuns <=> frame[h].op \in Guidance!RiskOps
        /\ h \in Guidance!RiskRuns' <=> frame'[h].op \in Guidance!RiskOps
    BY <1>1, GuidanceFrameStep DEF Guidance!RiskRuns
  <2>2. CASE Guidance!RiskBegin(h)
    <3>1. ~disturbed /\ fresh /\ Guidance!RiskRuns = {} /\ made' = made
      BY <2>2 DEF Guidance!RiskBegin
    <3>2. made < Cap /\ frame'[h] = [op |-> "driver", today |-> fresh, remaining |-> Cap - made, left |-> Guidance!RiskKeys]
      BY <1>0, <2>2, <3>1 DEF Guidance!RiskBegin, Guidance!Serve
    <3>3. frame'[h].remaining = Cap - made
      BY <3>2
    <3>4. Guidance!RiskRuns' \subseteq {h}
      BY <2>1, <3>1
    <3>5. QED
      BY <1>0, <3>1, <3>2, <3>3, <3>4
  <2>3. CASE Guidance!RiskLookUp(h)
    <3>1. /\ frame[h].op = "driver"
          /\ \A l : [frame[h] EXCEPT !.left = l] =
                       [op |-> "driver", today |-> frame[h].today, remaining |-> frame[h].remaining, left |-> l]
      BY <2>3, GuidanceFrameParts DEF Guidance!RiskLookUp, Guidance!At
    <3>2. \E f : /\ f = Guidance!Idle \/ f.remaining = frame[h].remaining
                 /\ Guidance!GoOn(h, f)
      BY <2>3, GuidanceLookUpFrame
    <3>3. frame'[h] = Guidance!Idle \/ frame'[h].remaining = frame[h].remaining
      BY <1>0, <3>2 DEF Guidance!GoOn
    <3>4. made' = made /\ disturbed' = disturbed
      BY <2>3 DEF Guidance!RiskLookUp, Guidance!riskVars
    <3>5. h \in Guidance!RiskRuns /\ (frame'[h] = Guidance!Idle => h \notin Guidance!RiskRuns')
      BY <1>i, <2>1, <3>1 DEF Guidance!RiskOps
    <3>6. Guidance!RiskRuns' \subseteq Guidance!RiskRuns /\ \A g \in Guidance!RiskRuns' : frame'[g].remaining = frame[g].remaining
      BY <2>1, <3>3, <3>5
    <3>7. QED
      BY <3>4, <3>6 DEF GuidanceCapInv
  <2>4. CASE Guidance!RiskCreate(h)
    <3>1. h \in Guidance!RiskRuns /\ frame[h].remaining \in 1..Cap /\ disturbed' = disturbed
      BY <2>1, <2>4, GuidanceFrameParts DEF Guidance!RiskCreate, Guidance!At, Guidance!RiskOps
    <3>2. Guidance!RiskRuns = {h} /\ made + frame[h].remaining <= Cap /\ made <= Cap
      BY <3>1 DEF GuidanceCapInv
    <3>3. \/ made' = made /\ frame'[h] = Guidance!Idle
          \/ made' = made + 1 /\ frame'[h] = Guidance!Idle
          \/ /\ made' = made + 1
             /\ frame'[h] = [op |-> "driver", today |-> frame[h].today, remaining |-> frame[h].remaining - 1,
                             left |-> frame[h].left]
      BY <1>0, <2>4 DEF Guidance!RiskCreate, Guidance!GoOn, Guidance!Finish
    <3>4. \/ made' = made /\ frame'[h].op = "idle"
          \/ made' = made + 1 /\ frame'[h].op = "idle"
          \/ made' = made + 1 /\ frame'[h].remaining = frame[h].remaining - 1
      BY <1>i, <3>3
    <3>5. Guidance!RiskRuns' \subseteq {h}
      BY <2>1, <3>2
    <3>6. frame'[h].op = "idle" => Guidance!RiskRuns' = {}
      BY <2>1, <3>5 DEF Guidance!RiskOps
    <3>7. QED
      BY <1>0, <3>1, <3>2, <3>4, <3>5, <3>6
  <2>5. CASE (\E overdue \in (SUBSET Entities) \ {{}} : Guidance!ScanBegin(h, overdue)) \/ Guidance!ScanLookUp(h) \/ Guidance!ScanCreate(h) \/ Guidance!Lost(h)
    <3>1. made' = made /\ disturbed' = disturbed
      BY <2>5 DEF Guidance!ScanBegin, Guidance!ScanLookUp, Guidance!ScanCreate, Guidance!Lost, Guidance!riskVars
    <3>2. \E f : f.op \in {"idle", "scan", "nudge"} /\ Guidance!GoOn(h, f)
      BY <1>i, <2>5 DEF Guidance!ScanBegin, Guidance!ScanLookUp, Guidance!ScanCreate, Guidance!GoOnScanning,
         Guidance!Lost, Guidance!Drop, Guidance!Serve, Guidance!Finish, Guidance!GoOn
    <3>3. frame'[h].op \notin Guidance!RiskOps
      BY <1>0, <3>2 DEF Guidance!GoOn, Guidance!RiskOps
    <3>4. Guidance!RiskRuns' \subseteq Guidance!RiskRuns /\ \A g \in Guidance!RiskRuns' : frame'[g] = frame[g]
      BY <2>1, <3>3
    <3>5. QED
      BY <3>1, <3>4 DEF GuidanceCapInv
  <2>6. QED
    BY <1>1, <2>2, <2>3, <2>4, <2>5 DEF GuidanceStepOf
<1>2. CASE Guidance!DayPasses
  <2>1. made' = 0 /\ Guidance!RiskRuns' = {}
    BY <1>2 DEF Guidance!DayPasses, Guidance!RiskRuns
  <2>2. QED
    BY <1>0, <2>1 DEF GuidanceCapInv
<1>3. CASE Guidance!SnapshotStored \/ (\E e \in Entities : Guidance!Create(e) \/ Guidance!Resolve(e)) \/ UNCHANGED Guidance!vars
  <2>1. frame' = frame /\ made' = made /\ disturbed' = disturbed
    BY <1>3 DEF Guidance!SnapshotStored, Guidance!Create, Guidance!Resolve, Guidance!vars, Guidance!riskVars
  <2>2. Guidance!RiskRuns' = Guidance!RiskRuns
    BY <2>1 DEF Guidance!RiskRuns
  <2>3. QED
    BY <2>1, <2>2 DEF GuidanceCapInv
<1>4. QED
  BY <1>1, <1>2, <1>3 DEF Guidance!Next, GuidanceStepOf, Guidance!InvoiceScanBegin

(* Risk runs that come one after the other on a day, each on that day's    *)
(* snapshot, create no more nudges than the cap (generateRiskNudges).      *)
THEOREM GuidanceCapHolds == Guidance!Spec => []Guidance!CapKept
<1>1. ASSUME Guidance!Init PROVE GuidanceCapInv
  <2>1. Guidance!RiskRuns = {}
    BY <1>1 DEF Guidance!Init, Guidance!ServerInit, Guidance!RiskRuns, Guidance!RiskOps, Guidance!Idle
  <2>2. QED
    BY <1>1, <2>1, GuidanceConstants DEF Guidance!Init, GuidanceCapInv
<1>2. GuidanceCapInv => Guidance!CapKept
  BY DEF GuidanceCapInv, Guidance!CapKept
<1>3. QED
  BY <1>1, <1>2, GuidanceCapStep, GuidanceTypeCorrect, PTL DEF Guidance!Spec

-----------------------------------------------------------------------------
(* Insights.                                                               *)

\* Sets are counted as everywhere.
LEMMA InsightsCount ==
  \A S : Insights!IsFiniteSet(S) = IsFiniteSet(S) /\ Insights!Cardinality(S) = Cardinality(S)
BY DEF Insights!IsFiniteSet, IsFiniteSet, Insights!Cardinality, Cardinality

InsightsFrames ==
  {Insights!Idle}
  \cup [op : {"find"}, candidates : SUBSET InsightTypes]
  \cup [op : {"commit"}, candidates : SUBSET InsightTypes, newest : Insights!Newest, several : SUBSET InsightTypes]
  \cup [op : {"list"}, seen : SUBSET Insights!Rows, writes : 0..MaxWrites]
  \cup [op : {"resolve"}, row : Insights!Rows, wasOpen : BOOLEAN]
  \cup [op : {"proposals"}, left : SUBSET Insights!Rows]
  \cup [op : {"propose"}, row : Insights!Rows, left : SUBSET Insights!Rows]

\* A step of the request h.
InsightsStepOf(h) ==
  \/ Insights!ComputeBegin(h) \/ Insights!ComputeFind(h) \/ Insights!ComputeCommit(h)
  \/ Insights!ListRead(h) \/ Insights!ListKeep(h)
  \/ \E i \in Insights!Rows : Insights!ResolveRead(h, i)
  \/ Insights!ResolveWrite(h)
  \/ Insights!ProposeBegin(h) \/ Insights!ProposeLookUp(h) \/ Insights!ProposeCreate(h)
  \/ Insights!Lost(h)

\* What a compute has found is a row of its type.
InsightsFoundInv ==
  \A h \in Handlers : Insights!At(h, "commit") =>
    \A t \in InsightTypes : /\ frame[h].newest[t] \in 0..rows
                            /\ frame[h].newest[t] # 0 => type[frame[h].newest[t]] = t

\* Types.

LEMMA InsightsFrameParts ==
  ASSUME Insights!TypeOK, NEW h \in Handlers
  PROVE  /\ frame[h].op \in {"idle", "find", "commit", "list", "resolve", "proposals", "propose"}
         /\ Insights!At(h, "find") => frame[h].candidates \subseteq InsightTypes
         /\ Insights!At(h, "commit") => /\ frame[h].candidates \subseteq InsightTypes
                                        /\ frame[h].newest \in Insights!Newest /\ frame[h].several \subseteq InsightTypes
         /\ Insights!At(h, "list") => frame[h].seen \subseteq Insights!Rows /\ frame[h].writes \in 0..MaxWrites
         /\ Insights!At(h, "resolve") => frame[h].row \in Insights!Rows /\ frame[h].wasOpen \in BOOLEAN
         /\ Insights!At(h, "proposals") => frame[h].left \subseteq Insights!Rows
         /\ Insights!At(h, "propose") => frame[h].row \in Insights!Rows /\ frame[h].left \subseteq Insights!Rows
<1>1. \/ frame[h] = Insights!Idle
      \/ frame[h] \in [op : {"find"}, candidates : SUBSET InsightTypes]
      \/ frame[h] \in [op : {"commit"}, candidates : SUBSET InsightTypes, newest : Insights!Newest, several : SUBSET InsightTypes]
      \/ frame[h] \in [op : {"list"}, seen : SUBSET Insights!Rows, writes : 0..MaxWrites]
      \/ frame[h] \in [op : {"resolve"}, row : Insights!Rows, wasOpen : BOOLEAN]
      \/ frame[h] \in [op : {"proposals"}, left : SUBSET Insights!Rows]
      \/ frame[h] \in [op : {"propose"}, row : Insights!Rows, left : SUBSET Insights!Rows]
  BY InsightsCount DEF Insights!TypeOK
<1>2. CASE frame[h] = Insights!Idle
  BY <1>2 DEF Insights!Idle, Insights!At
<1>3. CASE frame[h] \in [op : {"find"}, candidates : SUBSET InsightTypes]
  BY <1>3 DEF Insights!At
<1>4. CASE frame[h] \in [op : {"commit"}, candidates : SUBSET InsightTypes, newest : Insights!Newest, several : SUBSET InsightTypes]
  BY <1>4 DEF Insights!At
<1>5. CASE frame[h] \in [op : {"list"}, seen : SUBSET Insights!Rows, writes : 0..MaxWrites]
  BY <1>5 DEF Insights!At
<1>6. CASE frame[h] \in [op : {"resolve"}, row : Insights!Rows, wasOpen : BOOLEAN]
  BY <1>6 DEF Insights!At
<1>7. CASE frame[h] \in [op : {"proposals"}, left : SUBSET Insights!Rows]
  BY <1>7 DEF Insights!At
<1>8. CASE frame[h] \in [op : {"propose"}, row : Insights!Rows, left : SUBSET Insights!Rows]
  BY <1>8 DEF Insights!At
<1>9. QED
  BY <1>1, <1>2, <1>3, <1>4, <1>5, <1>6, <1>7, <1>8

LEMMA InsightsRecords ==
  /\ Insights!Idle \in InsightsFrames
  /\ \A c \in SUBSET InsightTypes : [op |-> "find", candidates |-> c] \in InsightsFrames
  /\ \A c \in SUBSET InsightTypes, n \in Insights!Newest, s \in SUBSET InsightTypes :
       [op |-> "commit", candidates |-> c, newest |-> n, several |-> s] \in InsightsFrames
  /\ \A s \in SUBSET Insights!Rows, w \in 0..MaxWrites : [op |-> "list", seen |-> s, writes |-> w] \in InsightsFrames
  /\ \A i \in Insights!Rows, b \in BOOLEAN : [op |-> "resolve", row |-> i, wasOpen |-> b] \in InsightsFrames
  /\ \A l \in SUBSET Insights!Rows : [op |-> "proposals", left |-> l] \in InsightsFrames
  /\ \A i \in Insights!Rows, l \in SUBSET Insights!Rows : [op |-> "propose", row |-> i, left |-> l] \in InsightsFrames
BY DEF InsightsFrames

LEMMA InsightsParts ==
  ASSUME Insights!TypeOK
  PROVE  /\ frame \in [Handlers -> InsightsFrames] /\ called \subseteq InsightTypes
         /\ rows \in Nat /\ rows <= MaxRows /\ type \in [Insights!Rows -> InsightTypes] /\ open \subseteq 1..rows /\ open \subseteq Insights!Rows
         /\ writes \in 0..MaxWrites /\ live \in [Insights!Rows -> 0..MaxLive]
<1>1. /\ frame \in [Handlers -> InsightsFrames] /\ called \subseteq InsightTypes
      /\ type \in [Insights!Rows -> InsightTypes] /\ open \subseteq 1..rows
      /\ writes \in 0..MaxWrites /\ live \in [Insights!Rows -> 0..MaxLive]
  BY InsightsCount DEF Insights!TypeOK, InsightsFrames
<1>2. rows \in Nat /\ rows <= MaxRows
  BY InsightConstants, InsightsCount DEF Insights!TypeOK
<1>3. open \subseteq Insights!Rows
  BY <1>1, <1>2, InsightConstants DEF Insights!Rows
<1>4. QED
  BY <1>1, <1>2, <1>3

LEMMA InsightsPartsSuffice ==
  ASSUME frame' \in [Handlers -> InsightsFrames], called' \subseteq InsightTypes,
         rows' \in 0..MaxRows, type' \in [Insights!Rows -> InsightTypes], open' \subseteq 1..rows',
         writes' \in 0..MaxWrites,
         cache' \in SUBSET [seen : SUBSET Insights!Rows, quiet : BOOLEAN], Cardinality(cache') <= 1,
         live' \in [Insights!Rows -> 0..MaxLive]
  PROVE  Insights!TypeOK'
BY InsightsCount DEF Insights!TypeOK, InsightsFrames

\* The row a compute finds is the last open one of the type.
LEMMA InsightsFindsNewest ==
  ASSUME Insights!TypeOK, NEW t \in InsightTypes, NEW n, n = CHOOSE i \in Insights!OpenOf(t) \cup {0} : \A j \in Insights!OpenOf(t) : j <= i
  PROVE  n \in 0..rows /\ n <= MaxRows /\ (n # 0 => n \in Insights!OpenOf(t)) /\ (Insights!OpenOf(t) # {} => n # 0)
<1>1. Insights!OpenOf(t) \subseteq 1..rows /\ rows \in Nat /\ rows <= MaxRows
  BY InsightsParts DEF Insights!OpenOf
<1>2. \E i \in Insights!OpenOf(t) \cup {0} : \A j \in Insights!OpenOf(t) : j <= i
  <2>1. CASE Insights!OpenOf(t) = {}
    BY <2>1
  <2>2. CASE Insights!OpenOf(t) # {}
    <3>1. Insights!OpenOf(t) \in SUBSET (0..rows)
      BY <1>1
    <3>2. QED
      BY <1>1, <2>2, <3>1, Greatest
  <2>3. QED
    BY <2>1, <2>2
<1>3. n \in Insights!OpenOf(t) \cup {0} /\ \A j \in Insights!OpenOf(t) : j <= n
  BY <1>2
<1>4. n # 0 => n \in Insights!OpenOf(t)
  BY <1>3
<1>5. Insights!OpenOf(t) # {} => n # 0
  BY <1>1, <1>3
<1>6. QED
  BY <1>1, <1>3, <1>4, <1>5, InsightConstants

LEMMA InsightsFrameStep ==
  ASSUME Insights!TypeOK, NEW h \in Handlers, InsightsStepOf(h)
  PROVE  /\ frame' \in [Handlers -> InsightsFrames]
         /\ \A g \in Handlers \ {h} : frame'[g] = frame[g]
<1> USE InsightsParts
<1>1. ASSUME NEW f \in InsightsFrames, Insights!GoOn(h, f)
      PROVE  /\ frame' \in [Handlers -> InsightsFrames]
             /\ \A g \in Handlers \ {h} : frame'[g] = frame[g]
  BY <1>1 DEF Insights!GoOn
<1>2. CASE Insights!ComputeBegin(h) \/ Insights!ListRead(h) \/ Insights!ProposeBegin(h)
  BY <1>1, <1>2, InsightsRecords DEF Insights!ComputeBegin, Insights!ListRead, Insights!ProposeBegin,
     Insights!Serve, Insights!GoOn
<1>3. CASE \E i \in Insights!Rows : Insights!ResolveRead(h, i)
  <2>1. PICK i \in Insights!Rows : Insights!ResolveRead(h, i)
    BY <1>3
  <2>2. (i \in open) \in BOOLEAN
    OBVIOUS
  <2>3. [op |-> "resolve", row |-> i, wasOpen |-> i \in open] \in InsightsFrames
    BY <2>2, InsightsRecords
  <2>4. Insights!GoOn(h, [op |-> "resolve", row |-> i, wasOpen |-> i \in open])
    BY <2>1 DEF Insights!ResolveRead, Insights!Serve, Insights!GoOn
  <2>5. QED
    BY <1>1, <2>3, <2>4
<1>4. CASE Insights!ComputeFind(h)
  <2> DEFINE newest == [t \in InsightTypes |-> CHOOSE i \in Insights!OpenOf(t) \cup {0} : \A j \in Insights!OpenOf(t) : j <= i]
             several == {t \in InsightTypes : Cardinality(Insights!OpenOf(t)) > 1}
  <2>1. \A t \in InsightTypes : newest[t] \in 0..MaxRows
    BY InsightsFindsNewest, InsightConstants
  <2>2. newest \in Insights!Newest
    BY <2>1 DEF Insights!Newest
  <2>3. frame[h].candidates \in SUBSET InsightTypes
    BY <1>4, InsightsFrameParts, InsightsCount DEF Insights!ComputeFind
  <2>4. Insights!GoOn(h, [op |-> "commit", candidates |-> frame[h].candidates, newest |-> newest, several |-> several])
    BY <1>4, InsightsCount DEF Insights!ComputeFind
  <2>5. [op |-> "commit", candidates |-> frame[h].candidates, newest |-> newest, several |-> several] \in InsightsFrames
    <3> HIDE DEF newest
    <3>1. QED
      BY <2>2, <2>3, InsightsRecords
  <2>6. QED
    BY <1>1, <2>4, <2>5
<1>5. CASE Insights!ComputeCommit(h) \/ Insights!ListKeep(h) \/ Insights!ResolveWrite(h) \/ Insights!Lost(h)
  BY <1>1, <1>5, InsightsRecords, InsightsCount DEF Insights!ComputeCommit, Insights!ListKeep,
     Insights!ResolveWrite, Insights!Lost, Insights!Drop, Insights!Finish
<1>6. CASE Insights!ProposeLookUp(h)
  <2>1. PICK i \in frame[h].left :
          \/ Insights!GoOn(h, [op |-> "propose", row |-> i, left |-> frame[h].left \ {i}])
          \/ Insights!Finish(h)
          \/ Insights!GoOn(h, [op |-> "proposals", left |-> frame[h].left \ {i}])
    BY <1>6 DEF Insights!ProposeLookUp
  <2>2. i \in Insights!Rows /\ frame[h].left \ {i} \in SUBSET Insights!Rows
    BY <1>6, <2>1, InsightsFrameParts DEF Insights!ProposeLookUp
  <2>3. \E f \in InsightsFrames : Insights!GoOn(h, f)
    BY <2>1, <2>2, InsightsRecords DEF Insights!Finish
  <2>4. QED
    BY <1>1, <2>3
<1>7. CASE Insights!ProposeCreate(h)
  <2>1. Insights!Finish(h) \/ Insights!GoOn(h, [op |-> "proposals", left |-> frame[h].left])
    BY <1>7 DEF Insights!ProposeCreate
  <2>2. frame[h].left \in SUBSET Insights!Rows
    BY <1>7, InsightsFrameParts DEF Insights!ProposeCreate
  <2>3. \E f \in InsightsFrames : Insights!GoOn(h, f)
    BY <2>1, <2>2, InsightsRecords DEF Insights!Finish
  <2>4. QED
    BY <1>1, <2>3
<1>8. QED
  BY <1>2, <1>3, <1>4, <1>5, <1>6, <1>7 DEF InsightsStepOf

\* What a commit does to the rows: it keeps those there are, and adds one for each type it found none of.
LEMMA InsightsCommits ==
  ASSUME Insights!TypeOK, InsightsFoundInv, NEW h \in Handlers, Insights!ComputeCommit(h)
  PROVE  /\ rows' \in 0..MaxRows /\ rows' >= rows
         /\ type' \in [Insights!Rows -> InsightTypes] /\ open' \subseteq 1..rows'
         /\ \A i \in 1..rows : type'[i] = type[i]
         /\ \E number \in [Insights!NewTypes(frame[h]) -> (rows + 1)..rows'] :
              \A i \in (rows + 1)..rows' : type'[i] \in Insights!NewTypes(frame[h]) /\ number[type'[i]] = i
<1> DEFINE new == Insights!NewTypes(frame[h])
<1>1. /\ rows \in Nat /\ rows <= MaxRows /\ type \in [Insights!Rows -> InsightTypes] /\ open \subseteq 1..rows
      /\ MaxRows \in Nat
  BY InsightsParts, InsightConstants
<1>2. new \subseteq InsightTypes /\ IsFiniteSet(new) /\ Cardinality(new) \in Nat
  <2>1. new \subseteq InsightTypes
    BY InsightsFrameParts, InsightsCount DEF Insights!NewTypes, Insights!ComputeCommit
  <2>2. QED
    BY <2>1, InsightConstants, FS_Subset, FS_CardinalityType
<1>3. /\ Cardinality(new) <= MaxRows - rows
      /\ rows' = rows + Cardinality(new)
      /\ open' = (open \ Insights!Superseded(frame[h])) \cup Insights!Renewed(frame[h]) \cup ((rows + 1)..rows')
  BY InsightsCount DEF Insights!ComputeCommit
<1>4. rows' \in Nat /\ rows' <= MaxRows /\ rows' >= rows /\ rows' \in 0..MaxRows
  <2> HIDE DEF new
  <2>1. QED
    BY <1>1, <1>2, <1>3
<1>5. PICK number \in [new -> (rows + 1)..rows'] :
        /\ \A s, t \in new : number[s] = number[t] => s = t
        /\ type' = [i \in Insights!Rows |-> IF \E t \in new : number[t] = i
                                            THEN CHOOSE t \in new : number[t] = i ELSE type[i]]
  BY InsightsCount DEF Insights!ComputeCommit
<1>6. \A i \in (rows + 1)..rows' : \E t \in new : number[t] = i
  <2> HIDE DEF new
  <2>1. number \in Injection(new, (rows + 1)..rows')
    BY <1>5 DEF Injection, IsInjective
  <2>2. IsFiniteSet((rows + 1)..rows') /\ Cardinality((rows + 1)..rows') = Cardinality(new)
    <3>1. rows + 1 \in Int /\ rows' \in Int
      BY <1>1, <1>4
    <3>2. /\ IsFiniteSet((rows + 1)..rows')
          /\ Cardinality((rows + 1)..rows') = IF rows + 1 > rows' THEN 0 ELSE rows' - (rows + 1) + 1
      BY <3>1, FS_Interval
    <3>3. QED
      BY <1>1, <1>2, <1>3, <1>4, <3>2
  <2>3. number \in Surjection(new, (rows + 1)..rows')
    BY <2>1, <2>2, FS_Injection
  <2>4. QED
    BY <2>3 DEF Surjection
<1>7. ASSUME NEW i \in Insights!Rows
      PROVE  /\ type'[i] \in InsightTypes
             /\ i <= rows => type'[i] = type[i]
             /\ i \in (rows + 1)..rows' => type'[i] \in new /\ number[type'[i]] = i
  <2> HIDE DEF new
  <2>1. CASE \E t \in new : number[t] = i
    <3>1. type'[i] = CHOOSE t \in new : number[t] = i
      BY <1>5, <2>1
    <3>2. type'[i] \in new /\ number[type'[i]] = i
      BY <2>1, <3>1
    <3>3. i \in (rows + 1)..rows'
      BY <1>5, <3>2
    <3>4. ~(i <= rows)
      BY <1>1, <1>4, <3>3
    <3>5. QED
      BY <1>2, <3>2, <3>4
  <2>2. CASE ~\E t \in new : number[t] = i
    <3>1. type'[i] = type[i] /\ type[i] \in InsightTypes
      BY <1>1, <1>5, <2>2
    <3>2. i \notin (rows + 1)..rows'
      BY <1>6, <2>2
    <3>3. QED
      BY <3>1, <3>2
  <2>3. QED
    BY <2>1, <2>2
<1>8. type' \in [Insights!Rows -> InsightTypes] /\ \A i \in 1..rows : type'[i] = type[i]
  <2>1. DOMAIN type' = Insights!Rows /\ type' = [i \in Insights!Rows |-> type'[i]]
    BY <1>5
  <2>2. \A i \in 1..rows : i \in Insights!Rows /\ i <= rows
    BY <1>1 DEF Insights!Rows
  <2>3. QED
    BY <1>7, <2>1, <2>2
<1>9. \A i \in (rows + 1)..rows' : type'[i] \in new /\ number[type'[i]] = i
  <2>1. \A i \in (rows + 1)..rows' : i \in Insights!Rows
    BY <1>1, <1>4 DEF Insights!Rows
  <2>2. QED
    BY <1>7, <2>1
<1>10. open' \subseteq 1..rows'
  <2>1. Insights!Renewed(frame[h]) \subseteq 1..rows
    <3>1. ASSUME NEW t \in frame[h].candidates \ new PROVE frame[h].newest[t] \in 1..rows
      <4>1. t \in InsightTypes /\ frame[h].newest[t] # 0
        BY InsightsFrameParts, InsightsCount DEF Insights!ComputeCommit, Insights!NewTypes
      <4>2. frame[h].newest[t] \in 0..rows
        BY <4>1, InsightsCount DEF InsightsFoundInv, Insights!ComputeCommit
      <4>3. QED
        BY <1>1, <4>1, <4>2
    <3>2. QED
      BY <3>1 DEF Insights!Renewed
  <2>2. 1..rows \subseteq 1..rows' /\ (rows + 1)..rows' \subseteq 1..rows'
    BY <1>1, <1>4
  <2>3. QED
    BY <1>1, <1>3, <2>1, <2>2
<1>11. QED
  BY <1>4, <1>8, <1>9, <1>10

LEMMA InsightsCacheEmpty == Cardinality({}) <= 1 /\ {} \in SUBSET [seen : SUBSET Insights!Rows, quiet : BOOLEAN]
BY FS_EmptySet

LEMMA InsightsTypeStep == ASSUME Insights!TypeOK, InsightsFoundInv, [Insights!Next]_(Insights!vars)
                          PROVE  Insights!TypeOK'
<1> USE InsightsParts
<1>0. cache \in SUBSET [seen : SUBSET Insights!Rows, quiet : BOOLEAN] /\ Cardinality(cache) <= 1 /\ rows \in 0..MaxRows
  BY InsightsCount DEF Insights!TypeOK
<1>1. ASSUME NEW h \in Handlers, InsightsStepOf(h) PROVE Insights!TypeOK'
  <2>0. frame' \in [Handlers -> InsightsFrames]
    BY <1>1, InsightsFrameStep
  <2>1. CASE Insights!ComputeBegin(h)
    BY <1>0, <2>0, <2>1, InsightsCacheEmpty, InsightsPartsSuffice DEF Insights!ComputeBegin
  <2>2. CASE Insights!ComputeFind(h) \/ Insights!ListRead(h) \/ (\E i \in Insights!Rows : Insights!ResolveRead(h, i))
             \/ Insights!ProposeBegin(h) \/ Insights!ProposeLookUp(h) \/ Insights!Lost(h)
    <3>1. UNCHANGED Insights!insightVars
      BY <2>2, InsightsCount DEF Insights!ComputeFind, Insights!ListRead, Insights!ResolveRead,
         Insights!ProposeBegin, Insights!ProposeLookUp, Insights!Lost
    <3>2. QED
      BY <1>0, <2>0, <3>1, InsightsPartsSuffice DEF Insights!insightVars
  <2>3. CASE Insights!ComputeCommit(h)
    <3>1. writes' \in 0..MaxWrites /\ called' = called /\ cache' = cache /\ live' = live
      BY <2>3, InsightConstants, InsightsCount DEF Insights!ComputeCommit
    <3>2. rows' \in 0..MaxRows /\ type' \in [Insights!Rows -> InsightTypes] /\ open' \subseteq 1..rows'
      BY <2>3, InsightsCommits
    <3>3. QED
      BY <1>0, <2>0, <3>1, <3>2, InsightsPartsSuffice
  <2>4. CASE Insights!ListKeep(h)
    <3> DEFINE q == frame[h].writes = writes /\ Insights!Computing = {}
    <3>1. q \in BOOLEAN /\ frame[h].seen \in SUBSET Insights!Rows
      BY <2>4, InsightsFrameParts DEF Insights!ListKeep
    <3>2. cache' = {[seen |-> frame[h].seen, quiet |-> q]}
      BY <2>4 DEF Insights!ListKeep
    <3> HIDE DEF q
    <3>3. cache' \in SUBSET [seen : SUBSET Insights!Rows, quiet : BOOLEAN]
      BY <3>1, <3>2
    <3>4. Cardinality(cache') <= 1
      <4>1. ASSUME NEW r PROVE Cardinality({r}) <= 1
        <5>1. Cardinality({r}) = 1
          BY FS_Singleton
        <5>2. QED
          BY <5>1
      <4>2. QED
        BY <3>2, <4>1
    <3>5. QED
      BY <1>0, <2>0, <2>4, <3>3, <3>4, InsightsPartsSuffice DEF Insights!ListKeep
  <2>5. CASE Insights!ResolveWrite(h)
    <3>1. writes' \in 0..MaxWrites /\ open' \subseteq 1..rows'
      BY <2>5, InsightConstants DEF Insights!ResolveWrite
    <3>2. QED
      BY <1>0, <2>0, <2>5, <3>1, InsightsCacheEmpty, InsightsPartsSuffice DEF Insights!ResolveWrite
  <2>6. CASE Insights!ProposeCreate(h)
    <3>1. frame[h].row \in Insights!Rows
      BY <2>6, InsightsFrameParts DEF Insights!ProposeCreate
    <3>2. live[frame[h].row] + 1 \in 0..MaxLive
      BY <2>6, <3>1, InsightConstants DEF Insights!ProposeCreate
    <3>3. live' \in [Insights!Rows -> 0..MaxLive]
      BY <2>6, <3>1, <3>2 DEF Insights!ProposeCreate
    <3>4. QED
      BY <1>0, <2>0, <2>6, <3>3, InsightsPartsSuffice DEF Insights!ProposeCreate
  <2>7. QED
    BY <1>1, <2>1, <2>2, <2>3, <2>4, <2>5, <2>6 DEF InsightsStepOf
<1>2. ASSUME NEW t \in InsightTypes, Insights!NumbersChange(t) PROVE Insights!TypeOK'
  BY <1>0, <1>2, InsightsPartsSuffice DEF Insights!NumbersChange
<1>3. CASE Insights!CacheExpires
  BY <1>0, <1>3, InsightsCacheEmpty, InsightsPartsSuffice DEF Insights!CacheExpires
<1>4. ASSUME NEW i \in Insights!Rows, Insights!ActionEnds(i) PROVE Insights!TypeOK'
  <2>1. live[i] - 1 \in 0..MaxLive
    BY <1>4, InsightConstants DEF Insights!ActionEnds
  <2>2. live' \in [Insights!Rows -> 0..MaxLive]
    BY <1>4, <2>1 DEF Insights!ActionEnds
  <2>3. QED
    BY <1>0, <1>4, <2>2, InsightsPartsSuffice DEF Insights!ActionEnds
<1>5. CASE UNCHANGED Insights!vars
  BY <1>0, <1>5, InsightsPartsSuffice DEF Insights!vars, Insights!insightVars
<1>6. QED
  BY <1>1, <1>2, <1>3, <1>4, <1>5 DEF Insights!Next, InsightsStepOf

LEMMA InsightsFoundStep == ASSUME Insights!TypeOK, InsightsFoundInv, [Insights!Next]_(Insights!vars)
                           PROVE  InsightsFoundInv'
<1> USE InsightsParts
<1>0. ASSUME rows' \in Nat, rows' >= rows, \A i \in 1..rows : type'[i] = type[i],
             NEW h \in Handlers, frame'[h] = frame[h], Insights!At(h, "commit"), NEW t \in InsightTypes
      PROVE  /\ frame'[h].newest[t] \in 0..rows'
             /\ frame'[h].newest[t] # 0 => type'[frame'[h].newest[t]] = t
  <2>1. frame[h].newest[t] \in 0..rows /\ (frame[h].newest[t] # 0 => type[frame[h].newest[t]] = t)
    BY <1>0 DEF InsightsFoundInv
  <2>2. QED
    BY <1>0, <2>1
<1>1. ASSUME rows' \in Nat, rows' >= rows, \A i \in 1..rows : type'[i] = type[i], frame' = frame
      PROVE  InsightsFoundInv'
  BY <1>0, <1>1 DEF InsightsFoundInv, Insights!At
<1>2. ASSUME NEW h \in Handlers, InsightsStepOf(h) PROVE InsightsFoundInv'
  <2>1. /\ rows' \in Nat /\ rows' >= rows /\ \A i \in 1..rows : type'[i] = type[i]
    <3>1. CASE Insights!ComputeCommit(h)
      BY <3>1, InsightsCommits
    <3>2. CASE ~Insights!ComputeCommit(h)
      <4>1. rows' = rows /\ type' = type
        BY <1>2, <3>2, InsightsCount DEF InsightsStepOf, Insights!ComputeBegin, Insights!ComputeFind,
           Insights!ListRead, Insights!ListKeep, Insights!ResolveRead, Insights!ResolveWrite,
           Insights!ProposeBegin, Insights!ProposeLookUp, Insights!ProposeCreate, Insights!Lost, Insights!insightVars
      <4>2. QED
        BY <4>1
    <3>3. QED
      BY <3>1, <3>2
  <2>2. ASSUME NEW t \in InsightTypes, Insights!At(h, "commit")'
        PROVE  /\ frame'[h].newest[t] \in 0..rows'
               /\ frame'[h].newest[t] # 0 => type'[frame'[h].newest[t]] = t
    <3>1. CASE Insights!ComputeFind(h)
      <4> DEFINE n == CHOOSE i \in Insights!OpenOf(t) \cup {0} : \A j \in Insights!OpenOf(t) : j <= i
      <4>1. frame'[h].newest[t] = n
        BY <3>1, InsightsCount DEF Insights!ComputeFind, Insights!GoOn
      <4>2. n \in 0..rows /\ (n # 0 => n \in Insights!OpenOf(t))
        BY InsightsFindsNewest
      <4>3. rows' = rows /\ type' = type
        BY <3>1, InsightsCount DEF Insights!ComputeFind, Insights!insightVars
      <4>4. QED
        BY <4>1, <4>2, <4>3 DEF Insights!OpenOf
    <3>2. CASE ~Insights!ComputeFind(h)
      <4>1. frame'[h].op # "commit"
        BY <1>2, <3>2, InsightsCount DEF InsightsStepOf, Insights!ComputeBegin, Insights!ComputeCommit,
           Insights!ListRead, Insights!ListKeep, Insights!ResolveRead, Insights!ResolveWrite,
           Insights!ProposeBegin, Insights!ProposeLookUp, Insights!ProposeCreate, Insights!Lost, Insights!Drop, Insights!Serve, Insights!Finish, Insights!GoOn, Insights!Idle
      <4>2. QED
        BY <2>2, <4>1 DEF Insights!At
    <3>3. QED
      BY <3>1, <3>2
  <2>3. ASSUME NEW g \in Handlers, Insights!At(g, "commit")', NEW t \in InsightTypes
        PROVE  /\ frame'[g].newest[t] \in 0..rows'
               /\ frame'[g].newest[t] # 0 => type'[frame'[g].newest[t]] = t
    <3>1. CASE g = h
      BY <2>2, <2>3, <3>1
    <3>2. CASE g # h
      <4>1. frame'[g] = frame[g] /\ Insights!At(g, "commit")
        BY <1>2, <2>3, <3>2, InsightsFrameStep DEF Insights!At
      <4>2. QED
        BY <1>0, <2>1, <4>1
    <3>3. QED
      BY <3>1, <3>2
  <2>4. QED
    BY <2>3 DEF InsightsFoundInv
<1>3. ASSUME NEW t \in InsightTypes, Insights!NumbersChange(t) PROVE InsightsFoundInv'
  BY <1>1, <1>3 DEF Insights!NumbersChange
<1>4. CASE Insights!CacheExpires
  BY <1>1, <1>4 DEF Insights!CacheExpires
<1>5. ASSUME NEW i \in Insights!Rows, Insights!ActionEnds(i) PROVE InsightsFoundInv'
  BY <1>1, <1>5 DEF Insights!ActionEnds
<1>6. CASE UNCHANGED Insights!vars
  BY <1>1, <1>6 DEF Insights!vars, Insights!insightVars
<1>7. QED
  BY <1>2, <1>3, <1>4, <1>5, <1>6 DEF Insights!Next, InsightsStepOf

LEMMA InsightsInitTyped == ASSUME Insights!Init PROVE Insights!TypeOK /\ InsightsFoundInv
<1>1. /\ rows \in 0..MaxRows /\ open \subseteq 1..rows /\ writes \in 0..MaxWrites
      /\ live \in [Insights!Rows -> 0..MaxLive] /\ called \subseteq InsightTypes
  BY InsightConstants DEF Insights!Init
<1>2. (CHOOSE t \in InsightTypes : TRUE) \in InsightTypes
  BY InsightConstants
<1>3. type \in [Insights!Rows -> InsightTypes]
  BY <1>2 DEF Insights!Init
<1>4. cache \in SUBSET [seen : SUBSET Insights!Rows, quiet : BOOLEAN] /\ Cardinality(cache) <= 1
  BY InsightsCacheEmpty DEF Insights!Init
<1>5. frame \in [Handlers -> InsightsFrames]
  BY InsightsRecords DEF Insights!Init, Insights!ServerInit
<1>6. InsightsFoundInv
  BY DEF Insights!Init, Insights!ServerInit, InsightsFoundInv, Insights!At, Insights!Idle
<1>7. QED
  BY <1>1, <1>3, <1>4, <1>5, <1>6, InsightsCount DEF Insights!TypeOK, InsightsFrames

(* The computes, lists and proposals, the rows and the kept list keep      *)
(* their types, for any finite set of types of insight and number of       *)
(* requests.                                                               *)
THEOREM InsightsTypeCorrect == Insights!Spec => []Insights!TypeOK
<1>1. Insights!Init => Insights!TypeOK /\ InsightsFoundInv
  BY InsightsInitTyped
<1>2. Insights!TypeOK /\ InsightsFoundInv /\ [Insights!Next]_(Insights!vars) => Insights!TypeOK' /\ InsightsFoundInv'
  BY InsightsTypeStep, InsightsFoundStep
<1>3. QED
  BY <1>1, <1>2, PTL DEF Insights!Spec

\* Open insights of a type.

\* The computes that are about to create an insight of the type, and those that renew one.
InsightsFresh(t) == {h \in Handlers : Insights!At(h, "commit") /\ t \in frame[h].candidates /\ frame[h].newest[t] = 0}
InsightsRenewing(t) == {h \in Handlers : Insights!At(h, "commit") /\ t \in frame[h].candidates /\ frame[h].newest[t] # 0}

\* The insights of the type that are open, or may be open again.
InsightsKnown(t) == Insights!OpenOf(t) \cup {frame[h].newest[t] : h \in InsightsRenewing(t)}

InsightsKnownCounted(t) == Cardinality(InsightsKnown(t)) + Cardinality(InsightsFresh(t)) <= Cardinality(Handlers)
InsightsKnownInv == \A t \in InsightTypes : InsightsKnownCounted(t)

LEMMA InsightsKnownFinite ==
  ASSUME Insights!TypeOK, InsightsFoundInv, NEW t \in InsightTypes
  PROVE  /\ InsightsKnown(t) \subseteq 1..rows
         /\ IsFiniteSet(InsightsKnown(t)) /\ Cardinality(InsightsKnown(t)) \in Nat
         /\ InsightsFresh(t) \in SUBSET Handlers /\ Cardinality(InsightsFresh(t)) \in Nat
<1>1. InsightsKnown(t) \subseteq 1..rows
  <2>1. \A h \in InsightsRenewing(t) : frame[h].newest[t] \in 1..rows
    BY InsightsParts DEF InsightsFoundInv, InsightsRenewing
  <2>2. QED
    BY <2>1, InsightsParts DEF InsightsKnown, Insights!OpenOf
<1>2. IsFiniteSet(1..rows)
  BY InsightsParts, FS_Interval
<1>3. QED
  BY <1>1, <1>2, FS_Subset, FS_CardinalityType, SomeCounted DEF InsightsFresh

LEMMA InsightsKnownShrinks ==
  ASSUME Insights!TypeOK, InsightsFoundInv, Insights!TypeOK', InsightsFoundInv', NEW t \in InsightTypes, InsightsKnownCounted(t),
         InsightsKnown(t)' \subseteq InsightsKnown(t), InsightsFresh(t)' \subseteq InsightsFresh(t)
  PROVE  InsightsKnownCounted(t)'
<1>1. /\ Cardinality(InsightsKnown(t)) \in Nat /\ Cardinality(InsightsKnown(t)') \in Nat
      /\ Cardinality(InsightsFresh(t)) \in Nat /\ Cardinality(InsightsFresh(t)') \in Nat
      /\ Cardinality(InsightsKnown(t)') <= Cardinality(InsightsKnown(t))
      /\ Cardinality(InsightsFresh(t)') <= Cardinality(InsightsFresh(t))
  <2>1. /\ IsFiniteSet(InsightsKnown(t)) /\ IsFiniteSet(InsightsFresh(t))
    BY InsightsKnownFinite, SomeCounted
  <2>2. QED
    BY <2>1, FS_Subset, FS_CardinalityType
<1>2. QED
  BY <1>1, HandlersCounted DEF InsightsKnownCounted

\* A compute looks: if nothing is open, there are as many found rows as renewing computes, at most.
LEMMA InsightsKnownFind ==
  ASSUME Insights!TypeOK, InsightsFoundInv, Insights!TypeOK', InsightsFoundInv', NEW t \in InsightTypes, InsightsKnownCounted(t), NEW h \in Handlers, Insights!ComputeFind(h)
  PROVE  InsightsKnownCounted(t)'
<1> DEFINE n == CHOOSE i \in Insights!OpenOf(t) \cup {0} : \A j \in Insights!OpenOf(t) : j <= i
<1>1. /\ Insights!At(h, "find") /\ Insights!At(h, "commit")'
      /\ frame'[h].candidates = frame[h].candidates /\ frame'[h].newest[t] = n
      /\ UNCHANGED Insights!insightVars
  BY InsightsParts, InsightsCount DEF Insights!ComputeFind, Insights!GoOn, Insights!At
<1>2. \A g \in Handlers \ {h} : frame'[g] = frame[g]
  BY InsightsFrameStep DEF InsightsStepOf
<1>3. (n # 0 => n \in Insights!OpenOf(t)) /\ (Insights!OpenOf(t) # {} => n # 0)
  BY InsightsFindsNewest
<1>4. Insights!OpenOf(t)' = Insights!OpenOf(t)
  BY <1>1 DEF Insights!OpenOf, Insights!insightVars
<1>5. h \notin InsightsFresh(t) /\ h \notin InsightsRenewing(t)
  BY <1>1 DEF InsightsFresh, InsightsRenewing, Insights!At
<1> HIDE DEF n
<1>6. CASE n # 0 \/ t \notin frame[h].candidates
  <2>1. InsightsFresh(t)' \subseteq InsightsFresh(t)
    BY <1>1, <1>2, <1>6 DEF InsightsFresh, Insights!At
  <2>2. InsightsKnown(t)' \subseteq InsightsKnown(t)
    <3>1. \A g \in InsightsRenewing(t)' : g = h \/ (g \in InsightsRenewing(t) /\ frame'[g] = frame[g])
      BY <1>2 DEF InsightsRenewing, Insights!At
    <3>2. h \in InsightsRenewing(t)' => n # 0
      BY <1>1 DEF InsightsRenewing
    <3>3. QED
      BY <1>1, <1>3, <1>4, <3>1, <3>2 DEF InsightsKnown
  <2>3. QED
    BY <2>1, <2>2, InsightsKnownShrinks
<1>7. CASE n = 0 /\ t \in frame[h].candidates
  <2>1. Insights!OpenOf(t) = {} /\ Insights!OpenOf(t)' = {}
    BY <1>3, <1>4, <1>7
  <2>2. InsightsKnown(t)' = {frame'[g].newest[t] : g \in InsightsRenewing(t)'}
    BY <2>1 DEF InsightsKnown
  <2>3. Cardinality(InsightsKnown(t)') <= Cardinality(InsightsRenewing(t)') /\ Cardinality(InsightsKnown(t)') \in Nat
    <3> DEFINE f == [g \in InsightsRenewing(t)' |-> frame'[g].newest[t]]
    <3>1. IsFiniteSet(InsightsRenewing(t)')
      BY SomeCounted DEF InsightsRenewing
    <3>2. /\ Cardinality({f[g] : g \in InsightsRenewing(t)'}) \in Nat
          /\ Cardinality({f[g] : g \in InsightsRenewing(t)'}) <= Cardinality(InsightsRenewing(t)')
      <4> HIDE DEF f
      <4>1. QED
        BY <3>1, ImageCounted
    <3>3. InsightsKnown(t)' = {f[g] : g \in InsightsRenewing(t)'}
      BY <2>2
    <3>4. QED
      BY <3>2, <3>3
  <2>4. Cardinality(InsightsRenewing(t)') + Cardinality(InsightsFresh(t)') <= Cardinality(Handlers)
    <3>1. /\ InsightsRenewing(t)' \in SUBSET Handlers /\ InsightsFresh(t)' \in SUBSET Handlers
          /\ InsightsRenewing(t)' \cap InsightsFresh(t)' = {}
      BY DEF InsightsRenewing, InsightsFresh
    <3>2. QED
      BY <3>1, ApartFit
  <2>5. Cardinality(InsightsRenewing(t)') \in Nat /\ Cardinality(InsightsFresh(t)') \in Nat
    BY SomeCounted DEF InsightsRenewing, InsightsFresh
  <2>6. Cardinality(InsightsKnown(t)') + Cardinality(InsightsFresh(t)') <= Cardinality(Handlers)
    BY <2>3, <2>4, <2>5, HandlersCounted
  <2>7. QED
    BY <2>6 DEF InsightsKnownCounted
<1>8. QED
  BY <1>6, <1>7

\* A compute writes: the insight it creates takes the place of the request, the one it renews is known.
LEMMA InsightsKnownCommit ==
  ASSUME Insights!TypeOK, InsightsFoundInv, Insights!TypeOK', InsightsFoundInv', NEW t \in InsightTypes, InsightsKnownCounted(t), NEW h \in Handlers, Insights!ComputeCommit(h)
  PROVE  InsightsKnownCounted(t)'
<1> DEFINE new == Insights!NewTypes(frame[h])
<1>1. /\ frame'[h].op = "idle" /\ \A g \in Handlers \ {h} : frame'[g] = frame[g]
      /\ Insights!At(h, "commit")
      /\ open' = (open \ Insights!Superseded(frame[h])) \cup Insights!Renewed(frame[h]) \cup ((rows + 1)..rows')
  <2>1. frame'[h] = Insights!Idle
    BY InsightsParts, InsightsCount DEF Insights!ComputeCommit, Insights!Finish, Insights!GoOn
  <2>2. QED
    BY <2>1, InsightsFrameStep, InsightsCount DEF Insights!ComputeCommit, InsightsStepOf, Insights!Idle
<1>2. PICK number \in [new -> (rows + 1)..rows'] :
        \A i \in (rows + 1)..rows' : type'[i] \in new /\ number[type'[i]] = i
  BY InsightsCommits
<1>3. rows \in Nat /\ rows' \in Nat /\ rows' >= rows /\ \A i \in 1..rows : type'[i] = type[i]
  BY InsightsCommits, InsightsParts, InsightConstants
<1>4. InsightsFresh(t)' = InsightsFresh(t) \ {h} /\ InsightsRenewing(t)' \subseteq InsightsRenewing(t)
  BY <1>1 DEF InsightsFresh, InsightsRenewing, Insights!At
<1>5. \A g \in InsightsRenewing(t)' : frame'[g] = frame[g]
  BY <1>1 DEF InsightsRenewing, Insights!At
<1>6. ASSUME NEW i \in Insights!OpenOf(t)' PROVE i \in InsightsKnown(t) \/ (t \in new /\ i = number[t])
  <2>1. i \in open' /\ type'[i] = t
    BY <1>6 DEF Insights!OpenOf
  <2>2. CASE i \in open
    <3>1. i \in 1..rows
      BY <2>2, InsightsParts
    <3>2. i \in Insights!OpenOf(t)
      BY <1>3, <2>1, <2>2, <3>1 DEF Insights!OpenOf
    <3>3. QED
      BY <3>2 DEF InsightsKnown
  <2>3. CASE i \in Insights!Renewed(frame[h])
    <3>1. PICK s \in frame[h].candidates \ new : i = frame[h].newest[s]
      BY <2>3 DEF Insights!Renewed
    <3>2. s \in InsightTypes /\ frame[h].newest[s] # 0
      BY <1>1, <3>1, InsightsFrameParts DEF Insights!NewTypes
    <3>3. i \in 1..rows /\ type[i] = s
      BY <1>1, <1>3, <3>1, <3>2 DEF InsightsFoundInv
    <3>4. s = t
      BY <1>3, <2>1, <3>3
    <3>5. h \in InsightsRenewing(t)
      BY <1>1, <3>1, <3>2, <3>4 DEF InsightsRenewing
    <3>6. QED
      BY <3>1, <3>4, <3>5 DEF InsightsKnown
  <2>4. CASE i \in (rows + 1)..rows'
    BY <1>2, <2>1, <2>4
  <2>5. QED
    BY <1>1, <2>1, <2>2, <2>3, <2>4
<1>7. InsightsKnown(t)' \subseteq InsightsKnown(t) \cup (IF t \in new THEN {number[t]} ELSE {})
  <2>1. ASSUME NEW i \in InsightsKnown(t)', i \notin Insights!OpenOf(t)' PROVE i \in InsightsKnown(t)
    BY <1>4, <1>5, <2>1 DEF InsightsKnown
  <2>2. QED
    BY <1>6, <2>1
<1>8. CASE t \notin new
  BY <1>4, <1>7, <1>8, InsightsKnownShrinks
<1>9. CASE t \in new
  <2>1. h \in InsightsFresh(t)
    BY <1>1, <1>9, InsightsFrameParts DEF Insights!NewTypes, InsightsFresh
  <2>2. Cardinality(InsightsFresh(t)') = Cardinality(InsightsFresh(t)) - 1
    BY <1>4, <2>1, InsightsKnownFinite, SomeCounted, FS_RemoveElement
  <2>3. InsightsKnown(t)' \subseteq InsightsKnown(t) \cup {number[t]}
    BY <1>7, <1>9
  <2>4. /\ IsFiniteSet(InsightsKnown(t) \cup {number[t]})
        /\ \/ Cardinality(InsightsKnown(t) \cup {number[t]}) = Cardinality(InsightsKnown(t))
           \/ Cardinality(InsightsKnown(t) \cup {number[t]}) = Cardinality(InsightsKnown(t)) + 1
    BY InsightsKnownFinite, FS_AddElement
  <2>5. Cardinality(InsightsKnown(t)') <= Cardinality(InsightsKnown(t) \cup {number[t]}) /\ Cardinality(InsightsKnown(t)') \in Nat
    BY <2>3, <2>4, FS_Subset, FS_CardinalityType
  <2>6. Cardinality(InsightsKnown(t)) + Cardinality(InsightsFresh(t)) <= Cardinality(Handlers)
    BY DEF InsightsKnownCounted
  <2>7. Cardinality(InsightsKnown(t)') + Cardinality(InsightsFresh(t)') <= Cardinality(Handlers)
    BY <2>2, <2>4, <2>5, <2>6, InsightsKnownFinite, HandlersCounted
  <2>8. QED
    BY <2>7 DEF InsightsKnownCounted
<1>10. QED
  BY <1>8, <1>9

LEMMA InsightsKnownStep ==
  ASSUME Insights!TypeOK, InsightsFoundInv, Insights!TypeOK', InsightsFoundInv', InsightsKnownInv, [Insights!Next]_(Insights!vars)
  PROVE  InsightsKnownInv'
<1> USE InsightsParts
<1>1. ASSUME open' \subseteq open, type' = type,
             \A g \in Handlers : Insights!At(g, "commit")' => frame'[g] = frame[g]
      PROVE  InsightsKnownInv'
  <2>1. ASSUME NEW t \in InsightTypes PROVE InsightsKnownCounted(t)'
    <3>1. Insights!OpenOf(t)' \subseteq Insights!OpenOf(t) /\ InsightsFresh(t)' \subseteq InsightsFresh(t) /\ InsightsRenewing(t)' \subseteq InsightsRenewing(t)
      BY <1>1 DEF Insights!OpenOf, InsightsFresh, InsightsRenewing, Insights!At
    <3>2. \A g \in InsightsRenewing(t)' : frame'[g] = frame[g]
      BY <1>1 DEF InsightsRenewing
    <3>3. InsightsKnown(t)' \subseteq InsightsKnown(t)
      BY <3>1, <3>2 DEF InsightsKnown
    <3>4. QED
      BY <3>1, <3>3, InsightsKnownShrinks DEF InsightsKnownInv
  <2>2. QED
    BY <2>1 DEF InsightsKnownInv
<1>2. ASSUME NEW h \in Handlers, InsightsStepOf(h) PROVE InsightsKnownInv'
  <2>1. CASE Insights!ComputeFind(h)
    BY <2>1, InsightsKnownFind DEF InsightsKnownInv
  <2>2. CASE Insights!ComputeCommit(h)
    BY <2>2, InsightsKnownCommit DEF InsightsKnownInv
  <2>3. CASE ~Insights!ComputeFind(h) /\ ~Insights!ComputeCommit(h)
    <3>1. open' \subseteq open /\ type' = type
      BY <1>2, <2>3 DEF InsightsStepOf, Insights!ComputeBegin, Insights!ListRead, Insights!ListKeep,
         Insights!ResolveRead, Insights!ResolveWrite,
         Insights!ProposeBegin, Insights!ProposeLookUp, Insights!ProposeCreate, Insights!Lost, Insights!insightVars
    <3>2. frame'[h].op # "commit"
      BY <1>2, <2>3 DEF InsightsStepOf, Insights!ComputeBegin, Insights!ListRead, Insights!ListKeep,
         Insights!ResolveRead, Insights!ResolveWrite,
         Insights!ProposeBegin, Insights!ProposeLookUp, Insights!ProposeCreate, Insights!Lost, Insights!Drop, Insights!Serve, Insights!Finish, Insights!GoOn, Insights!Idle
    <3>3. \A g \in Handlers : Insights!At(g, "commit")' => frame'[g] = frame[g]
      BY <1>2, <3>2, InsightsFrameStep DEF Insights!At
    <3>4. QED
      BY <1>1, <3>1, <3>3
  <2>4. QED
    BY <2>1, <2>2, <2>3
<1>3. ASSUME NEW t \in InsightTypes, Insights!NumbersChange(t) PROVE InsightsKnownInv'
  BY <1>1, <1>3 DEF Insights!NumbersChange
<1>4. CASE Insights!CacheExpires
  BY <1>1, <1>4 DEF Insights!CacheExpires
<1>5. ASSUME NEW i \in Insights!Rows, Insights!ActionEnds(i) PROVE InsightsKnownInv'
  BY <1>1, <1>5 DEF Insights!ActionEnds
<1>6. CASE UNCHANGED Insights!vars
  BY <1>1, <1>6 DEF Insights!vars, Insights!insightVars
<1>7. QED
  BY <1>2, <1>3, <1>4, <1>5, <1>6 DEF Insights!Next, InsightsStepOf

(* No more insights of a type are open than there are requests: those that *)
(* are open or may be opened again, and the computes that are about to     *)
(* create one, are together at most the requests (upsertCandidate, at READ *)
(* COMMITTED).                                                             *)
THEOREM InsightsBounded == Insights!Spec => []Insights!InsightsBounded
<1>1. Insights!Init => Insights!TypeOK /\ InsightsFoundInv /\ InsightsKnownInv
  <2> SUFFICES ASSUME Insights!Init PROVE InsightsKnownInv
    BY InsightsInitTyped
  <2>1. ASSUME NEW t \in InsightTypes PROVE InsightsKnownCounted(t)
    <3>1. InsightsKnown(t) = {} /\ InsightsFresh(t) = {}
      BY DEF Insights!Init, Insights!ServerInit, InsightsKnown, Insights!OpenOf, InsightsRenewing,
         InsightsFresh, Insights!At, Insights!Idle
    <3>2. QED
      BY <3>1, FS_EmptySet, HandlersCounted DEF InsightsKnownCounted
  <2>2. QED
    BY <2>1 DEF InsightsKnownInv
<1>2. Insights!TypeOK /\ InsightsFoundInv /\ InsightsKnownInv /\ [Insights!Next]_(Insights!vars) => Insights!TypeOK' /\ InsightsFoundInv' /\ InsightsKnownInv'
  BY InsightsTypeStep, InsightsFoundStep, InsightsKnownStep
<1>3. Insights!TypeOK /\ InsightsFoundInv /\ InsightsKnownInv => Insights!InsightsBounded
  <2> SUFFICES ASSUME Insights!TypeOK, InsightsFoundInv, InsightsKnownInv, NEW t \in InsightTypes
               PROVE  Cardinality(Insights!OpenOf(t)) <= Cardinality(Handlers)
    BY InsightsCount DEF Insights!InsightsBounded
  <2>1. Insights!OpenOf(t) \subseteq InsightsKnown(t) /\ InsightsKnownCounted(t)
    BY DEF InsightsKnown, InsightsKnownInv
  <2>2. Cardinality(Insights!OpenOf(t)) \in Nat /\ Cardinality(Insights!OpenOf(t)) <= Cardinality(InsightsKnown(t))
    BY <2>1, InsightsKnownFinite, FS_Subset, FS_CardinalityType
  <2>3. QED
    BY <2>1, <2>2, InsightsKnownFinite, HandlersCounted DEF InsightsKnownCounted
<1>4. QED
  BY <1>1, <1>2, <1>3, PTL DEF Insights!Spec

\* Proposed actions.

InsightsProposing(i) == {h \in Handlers : Insights!At(h, "propose") /\ frame[h].row = i}

\* Whoever is about to propose an action saw none.
InsightsProposeInv == \A i \in Insights!Rows : live[i] + Cardinality(InsightsProposing(i)) <= Cardinality(Handlers)

\* What a step of h does to the actions of a row.
LEMMA InsightsProposeCases ==
  ASSUME Insights!TypeOK, NEW h \in Handlers, InsightsStepOf(h), NEW i \in Insights!Rows
  PROVE  \/ live'[i] = live[i] /\ h \notin InsightsProposing(i)'
         \/ live'[i] = live[i] /\ live[i] = 0
         \/ live'[i] = live[i] + 1 /\ h \in InsightsProposing(i) /\ h \notin InsightsProposing(i)'
<1> USE InsightsParts
<1>1. CASE Insights!ProposeLookUp(h)
  <2>1. live' = live
    BY <1>1 DEF Insights!ProposeLookUp, Insights!insightVars
  <2>2. PICK j \in frame[h].left :
          LET left == frame[h].left \ {j}
          IN IF live[j] = 0 THEN Insights!GoOn(h, [op |-> "propose", row |-> j, left |-> left])
             ELSE IF left = {} THEN Insights!Finish(h)
             ELSE Insights!GoOn(h, [op |-> "proposals", left |-> left])
    BY <1>1 DEF Insights!ProposeLookUp
  <2>3. CASE live[j] = 0
    <3>1. frame'[h].row = j
      BY <2>2, <2>3 DEF Insights!GoOn
    <3>2. QED
      BY <2>1, <2>3, <3>1 DEF InsightsProposing
  <2>4. CASE live[j] # 0
    <3>1. frame'[h].op # "propose"
      BY <2>2, <2>4 DEF Insights!GoOn, Insights!Finish, Insights!Idle
    <3>2. QED
      BY <2>1, <3>1 DEF InsightsProposing, Insights!At
  <2>5. QED
    BY <2>3, <2>4
<1>2. CASE Insights!ProposeCreate(h)
  <2>1. frame'[h].op # "propose"
    BY <1>2 DEF Insights!ProposeCreate, Insights!GoOn, Insights!Finish, Insights!Idle
  <2>2. frame[h].row \in Insights!Rows /\ Insights!At(h, "propose")
    BY <1>2, InsightsFrameParts DEF Insights!ProposeCreate
  <2>3. live'[i] = IF i = frame[h].row THEN live[i] + 1 ELSE live[i]
    BY <1>2, <2>2 DEF Insights!ProposeCreate
  <2>4. QED
    BY <2>1, <2>2, <2>3 DEF InsightsProposing, Insights!At
<1>3. CASE ~Insights!ProposeLookUp(h) /\ ~Insights!ProposeCreate(h)
  <2>1. live' = live
    BY <1>3, InsightsCount DEF InsightsStepOf, Insights!ComputeBegin, Insights!ComputeFind,
       Insights!ComputeCommit, Insights!ListRead, Insights!ListKeep, Insights!ResolveRead,
        Insights!ResolveWrite,
       Insights!ProposeBegin, Insights!Lost, Insights!insightVars
  <2>2. frame'[h].op # "propose"
    BY <1>3, InsightsCount DEF InsightsStepOf, Insights!ComputeBegin, Insights!ComputeFind,
       Insights!ComputeCommit, Insights!ListRead, Insights!ListKeep, Insights!ResolveRead,
        Insights!ResolveWrite,
       Insights!ProposeBegin, Insights!Lost, Insights!Drop, Insights!Serve, Insights!Finish, Insights!GoOn, Insights!Idle
  <2>3. QED
    BY <2>1, <2>2 DEF InsightsProposing, Insights!At
<1>4. QED
  BY <1>1, <1>2, <1>3

LEMMA InsightsProposeStep == ASSUME Insights!TypeOK, InsightsProposeInv, [Insights!Next]_(Insights!vars)
                             PROVE  InsightsProposeInv'
<1> USE InsightsParts
<1>1. ASSUME NEW h \in Handlers, InsightsStepOf(h) PROVE InsightsProposeInv'
  <2>1. ASSUME NEW i \in Insights!Rows
        PROVE  live'[i] + Cardinality(InsightsProposing(i)') <= Cardinality(Handlers)
    <3> DEFINE C == InsightsProposing(i)
               D == InsightsProposing(i)'
    <3>1. C \in SUBSET Handlers /\ D \in SUBSET Handlers /\ D \ {h} = C \ {h}
      BY <1>1, InsightsFrameStep DEF InsightsProposing, Insights!At
    <3>2. /\ Cardinality(C) \in Nat /\ Cardinality(D) \in Nat /\ Cardinality(D) <= Cardinality(Handlers)
          /\ h \notin D => Cardinality(D) <= Cardinality(C)
          /\ h \in C /\ h \notin D => Cardinality(D) = Cardinality(C) - 1
      BY <3>1, SomeCounted, OneMoves
    <3>3. /\ live[i] + Cardinality(C) <= Cardinality(Handlers)
          /\ live[i] \in Nat
      BY InsightConstants DEF InsightsProposeInv
    <3>4. \/ live'[i] = live[i] /\ h \notin D
          \/ live'[i] = live[i] /\ live[i] = 0
          \/ live'[i] = live[i] + 1 /\ h \in C /\ h \notin D
      BY <1>1, InsightsProposeCases
    <3> HIDE DEF C, D
    <3>5. live'[i] + Cardinality(D) <= Cardinality(Handlers)
      BY <3>2, <3>3, <3>4, HandlersCounted
    <3>6. QED
      BY <3>5 DEF D
  <2>2. QED
    BY <2>1 DEF InsightsProposeInv
<1>2. ASSUME frame' = frame, live' = live PROVE InsightsProposeInv'
  BY <1>2 DEF InsightsProposeInv, InsightsProposing, Insights!At
<1>3. ASSUME NEW t \in InsightTypes, Insights!NumbersChange(t) PROVE InsightsProposeInv'
  BY <1>2, <1>3 DEF Insights!NumbersChange
<1>4. CASE Insights!CacheExpires
  BY <1>2, <1>4 DEF Insights!CacheExpires
<1>5. ASSUME NEW j \in Insights!Rows, Insights!ActionEnds(j) PROVE InsightsProposeInv'
  <2>1. ASSUME NEW i \in Insights!Rows
        PROVE  live'[i] + Cardinality(InsightsProposing(i)') <= Cardinality(Handlers)
    <3>1. InsightsProposing(i)' = InsightsProposing(i) /\ Cardinality(InsightsProposing(i)) \in Nat
      BY <1>5, SomeCounted DEF Insights!ActionEnds, InsightsProposing, Insights!At
    <3>2. live'[i] \in Int /\ live'[i] <= live[i] /\ live[i] \in Nat
      BY <1>5, InsightConstants DEF Insights!ActionEnds
    <3>3. live[i] + Cardinality(InsightsProposing(i)) <= Cardinality(Handlers)
      BY DEF InsightsProposeInv
    <3>4. QED
      BY <3>1, <3>2, <3>3, HandlersCounted
  <2>2. QED
    BY <2>1 DEF InsightsProposeInv
<1>6. CASE UNCHANGED Insights!vars
  BY <1>2, <1>6 DEF Insights!vars, Insights!insightVars
<1>7. QED
  BY <1>1, <1>3, <1>4, <1>5, <1>6 DEF Insights!Next, InsightsStepOf

(* No insight has more live actions than requests that propose at the same *)
(* time (computeActions).                                                  *)
THEOREM InsightsProposals == Insights!Spec => []Insights!ProposalsBounded
<1>1. Insights!Init => Insights!TypeOK /\ InsightsFoundInv /\ InsightsProposeInv
  <2> SUFFICES ASSUME Insights!Init PROVE InsightsProposeInv
    BY InsightsInitTyped
  <2>1. ASSUME NEW i \in Insights!Rows PROVE live[i] = 0 /\ InsightsProposing(i) = {}
    BY DEF Insights!Init, Insights!ServerInit, InsightsProposing, Insights!At, Insights!Idle
  <2>2. QED
    BY <2>1, FS_EmptySet, HandlersCounted DEF InsightsProposeInv
<1>2. Insights!TypeOK /\ InsightsFoundInv /\ InsightsProposeInv /\ [Insights!Next]_(Insights!vars) => Insights!TypeOK' /\ InsightsFoundInv' /\ InsightsProposeInv'
  BY InsightsTypeStep, InsightsFoundStep, InsightsProposeStep
<1>3. Insights!TypeOK /\ InsightsProposeInv => Insights!ProposalsBounded
  <2> SUFFICES ASSUME Insights!TypeOK, InsightsProposeInv, NEW i \in Insights!Rows
               PROVE  live[i] <= Cardinality(Handlers)
    BY InsightsCount DEF Insights!ProposalsBounded
  <2>1. live[i] \in Nat /\ Cardinality(InsightsProposing(i)) \in Nat
    BY InsightsParts, InsightConstants, SomeCounted DEF InsightsProposing
  <2>2. QED
    BY <2>1, HandlersCounted DEF InsightsProposeInv
<1>4. QED
  BY <1>1, <1>2, <1>3, PTL DEF Insights!Spec

\* The list that is kept.

\* A request that read the list read it as it is, unless the insights were changed since; a quiet
\* list was kept when no compute was under way, and none has begun since.
InsightsQuietInv ==
  /\ \A h \in Handlers : Insights!At(h, "list") =>
       frame[h].writes <= writes /\ (frame[h].writes = writes => frame[h].seen = open)
  /\ \A kept \in cache : kept.quiet => kept.seen = open /\ Insights!Computing = {}

LEMMA InsightsQuietStep == ASSUME Insights!TypeOK, InsightsFoundInv, InsightsQuietInv, [Insights!Next]_(Insights!vars)
                           PROVE  InsightsQuietInv'
<1> USE InsightsParts
<1>1. ASSUME writes' = writes, open' = open, NEW h \in Handlers, \A g \in Handlers \ {h} : frame'[g] = frame[g],
             frame'[h].op \notin {"list", "find", "commit"}, cache' \in {cache, {}}
      PROVE  InsightsQuietInv'
  <2>1. \A g \in Handlers : Insights!At(g, "list")' => Insights!At(g, "list") /\ frame'[g] = frame[g]
    BY <1>1 DEF Insights!At
  <2>2. Insights!Computing' \subseteq Insights!Computing
    BY <1>1 DEF Insights!Computing, Insights!Serving, Insights!At
  <2>3. QED
    BY <1>1, <2>1, <2>2 DEF InsightsQuietInv
<1>2. ASSUME NEW h \in Handlers, InsightsStepOf(h) PROVE InsightsQuietInv'
  <2>0. \A g \in Handlers \ {h} : frame'[g] = frame[g]
    BY <1>2, InsightsFrameStep
  <2>1. CASE Insights!ComputeBegin(h)
    <3>1. /\ cache' = {} /\ writes' = writes /\ open' = open /\ frame'[h].op = "find"
      BY <2>1 DEF Insights!ComputeBegin, Insights!Serve
    <3>2. QED
      BY <2>0, <3>1 DEF InsightsQuietInv, Insights!At
  <2>2. CASE Insights!ComputeFind(h)
    <3>1. /\ cache' = cache /\ writes' = writes /\ open' = open /\ frame'[h].op = "commit" /\ h \in Insights!Computing
      BY <2>2, InsightsCount DEF Insights!ComputeFind, Insights!GoOn, Insights!insightVars,
         Insights!Computing, Insights!Serving
    <3>2. \A kept \in cache : ~kept.quiet
      BY <3>1 DEF InsightsQuietInv
    <3>3. QED
      BY <2>0, <3>1, <3>2 DEF InsightsQuietInv, Insights!At
  <2>3. CASE Insights!ComputeCommit(h)
    <3>1. cache' = cache /\ writes' = writes + 1 /\ frame'[h] = Insights!Idle /\ h \in Insights!Computing
      BY <2>3, InsightsCount DEF Insights!ComputeCommit, Insights!Finish, Insights!GoOn, Insights!Computing,
         Insights!Serving
    <3>2. \A kept \in cache : ~kept.quiet
      BY <3>1 DEF InsightsQuietInv
    <3>3. \A g \in Handlers : Insights!At(g, "list")' =>
            Insights!At(g, "list") /\ frame'[g] = frame[g] /\ frame[g].writes \in Nat /\ frame[g].writes <= writes
      BY <2>0, <3>1, InsightsFrameParts DEF InsightsQuietInv, Insights!At, Insights!Idle
    <3>4. \A g \in Handlers : Insights!At(g, "list")' => frame'[g].writes <= writes' /\ frame'[g].writes # writes'
      BY <3>1, <3>3
    <3>5. QED
      BY <3>1, <3>2, <3>4 DEF InsightsQuietInv
  <2>4. CASE Insights!ListRead(h)
    <3>1. /\ cache = {} /\ cache' = {} /\ writes' = writes /\ open' = open
          /\ frame'[h].writes = writes /\ frame'[h].seen = open
      BY <2>4 DEF Insights!ListRead, Insights!Serve, Insights!insightVars
    <3>2. \A g \in Handlers \ {h} : Insights!At(g, "list")' => Insights!At(g, "list")
      BY <2>0 DEF Insights!At
    <3>3. QED
      BY <2>0, <3>1, <3>2 DEF InsightsQuietInv
  <2>5. CASE Insights!ListKeep(h)
    <3> DEFINE q == frame[h].writes = writes /\ Insights!Computing = {}
    <3>1. /\ cache' = {[seen |-> frame[h].seen, quiet |-> q]} /\ writes' = writes /\ open' = open
          /\ frame'[h] = Insights!Idle /\ Insights!At(h, "list")
      BY <2>5 DEF Insights!ListKeep, Insights!Finish, Insights!GoOn
    <3>2. q => frame[h].seen = open' /\ Insights!Computing' = {}
      BY <2>0, <3>1 DEF InsightsQuietInv, Insights!Computing, Insights!Serving, Insights!At, Insights!Idle
    <3>3. \A g \in Handlers : Insights!At(g, "list")' => Insights!At(g, "list") /\ frame'[g] = frame[g]
      BY <2>0, <3>1 DEF Insights!At, Insights!Idle
    <3> HIDE DEF q
    <3>4. \A kept \in cache' : kept.quiet => kept.seen = open' /\ Insights!Computing' = {}
      BY <3>1, <3>2
    <3>5. QED
      BY <3>1, <3>3, <3>4 DEF InsightsQuietInv
  <2>6. CASE Insights!ResolveWrite(h)
    <3>1. /\ cache' = {} /\ frame'[h] = Insights!Idle
          /\ \/ writes' = writes /\ open' = open
             \/ writes' = writes + 1
      BY <2>6 DEF Insights!ResolveWrite, Insights!Finish, Insights!GoOn
    <3>2. \A g \in Handlers : Insights!At(g, "list")' =>
            Insights!At(g, "list") /\ frame'[g] = frame[g] /\ frame[g].writes \in Nat /\ frame[g].writes <= writes
      BY <2>0, <3>1, InsightsFrameParts DEF InsightsQuietInv, Insights!At, Insights!Idle
    <3>3. CASE writes' = writes /\ open' = open
      BY <3>1, <3>2, <3>3 DEF InsightsQuietInv
    <3>4. CASE writes' = writes + 1
      <4>1. \A g \in Handlers : Insights!At(g, "list")' => frame'[g].writes <= writes' /\ frame'[g].writes # writes'
        BY <3>2, <3>4
      <4>2. QED
        BY <3>1, <4>1 DEF InsightsQuietInv
    <3>5. QED
      BY <3>1, <3>3, <3>4
  <2>7. CASE (\E i \in Insights!Rows : Insights!ResolveRead(h, i)) \/ Insights!ProposeBegin(h) \/ Insights!ProposeLookUp(h) \/ Insights!ProposeCreate(h) \/ Insights!Lost(h)
    <3>1. writes' = writes /\ open' = open /\ cache' = cache
      BY <2>7 DEF Insights!ResolveRead, Insights!ProposeBegin, Insights!ProposeLookUp,
         Insights!ProposeCreate, Insights!Lost, Insights!insightVars
    <3>2. frame'[h].op \in {"idle", "resolve", "proposals", "propose"}
      BY <2>7 DEF Insights!ResolveRead, Insights!ProposeBegin, Insights!ProposeLookUp,
         Insights!ProposeCreate, Insights!Lost, Insights!Drop, Insights!Serve, Insights!Finish,
          Insights!GoOn, Insights!Idle
    <3>3. QED
      BY <1>1, <2>0, <3>1, <3>2
  <2>8. QED
    BY <1>2, <2>1, <2>2, <2>3, <2>4, <2>5, <2>6, <2>7 DEF InsightsStepOf
<1>3. ASSUME frame' = frame, writes' = writes, open' = open, cache' \in {cache, {}} PROVE InsightsQuietInv'
  BY <1>3 DEF InsightsQuietInv, Insights!At, Insights!Computing, Insights!Serving
<1>4. ASSUME NEW t \in InsightTypes, Insights!NumbersChange(t) PROVE InsightsQuietInv'
  BY <1>3, <1>4 DEF Insights!NumbersChange
<1>5. CASE Insights!CacheExpires
  BY <1>3, <1>5 DEF Insights!CacheExpires
<1>6. ASSUME NEW i \in Insights!Rows, Insights!ActionEnds(i) PROVE InsightsQuietInv'
  BY <1>3, <1>6 DEF Insights!ActionEnds
<1>7. CASE UNCHANGED Insights!vars
  BY <1>3, <1>7 DEF Insights!vars, Insights!insightVars
<1>8. QED
  BY <1>2, <1>4, <1>5, <1>6, <1>7 DEF Insights!Next, InsightsStepOf

(* The list of open insights is true as long as it is kept, if nothing     *)
(* changed while it was read and no compute was under way                  *)
(* (listUnresolved).                                                       *)
THEOREM InsightsQuietLists == Insights!Spec => []Insights!QuietListIsTrue
<1>1. Insights!Init => Insights!TypeOK /\ InsightsFoundInv /\ InsightsQuietInv
  BY InsightsInitTyped DEF Insights!Init, Insights!ServerInit, InsightsQuietInv, Insights!At, Insights!Idle
<1>2. Insights!TypeOK /\ InsightsFoundInv /\ InsightsQuietInv /\ [Insights!Next]_(Insights!vars) => Insights!TypeOK' /\ InsightsFoundInv' /\ InsightsQuietInv'
  BY InsightsTypeStep, InsightsFoundStep, InsightsQuietStep
<1>3. InsightsQuietInv => Insights!QuietListIsTrue
  BY DEF InsightsQuietInv, Insights!QuietListIsTrue
<1>4. QED
  BY <1>1, <1>2, <1>3, PTL DEF Insights!Spec

-----------------------------------------------------------------------------
(* Companies, contacts, deals and leads.                                   *)

\* Sets are counted as everywhere.
LEMMA SalesCount ==
  \A S : Sales!IsFiniteSet(S) = IsFiniteSet(S) /\ Sales!Cardinality(S) = Cardinality(S)
BY DEF Sales!IsFiniteSet, IsFiniteSet, Sales!Cardinality, Cardinality

SalesFrames == {Sales!Idle} \cup [op : {"won", "root?", "root", "lost"}] \cup [op : {"stage"}, to : {"OPEN", "WON", "LOST"}]
               \cup [op : {"update"}, i : Sales!Items, to : Sales!Statuses, done : BOOLEAN, unlink : BOOLEAN]
SalesRows == [done : BOOLEAN, dated : BOOLEAN, linked : BOOLEAN, exists : BOOLEAN]

\* A step of the request h.
SalesStepOf(h) ==
  \/ Sales!UpdateDeal(h) \/ Sales!MarkWon(h) \/ Sales!MarkLost(h) \/ Sales!RootLookUp(h) \/ Sales!RootInsert(h)
  \/ Sales!ItemWrite(h) \/ Sales!Lost(h)
  \/ \E f \in [op : {"won", "lost"}] \cup [op : {"stage"}, to : {"OPEN", "WON", "LOST"}] : Sales!DealRead(h, f)
  \/ \E i \in Sales!Items, to \in Sales!Statuses, unlink \in BOOLEAN : Sales!ItemRead(h, i, to, unlink)

\* Requests look for a work item of the deal and find none: at first, and once more for each work
\* item that was taken off it.
SalesRootInv ==
  /\ roots + Cardinality(Sales!Serving("root")) <= Cardinality(Handlers) * (unlinks + 1)
  /\ Sales!Linked = {} => roots <= Cardinality(Handlers) * unlinks

\* An update that overlaps no other writes on what it has read.
SalesDateInv ==
  /\ \A i \in Sales!Existing : item[i].done => item[i].dated
  /\ \A h \in Sales!Serving("update") : frame[h].i \in Sales!Existing
  /\ ~disturbed =>
       /\ \A i \in Sales!Existing : item[i].dated => item[i].done
       /\ \A g, h \in Sales!Serving("update") : frame[g].i = frame[h].i => g = h
       /\ \A h \in Sales!Serving("update") : frame[h].to = "same" /\ frame[h].done => item[frame[h].i].done

\* Types.

LEMMA SalesFrameParts ==
  ASSUME Sales!TypeOK, NEW h \in Handlers
  PROVE  /\ frame[h].op \in {"idle", "won", "root?", "root", "lost", "stage", "update"}
         /\ Sales!At(h, "stage") => frame[h].to \in {"OPEN", "WON", "LOST"}
         /\ Sales!At(h, "update") => /\ frame[h].i \in Sales!Items /\ frame[h].to \in Sales!Statuses
                                     /\ frame[h].done \in BOOLEAN /\ frame[h].unlink \in BOOLEAN
BY DEF Sales!TypeOK, Sales!At, Sales!Idle

LEMMA SalesFrameStep ==
  ASSUME Sales!TypeOK, NEW h \in Handlers, SalesStepOf(h)
  PROVE  /\ frame' \in [Handlers -> SalesFrames]
         /\ \A g \in Handlers \ {h} : frame'[g] = frame[g]
<1>1. ASSUME NEW f \in SalesFrames, Sales!GoOn(h, f)
      PROVE  /\ frame' \in [Handlers -> SalesFrames]
             /\ \A g \in Handlers \ {h} : frame'[g] = frame[g]
  BY <1>1 DEF Sales!GoOn, Sales!TypeOK, SalesFrames
<1>2. Sales!Idle \in SalesFrames /\ [op |-> "root?"] \in SalesFrames /\ [op |-> "root"] \in SalesFrames
  BY DEF SalesFrames
<1>3. ASSUME NEW f \in [op : {"won", "lost"}] \cup [op : {"stage"}, to : {"OPEN", "WON", "LOST"}], Sales!DealRead(h, f)
      PROVE  /\ frame' \in [Handlers -> SalesFrames]
             /\ \A g \in Handlers \ {h} : frame'[g] = frame[g]
  <2>1. f \in SalesFrames
    BY DEF SalesFrames
  <2>2. QED
    BY <1>1, <1>3, <2>1 DEF Sales!DealRead, Sales!Serve, Sales!GoOn
<1>4. ASSUME NEW i \in Sales!Items, NEW to \in Sales!Statuses, NEW unlink \in BOOLEAN, Sales!ItemRead(h, i, to, unlink)
      PROVE  /\ frame' \in [Handlers -> SalesFrames]
             /\ \A g \in Handlers \ {h} : frame'[g] = frame[g]
  <2> DEFINE d == to = "same" /\ item[i].done
             f == [op |-> "update", i |-> i, to |-> to, unlink |-> unlink, done |-> d]
  <2>1. Sales!GoOn(h, f)
    BY <1>4 DEF Sales!ItemRead, Sales!Serve, Sales!GoOn
  <2>2. d \in BOOLEAN
    BY DEF Sales!TypeOK
  <2> HIDE DEF d
  <2>3. f \in SalesFrames
    BY <2>2 DEF SalesFrames
  <2>4. QED
    BY <1>1, <2>1, <2>3
<1>5. CASE Sales!UpdateDeal(h) \/ Sales!MarkWon(h) \/ Sales!MarkLost(h) \/ Sales!RootLookUp(h) \/ Sales!RootInsert(h) \/ Sales!ItemWrite(h) \/ Sales!Lost(h)
  BY <1>1, <1>2, <1>5 DEF Sales!UpdateDeal, Sales!MarkWon, Sales!MarkLost, Sales!RootLookUp,
     Sales!RootInsert, Sales!ItemWrite, Sales!Lost, Sales!Drop, Sales!Finish
<1>6. QED
  BY <1>3, <1>4, <1>5 DEF SalesStepOf

\* What an update of h writes.
LEMMA SalesWritten ==
  ASSUME Sales!TypeOK, NEW h \in Handlers, Sales!ItemWrite(h)
  PROVE  /\ Sales!At(h, "update") /\ frame[h].i \in Sales!Items
         /\ item' \in [Sales!Items -> SalesRows]
         /\ \A i \in Sales!Items \ {frame[h].i} : item'[i] = item[i]
         /\ item'[frame[h].i].exists = item[frame[h].i].exists
         /\ item'[frame[h].i].linked <=> item[frame[h].i].linked /\ ~frame[h].unlink
         /\ item'[frame[h].i].done <=>
              IF frame[h].to = "same" THEN item[frame[h].i].done ELSE frame[h].to = "DONE"
         /\ item'[frame[h].i].dated <=> Sales!Dated(frame[h], item[frame[h].i].dated)
<1> DEFINE f == frame[h]
           i == f.i
           d == IF f.to = "same" THEN item[i].done ELSE f.to = "DONE"
           t == Sales!Dated(f, item[i].dated)
           l == item[i].linked /\ ~f.unlink
<1>1. Sales!At(h, "update") /\ i \in Sales!Items /\ f.unlink \in BOOLEAN /\ f.done \in BOOLEAN
  BY SalesFrameParts DEF Sales!ItemWrite
<1>2. item \in [Sales!Items -> SalesRows]
  BY DEF Sales!TypeOK, SalesRows
<1>3. item' = [item EXCEPT ![i].done = IF f.to = "same" THEN @ ELSE f.to = "DONE",
                           ![i].dated = Sales!Dated(f, @),
                           ![i].linked = @ /\ ~f.unlink]
  BY DEF Sales!ItemWrite
<1>4. item[i].done \in BOOLEAN /\ item[i].dated \in BOOLEAN /\ item[i].linked \in BOOLEAN /\ item[i].exists \in BOOLEAN
  BY <1>1, <1>2 DEF SalesRows
<1>5. d \in BOOLEAN /\ t \in BOOLEAN /\ l \in BOOLEAN
  BY <1>1, <1>4 DEF Sales!Dated
<1> HIDE DEF i, f
<1>6. item' = [item EXCEPT ![i] = [done |-> d, dated |-> t, linked |-> l, exists |-> item[i].exists]]
  <2>1. [item[i] EXCEPT !.done = d, !.dated = t, !.linked = l]
          = [done |-> d, dated |-> t, linked |-> l, exists |-> item[i].exists]
    <3>1. item[i] \in SalesRows
      BY <1>1, <1>2
    <3>2. ASSUME NEW r \in SalesRows
          PROVE  [r EXCEPT !.done = d, !.dated = t, !.linked = l]
                   = [done |-> d, dated |-> t, linked |-> l, exists |-> r.exists]
      <4>1. \A x \in SalesRows : [x EXCEPT !.done = d] = [done |-> d, dated |-> x.dated, linked |-> x.linked, exists |-> x.exists]
        BY DEF SalesRows
      <4>2. \A x \in SalesRows : [x EXCEPT !.dated = t] = [done |-> x.done, dated |-> t, linked |-> x.linked, exists |-> x.exists]
        BY DEF SalesRows
      <4>3. \A x \in SalesRows : [x EXCEPT !.linked = l] = [done |-> x.done, dated |-> x.dated, linked |-> l, exists |-> x.exists]
        BY DEF SalesRows
      <4> DEFINE x == [r EXCEPT !.done = d]
                 y == [x EXCEPT !.dated = t]
                 z == [y EXCEPT !.linked = l]
      <4>4. [r EXCEPT !.done = d, !.dated = t, !.linked = l] = z
        OBVIOUS
      <4>5. x \in SalesRows /\ x.done = d /\ x.linked = r.linked /\ x.exists = r.exists
        BY <1>5, <4>1 DEF SalesRows
      <4> HIDE DEF x
      <4>6. y \in SalesRows /\ y.done = d /\ y.dated = t /\ y.exists = r.exists
        BY <1>5, <4>2, <4>5 DEF SalesRows
      <4> HIDE DEF y
      <4>7. z = [done |-> d, dated |-> t, linked |-> l, exists |-> r.exists]
        BY <4>3, <4>6
      <4>8. QED
        BY <4>4, <4>7 DEF x, y
    <3>3. QED
      BY <3>1, <3>2
  <2>2. item' = [item EXCEPT ![i] = [item[i] EXCEPT !.done = d, !.dated = t, !.linked = l]]
    BY <1>1, <1>2, <1>3
  <2>3. QED
    BY <2>1, <2>2
<1> HIDE DEF d, t, l
<1>7. [done |-> d, dated |-> t, linked |-> l, exists |-> item[i].exists] \in SalesRows
  BY <1>4, <1>5 DEF SalesRows
<1>8. item' \in [Sales!Items -> SalesRows] /\ \A j \in Sales!Items \ {i} : item'[j] = item[j]
  BY <1>1, <1>2, <1>6, <1>7
<1>9. item'[i] = [done |-> d, dated |-> t, linked |-> l, exists |-> item[i].exists]
  BY <1>1, <1>2, <1>6
<1>10. item'[i].done = d /\ item'[i].dated = t /\ item'[i].linked = l /\ item'[i].exists = item[i].exists
  BY <1>9
<1>11. QED
  BY <1>1, <1>8, <1>10 DEF d, t, l, i, f

\* A work item that is made.
LEMMA SalesMade ==
  ASSUME Sales!TypeOK, NEW i \in Sales!Items, NEW row \in SalesRows, Sales!NewItem(i, row)
  PROVE  /\ i \notin Sales!Existing /\ item' \in [Sales!Items -> SalesRows] /\ item'[i] = row
         /\ \A j \in Sales!Items \ {i} : item'[j] = item[j]
BY DEF Sales!TypeOK, SalesRows, Sales!NewItem

LEMMA SalesTypeStep == ASSUME Sales!TypeOK, [Sales!Next]_(Sales!vars) PROVE Sales!TypeOK'
<1> DEFINE F == SalesFrames
           R == SalesRows
           Rest == /\ frame \in [Handlers -> F]
                   /\ item \in [Sales!Items -> R]
                   /\ deal \in {"none", "OPEN", "WON", "LOST"}
                   /\ roots \in Nat /\ unlinks \in 0..MaxUnlinks /\ disturbed \in BOOLEAN
<1>1. Sales!TypeOK <=> Rest
  BY DEF Sales!TypeOK, SalesFrames, SalesRows
<1>2. Sales!TypeOK' <=> Rest'
  BY DEF Sales!TypeOK, SalesFrames, SalesRows
<1>3. Rest
  BY <1>1
<1> SUFFICES Rest'
  BY <1>2
<1>4. ASSUME NEW h \in Handlers, SalesStepOf(h) PROVE Rest'
  <2>1. frame' \in [Handlers -> F]
    BY <1>4, SalesFrameStep
  <2>2. CASE Sales!RootInsert(h)
    <3>1. PICK i \in Sales!Items : Sales!NewItem(i, [done |-> FALSE, dated |-> FALSE, linked |-> TRUE, exists |-> TRUE])
      BY <2>2 DEF Sales!RootInsert
    <3>2. [done |-> FALSE, dated |-> FALSE, linked |-> TRUE, exists |-> TRUE] \in SalesRows
      BY DEF SalesRows
    <3>3. item' \in [Sales!Items -> R]
      BY <3>1, <3>2, SalesMade
    <3> HIDE DEF F, R
    <3>4. QED
      BY <1>3, <2>1, <2>2, <3>3 DEF Sales!RootInsert
  <2>3. CASE Sales!ItemWrite(h)
    <3>1. item' \in [Sales!Items -> R]
      BY <2>3, SalesWritten
    <3>2. unlinks' \in 0..MaxUnlinks
      BY <1>3, <2>3, SalesConstants DEF Sales!ItemWrite
    <3> HIDE DEF F, R
    <3>3. QED
      BY <1>3, <2>1, <2>3, <3>1, <3>2 DEF Sales!ItemWrite
  <2>4. CASE Sales!UpdateDeal(h)
    <3>1. deal' \in {"none", "OPEN", "WON", "LOST"}
      BY <2>4, SalesFrameParts DEF Sales!UpdateDeal, Sales!SetStage
    <3> HIDE DEF F, R
    <3>2. QED
      BY <1>3, <2>1, <2>4, <3>1 DEF Sales!UpdateDeal, Sales!SetStage
  <2> HIDE DEF F, R
  <2>5. CASE Sales!MarkWon(h) \/ Sales!MarkLost(h) \/ Sales!RootLookUp(h) \/ Sales!Lost(h)
    BY <1>3, <2>1, <2>5 DEF Sales!MarkWon, Sales!MarkLost, Sales!RootLookUp, Sales!Lost, Sales!SetStage,
       Sales!salesVars
  <2>6. CASE \E f \in [op : {"won", "lost"}] \cup [op : {"stage"}, to : {"OPEN", "WON", "LOST"}] : Sales!DealRead(h, f)
    BY <1>3, <2>1, <2>6 DEF Sales!DealRead, Sales!salesVars
  <2>7. CASE \E i \in Sales!Items, to \in Sales!Statuses, unlink \in BOOLEAN : Sales!ItemRead(h, i, to, unlink)
    BY <1>3, <2>1, <2>7 DEF Sales!ItemRead
  <2>8. QED
    BY <1>4, <2>2, <2>3, <2>4, <2>5, <2>6, <2>7 DEF SalesStepOf
<1>5. CASE Sales!CreateItem
  <2>1. PICK i \in Sales!Items, d \in BOOLEAN, l \in BOOLEAN :
          Sales!NewItem(i, [done |-> d, dated |-> d, linked |-> l, exists |-> TRUE])
    BY <1>5, SalesCount DEF Sales!CreateItem
  <2>2. [done |-> d, dated |-> d, linked |-> l, exists |-> TRUE] \in SalesRows
    BY DEF SalesRows
  <2>3. item' \in [Sales!Items -> R]
    BY <2>1, <2>2, SalesMade
  <2> HIDE DEF F, R
  <2>4. QED
    BY <1>3, <1>5, <2>3, SalesCount DEF Sales!CreateItem
<1>6. CASE Sales!CreateDeal \/ Sales!ConvertToDeal \/ UNCHANGED Sales!vars
  <2> HIDE DEF F, R
  <2>1. QED
    BY <1>3, <1>6 DEF Sales!CreateDeal, Sales!ConvertToDeal, Sales!vars, Sales!salesVars
<1>7. QED
  BY <1>4, <1>5, <1>6 DEF Sales!Next, SalesStepOf

(* The deal, the work items and the requests keep their types, for any     *)
(* number of work items (DealsService, WorkItemsService).                  *)
THEOREM SalesTypeCorrect == Sales!Spec => []Sales!TypeOK
<1>1. ASSUME Sales!Init PROVE Sales!TypeOK
  <2>1. frame \in [Handlers -> {Sales!Idle}]
    BY <1>1 DEF Sales!Init, Sales!ServerInit
  <2>2. item \in [Sales!Items -> [done : BOOLEAN, dated : BOOLEAN, linked : BOOLEAN, exists : BOOLEAN]]
    BY <1>1 DEF Sales!Init, Sales!NoItem
  <2>3. unlinks \in 0..MaxUnlinks
    BY <1>1, SalesConstants DEF Sales!Init
  <2>4. QED
    BY <1>1, <2>1, <2>2, <2>3 DEF Sales!Init, Sales!TypeOK
<1>2. QED
  BY <1>1, SalesTypeStep, PTL DEF Sales!Spec

\* Work items made for a deal that is won.

\* What a step of h does to them.
LEMMA SalesRootCases ==
  ASSUME Sales!TypeOK, NEW h \in Handlers, SalesStepOf(h)
  PROVE  \/ Sales!Linked' = Sales!Linked /\ UNCHANGED <<roots, unlinks>> /\ h \notin Sales!Serving("root")'
         \/ Sales!Linked = {} /\ Sales!Linked' = {} /\ UNCHANGED <<roots, unlinks>>
         \/ /\ Sales!Linked' # {} /\ roots' = roots + 1 /\ unlinks' = unlinks
            /\ h \in Sales!Serving("root") /\ h \notin Sales!Serving("root")'
         \/ roots' = roots /\ unlinks' = unlinks + 1 /\ h \notin Sales!Serving("root")'
<1>0. frame \in [Handlers -> SalesFrames] /\ Sales!Idle.op = "idle" /\ item \in [Sales!Items -> SalesRows]
  BY DEF Sales!TypeOK, SalesFrames, Sales!Idle, SalesRows
<1>1. CASE Sales!RootLookUp(h)
  <2>1. UNCHANGED <<item, roots, unlinks>> /\ Sales!Linked' = Sales!Linked
    BY <1>1 DEF Sales!RootLookUp, Sales!salesVars, Sales!Linked, Sales!Existing
  <2>2. CASE Sales!Linked = {}
    BY <2>1, <2>2
  <2>3. CASE Sales!Linked # {}
    <3>1. frame'[h] = Sales!Idle
      BY <1>0, <1>1, <2>3 DEF Sales!RootLookUp, Sales!Finish, Sales!GoOn
    <3>2. QED
      BY <1>0, <2>1, <3>1 DEF Sales!Serving, Sales!At
  <2>4. QED
    BY <2>2, <2>3
<1>2. CASE Sales!RootInsert(h)
  <2>1. PICK i \in Sales!Items : Sales!NewItem(i, [done |-> FALSE, dated |-> FALSE, linked |-> TRUE, exists |-> TRUE])
    BY <1>2 DEF Sales!RootInsert
  <2>2. [done |-> FALSE, dated |-> FALSE, linked |-> TRUE, exists |-> TRUE] \in SalesRows
    BY DEF SalesRows
  <2>3. item'[i] = [done |-> FALSE, dated |-> FALSE, linked |-> TRUE, exists |-> TRUE]
    BY <2>1, <2>2, SalesMade
  <2>4. item'[i].linked /\ item'[i].exists
    BY <2>3
  <2>5. Sales!Linked' # {}
    BY <2>4 DEF Sales!Linked, Sales!Existing
  <2>6. frame[h].op = "root" /\ frame'[h] = Sales!Idle /\ roots' = roots + 1 /\ unlinks' = unlinks
    BY <1>0, <1>2 DEF Sales!RootInsert, Sales!Finish, Sales!GoOn, Sales!At
  <2>7. QED
    BY <1>0, <2>5, <2>6 DEF Sales!Serving, Sales!At
<1>3. CASE Sales!ItemWrite(h)
  <2>1. frame'[h] = Sales!Idle /\ roots' = roots /\ unlinks' = (IF frame[h].unlink THEN unlinks + 1 ELSE unlinks)
    BY <1>0, <1>3 DEF Sales!ItemWrite, Sales!Finish, Sales!GoOn
  <2>2. h \notin Sales!Serving("root")'
    BY <1>0, <2>1 DEF Sales!Serving, Sales!At
  <2>3. CASE frame[h].unlink
    BY <2>1, <2>2, <2>3
  <2>4. CASE ~frame[h].unlink
    <3>1. \A i \in Sales!Items : (item'[i].exists /\ item'[i].linked) <=> (item[i].exists /\ item[i].linked)
      BY <1>3, <2>4, SalesWritten
    <3>2. Sales!Linked' = Sales!Linked
      BY <3>1 DEF Sales!Linked, Sales!Existing
    <3>3. QED
      BY <2>1, <2>2, <2>4, <3>2
  <2>5. QED
    BY <2>3, <2>4
<1>4. CASE \/ Sales!UpdateDeal(h) \/ Sales!MarkWon(h) \/ Sales!MarkLost(h) \/ Sales!Lost(h)
           \/ \E f \in [op : {"won", "lost"}] \cup [op : {"stage"}, to : {"OPEN", "WON", "LOST"}] : Sales!DealRead(h, f)
           \/ \E i \in Sales!Items, to \in Sales!Statuses, unlink \in BOOLEAN : Sales!ItemRead(h, i, to, unlink)
  <2>1. UNCHANGED <<item, roots, unlinks>>
    BY <1>4 DEF Sales!UpdateDeal, Sales!MarkWon, Sales!MarkLost, Sales!Lost, Sales!SetStage, Sales!DealRead,
       Sales!ItemRead, Sales!salesVars
  <2>2. frame'[h].op # "root"
    <3>1. CASE Sales!UpdateDeal(h) \/ Sales!MarkWon(h) \/ Sales!MarkLost(h) \/ Sales!Lost(h)
      <4>1. frame'[h] = Sales!Idle \/ frame'[h] = [op |-> "root?"]
        BY <1>0, <3>1 DEF Sales!UpdateDeal, Sales!MarkWon, Sales!MarkLost, Sales!Lost, Sales!Drop,
           Sales!Finish, Sales!GoOn
      <4>2. QED
        BY <1>0, <4>1
    <3>2. ASSUME NEW f \in [op : {"won", "lost"}] \cup [op : {"stage"}, to : {"OPEN", "WON", "LOST"}], Sales!DealRead(h, f)
          PROVE  frame'[h].op # "root"
      <4>1. frame'[h] = f
        BY <1>0, <3>2 DEF Sales!DealRead, Sales!Serve
      <4>2. QED
        BY <4>1
    <3>3. ASSUME NEW i \in Sales!Items, NEW to \in Sales!Statuses, NEW unlink \in BOOLEAN, Sales!ItemRead(h, i, to, unlink)
          PROVE  frame'[h].op # "root"
      <4> DEFINE d == to = "same" /\ item[i].done
      <4>1. frame'[h] = [op |-> "update", i |-> i, to |-> to, unlink |-> unlink, done |-> d]
        BY <1>0, <3>3 DEF Sales!ItemRead, Sales!Serve
      <4> HIDE DEF d
      <4>2. QED
        BY <4>1
    <3>4. QED
      BY <1>4, <3>1, <3>2, <3>3
  <2>3. Sales!Linked' = Sales!Linked
    BY <2>1 DEF Sales!Linked, Sales!Existing
  <2>4. QED
    BY <2>1, <2>2, <2>3 DEF Sales!Serving, Sales!At
<1>5. QED
  BY <1>1, <1>2, <1>3, <1>4 DEF SalesStepOf

LEMMA SalesRootStep == ASSUME Sales!TypeOK, SalesRootInv, [Sales!Next]_(Sales!vars) PROVE SalesRootInv'
<1> DEFINE n == Cardinality(Handlers)
           C == Sales!Serving("root")
           D == Sales!Serving("root")'
           r == n * unlinks
<1>0. /\ n \in Nat /\ roots \in Nat /\ unlinks \in Nat /\ r \in Nat /\ Cardinality(C) \in Nat
      /\ n * (unlinks + 1) = r + n
      /\ roots + Cardinality(C) <= r + n
      /\ Sales!Linked = {} => roots <= r
  <2>1. n \in Nat /\ roots \in Nat /\ unlinks \in Nat
    BY SalesConstants, HandlersCounted DEF Sales!TypeOK
  <2>2. C \in SUBSET Handlers
    BY DEF Sales!Serving
  <2>3. Cardinality(C) \in Nat
    BY <2>2, SomeCounted
  <2> HIDE DEF n
  <2>4. n * (unlinks + 1) = n * unlinks + n
    BY <2>1, OneMore
  <2>5. n * unlinks \in Nat
    BY <2>1
  <2>6. QED
    BY <2>1, <2>3, <2>4, <2>5 DEF SalesRootInv, n
<1>1. ASSUME NEW h \in Handlers, SalesStepOf(h) PROVE SalesRootInv'
  <2>1. \A g \in Handlers \ {h} : frame'[g] = frame[g]
    BY <1>1, SalesFrameStep
  <2>2. C \in SUBSET Handlers /\ D \in SUBSET Handlers /\ D \ {h} = C \ {h}
    BY <2>1 DEF Sales!Serving, Sales!At
  <2>3. /\ Cardinality(D) \in Nat /\ Cardinality(D) <= n
        /\ h \notin D => Cardinality(D) <= Cardinality(C)
        /\ h \in C /\ h \notin D => Cardinality(D) = Cardinality(C) - 1
    BY <2>2, SomeCounted, OneMoves
  <2>4. CASE UNCHANGED <<roots, unlinks>>
    <3>1. (Sales!Linked' = Sales!Linked /\ h \notin D) \/ (Sales!Linked = {} /\ Sales!Linked' = {})
      BY <1>0, <1>1, <2>4, SalesRootCases
    <3>2. roots' + Cardinality(D) <= r + n /\ (Sales!Linked' = {} => roots' <= r)
      <4> HIDE DEF C, D, n, r
      <4>1. QED
        BY <1>0, <2>3, <2>4, <3>1 DEF n
    <3>3. unlinks' = unlinks
      BY <2>4
    <3>4. QED
      BY <1>0, <3>2, <3>3 DEF SalesRootInv
  <2>5. CASE Sales!Linked' # {} /\ roots' = roots + 1 /\ unlinks' = unlinks /\ h \in C /\ h \notin D
    <3>1. roots' + Cardinality(D) <= r + n
      <4> HIDE DEF C, D, n, r
      <4>1. QED
        BY <1>0, <2>3, <2>5
    <3>2. QED
      BY <1>0, <2>5, <3>1 DEF SalesRootInv
  <2>6. CASE roots' = roots /\ unlinks' = unlinks + 1 /\ h \notin D
    <3>1. unlinks' \in Nat
      BY <1>0, <2>6
    <3>2. n * (unlinks' + 1) = n * unlinks' + n
      BY <1>0, <3>1, OneMore
    <3>3. n * unlinks' = r + n
      BY <1>0, <2>6
    <3>4. roots' + Cardinality(D) <= r + n + n /\ roots' <= r + n
      <4> HIDE DEF C, D, n, r
      <4>1. QED
        BY <1>0, <2>3, <2>6
    <3>5. QED
      BY <3>2, <3>3, <3>4 DEF SalesRootInv
  <2>7. QED
    BY <1>1, <2>4, <2>5, <2>6, SalesRootCases
<1>2. CASE Sales!CreateItem
  <2>1. PICK i \in Sales!Items, d \in BOOLEAN, l \in BOOLEAN :
          Sales!NewItem(i, [done |-> d, dated |-> d, linked |-> l, exists |-> TRUE])
    BY <1>2, SalesCount DEF Sales!CreateItem
  <2>2. [done |-> d, dated |-> d, linked |-> l, exists |-> TRUE] \in SalesRows
    BY DEF SalesRows
  <2>3. i \notin Sales!Existing /\ \A j \in Sales!Items \ {i} : item'[j] = item[j]
    BY <2>1, <2>2, SalesMade
  <2>4. Sales!Linked \subseteq Sales!Linked'
    BY <2>3 DEF Sales!Linked, Sales!Existing
  <2>5. UNCHANGED <<frame, roots, unlinks>>
    BY <1>2, SalesCount DEF Sales!CreateItem
  <2>6. Sales!Linked' = {} => Sales!Linked = {}
    BY <2>4
  <2>7. QED
    BY <2>5, <2>6 DEF SalesRootInv, Sales!Serving, Sales!At
<1>3. CASE Sales!CreateDeal \/ Sales!ConvertToDeal \/ UNCHANGED Sales!vars
  BY <1>3 DEF Sales!CreateDeal, Sales!ConvertToDeal, Sales!vars, Sales!salesVars, SalesRootInv,
     Sales!Serving, Sales!At, Sales!Linked, Sales!Existing
<1>4. QED
  BY <1>1, <1>2, <1>3 DEF Sales!Next, SalesStepOf

(* Winning a deal again and again makes one work item to deliver it; only  *)
(* requests that overlap make more, one for each handler, and so again when*)
(* a work item was taken off the deal (markWon).                           *)
THEOREM SalesRoots == Sales!Spec => []Sales!RootsBounded
<1>1. ASSUME Sales!Init PROVE SalesRootInv
  <2>1. Sales!Serving("root") = {}
    BY <1>1 DEF Sales!Init, Sales!ServerInit, Sales!Serving, Sales!At, Sales!Idle
  <2>2. Cardinality({}) = 0
    BY FS_EmptySet
  <2>3. unlinks = 0 /\ roots = 0
    BY <1>1 DEF Sales!Init
  <2>4. Cardinality(Handlers) * (0 + 1) >= 0 /\ Cardinality(Handlers) * 0 >= 0
    BY HandlersCounted
  <2>5. QED
    BY <2>1, <2>2, <2>3, <2>4 DEF SalesRootInv
<1>2. ASSUME Sales!TypeOK, SalesRootInv PROVE Sales!RootsBounded
  <2>1. Sales!Serving("root") \in SUBSET Handlers
    BY DEF Sales!Serving
  <2>2. Cardinality(Sales!Serving("root")) \in Nat /\ roots \in Nat /\ unlinks \in Nat
    BY <1>2, <2>1, SomeCounted, SalesConstants DEF Sales!TypeOK
  <2> DEFINE m == Cardinality(Handlers) * (unlinks + 1)
  <2>3. m \in Nat /\ roots + Cardinality(Sales!Serving("root")) <= m
    BY <1>2, <2>2, HandlersCounted DEF SalesRootInv
  <2>4. 1 + unlinks = unlinks + 1
    BY <2>2
  <2> HIDE DEF m
  <2>5. roots <= m
    BY <2>2, <2>3
  <2>6. QED
    BY <2>4, <2>5, SalesCount DEF Sales!RootsBounded, m
<1>3. QED
  BY <1>1, <1>2, SalesRootStep, SalesTypeCorrect, PTL DEF Sales!Spec

\* Dates of work items.

\* A work item that is made has a date only when it is DONE, and no request has read it.
LEMMA SalesMadeDated ==
  ASSUME Sales!TypeOK, SalesDateInv, NEW i \in Sales!Items, NEW row \in SalesRows, Sales!NewItem(i, row), row.dated <=> row.done,
         disturbed' = disturbed,
         \A h \in Sales!Serving("update")' : h \in Sales!Serving("update") /\ frame'[h] = frame[h]
  PROVE  SalesDateInv'
<1>1. i \notin Sales!Existing /\ item'[i] = row /\ \A j \in Sales!Items \ {i} : item'[j] = item[j]
  BY SalesMade
<1>2. Sales!Existing' \subseteq Sales!Existing \cup {i} /\ Sales!Existing \subseteq Sales!Existing' \cup {i}
  BY <1>1 DEF Sales!Existing
<1>3. \A j \in Sales!Existing' : \/ j = i /\ (item'[j].dated <=> item'[j].done)
                                 \/ j \in Sales!Existing /\ item'[j] = item[j]
  BY <1>1, <1>2 DEF Sales!Existing
<1>4. \A h \in Sales!Serving("update")' : /\ frame'[h].i \in Sales!Existing' /\ frame'[h].i \in Sales!Existing
                                          /\ item'[frame'[h].i] = item[frame[h].i]
  BY <1>1, <1>2 DEF SalesDateInv, Sales!Existing
<1>5. QED
  BY <1>3, <1>4 DEF SalesDateInv

\* A step that leaves the work items alone and lets no request read one.
LEMMA SalesSameDated ==
  ASSUME SalesDateInv, UNCHANGED <<item, disturbed>>,
         \A h \in Sales!Serving("update")' : h \in Sales!Serving("update") /\ frame'[h] = frame[h]
  PROVE  SalesDateInv'
BY DEF SalesDateInv, Sales!Existing

LEMMA SalesDateStep == ASSUME Sales!TypeOK, SalesDateInv, [Sales!Next]_(Sales!vars) PROVE SalesDateInv'
<1>0. frame \in [Handlers -> SalesFrames] /\ Sales!Idle.op = "idle" /\ disturbed \in BOOLEAN
  BY DEF Sales!TypeOK, SalesFrames, Sales!Idle
<1>1. ASSUME NEW h \in Handlers, SalesStepOf(h) PROVE SalesDateInv'
  <2>1. \A g \in Handlers \ {h} : frame'[g] = frame[g]
    BY <1>1, SalesFrameStep
  <2>2. ASSUME frame'[h].op # "update"
        PROVE  \A g \in Sales!Serving("update")' : g \in Sales!Serving("update") /\ frame'[g] = frame[g] /\ g # h
    BY <2>1, <2>2 DEF Sales!Serving, Sales!At
  <2>3. CASE Sales!RootInsert(h)
    <3>1. PICK i \in Sales!Items : Sales!NewItem(i, [done |-> FALSE, dated |-> FALSE, linked |-> TRUE, exists |-> TRUE])
      BY <2>3 DEF Sales!RootInsert
    <3> DEFINE row == [done |-> FALSE, dated |-> FALSE, linked |-> TRUE, exists |-> TRUE]
    <3>2. row \in SalesRows /\ (row.dated <=> row.done)
      BY DEF SalesRows
    <3>3. frame'[h].op # "update" /\ disturbed' = disturbed
      BY <1>0, <2>3 DEF Sales!RootInsert, Sales!Finish, Sales!GoOn
    <3>4. QED
      BY <2>2, <3>1, <3>2, <3>3, SalesMadeDated
  <2>4. CASE Sales!ItemWrite(h)
    <3> DEFINE f == frame[h]
               k == f.i
    <3>1. /\ h \in Sales!Serving("update") /\ frame'[h].op # "update" /\ disturbed' = disturbed
      BY <1>0, <2>4 DEF Sales!ItemWrite, Sales!Finish, Sales!GoOn, Sales!Serving
    <3>2. /\ k \in Sales!Items /\ \A i \in Sales!Items \ {k} : item'[i] = item[i]
          /\ item'[k].exists = item[k].exists
          /\ item'[k].done <=> IF f.to = "same" THEN item[k].done ELSE f.to = "DONE"
          /\ item'[k].dated <=> Sales!Dated(f, item[k].dated)
      BY <2>4, SalesWritten
    <3>3. f.to \in Sales!Statuses /\ k \in Sales!Existing
      BY <3>1, SalesFrameParts DEF Sales!Serving, SalesDateInv
    <3> HIDE DEF k, f
    <3>4. Sales!Existing' = Sales!Existing
      BY <3>2 DEF Sales!Existing
    <3>5. item'[k].done => item'[k].dated
      BY <3>2, <3>3 DEF Sales!Dated, Sales!Statuses, SalesDateInv
    <3>6. \A i \in Sales!Existing' : item'[i].done => item'[i].dated
      BY <3>2, <3>4, <3>5 DEF SalesDateInv, Sales!Existing
    <3>7. \A g \in Sales!Serving("update")' : frame'[g].i \in Sales!Existing'
      BY <2>2, <3>1, <3>4 DEF SalesDateInv
    <3>8. ASSUME ~disturbed'
          PROVE  /\ \A i \in Sales!Existing' : item'[i].dated => item'[i].done
                 /\ \A g, e \in Sales!Serving("update")' : frame'[g].i = frame'[e].i => g = e
                 /\ \A g \in Sales!Serving("update")' : frame'[g].to = "same" /\ frame'[g].done => item'[frame'[g].i].done
      <4>1. ~disturbed
        BY <3>1, <3>8
      <4>2. item'[k].dated => item'[k].done
        <5>1. f.to = "same" /\ f.done => item[k].done
          BY <3>1, <4>1 DEF SalesDateInv, f, k
        <5>2. item[k].dated => item[k].done
          BY <3>3, <4>1 DEF SalesDateInv
        <5>3. QED
          BY <3>2, <3>3, <5>1, <5>2 DEF Sales!Dated, Sales!Statuses
      <4>3. \A i \in Sales!Existing' : item'[i].dated => item'[i].done
        BY <3>2, <3>4, <4>1, <4>2 DEF SalesDateInv, Sales!Existing
      <4>4. \A g \in Sales!Serving("update")' : frame[g].i # k /\ frame[g].i \in Sales!Items
        BY <2>2, <3>1, <4>1 DEF SalesDateInv, f, k, Sales!Existing
      <4>5. \A g \in Sales!Serving("update")' : item'[frame'[g].i] = item[frame[g].i]
        BY <2>2, <3>1, <3>2, <4>4
      <4>6. QED
        BY <2>2, <3>1, <4>1, <4>3, <4>5 DEF SalesDateInv
    <3>9. QED
      BY <3>6, <3>7, <3>8 DEF SalesDateInv
  <2>5. ASSUME NEW i \in Sales!Items, NEW to \in Sales!Statuses, NEW unlink \in BOOLEAN, Sales!ItemRead(h, i, to, unlink)
        PROVE  SalesDateInv'
    <3> DEFINE d == to = "same" /\ item[i].done
    <3>1. /\ i \in Sales!Existing /\ item' = item /\ h \notin Sales!Serving("update")
          /\ disturbed' = (disturbed \/ \E g \in Sales!Serving("update") : frame[g].i = i)
          /\ frame'[h] = [op |-> "update", i |-> i, to |-> to, unlink |-> unlink, done |-> d]
      BY <1>0, <2>5 DEF Sales!ItemRead, Sales!Serve, Sales!Serving, Sales!At
    <3>2. frame'[h].op = "update" /\ frame'[h].i = i /\ frame'[h].to = to /\ frame'[h].done = d
      <4> HIDE DEF d
      <4>1. QED
        BY <3>1
    <3>3. \A g \in Sales!Serving("update")' : g = h \/ (g \in Sales!Serving("update") /\ frame'[g] = frame[g])
      BY <2>1 DEF Sales!Serving, Sales!At
    <3>4. Sales!Existing' = Sales!Existing
      BY <3>1 DEF Sales!Existing
    <3>5. \A g \in Sales!Serving("update")' : frame'[g].i \in Sales!Existing'
      BY <3>1, <3>2, <3>3, <3>4 DEF SalesDateInv
    <3>6. ASSUME ~disturbed'
          PROVE  /\ ~disturbed
                 /\ \A g, e \in Sales!Serving("update")' : frame'[g].i = frame'[e].i => g = e
                 /\ \A g \in Sales!Serving("update")' : frame'[g].to = "same" /\ frame'[g].done => item'[frame'[g].i].done
      <4>1. ~disturbed /\ \A g \in Sales!Serving("update") : frame[g].i # i
        BY <3>1, <3>6
      <4>2. /\ \A g, e \in Sales!Serving("update") : frame[g].i = frame[e].i => g = e
            /\ \A g \in Sales!Serving("update") : frame[g].to = "same" /\ frame[g].done => item[frame[g].i].done
        BY <4>1 DEF SalesDateInv
      <4>3. frame'[h].to = "same" /\ frame'[h].done => item[i].done
        BY <3>2
      <4>4. \A g, e \in Sales!Serving("update")' : frame'[g].i = frame'[e].i => g = e
        BY <3>2, <3>3, <4>1, <4>2
      <4>5. \A g \in Sales!Serving("update")' : frame'[g].to = "same" /\ frame'[g].done => item'[frame'[g].i].done
        BY <3>1, <3>2, <3>3, <4>2, <4>3
      <4>6. QED
        BY <4>1, <4>4, <4>5
    <3>7. QED
      BY <3>1, <3>4, <3>5, <3>6 DEF SalesDateInv
  <2>6. CASE \/ Sales!UpdateDeal(h) \/ Sales!MarkWon(h) \/ Sales!MarkLost(h) \/ Sales!RootLookUp(h) \/ Sales!Lost(h)
             \/ \E f \in [op : {"won", "lost"}] \cup [op : {"stage"}, to : {"OPEN", "WON", "LOST"}] : Sales!DealRead(h, f)
    <3>1. UNCHANGED <<item, disturbed>>
      BY <2>6 DEF Sales!UpdateDeal, Sales!MarkWon, Sales!MarkLost, Sales!RootLookUp, Sales!Lost,
         Sales!SetStage, Sales!DealRead, Sales!salesVars
    <3>2. frame'[h].op # "update"
      <4>1. CASE Sales!UpdateDeal(h) \/ Sales!MarkWon(h) \/ Sales!MarkLost(h) \/ Sales!RootLookUp(h) \/ Sales!Lost(h)
        <5>1. frame'[h] = Sales!Idle \/ frame'[h] = [op |-> "root?"] \/ frame'[h] = [op |-> "root"]
          BY <1>0, <4>1 DEF Sales!UpdateDeal, Sales!MarkWon, Sales!MarkLost, Sales!RootLookUp, Sales!Lost,
             Sales!Drop, Sales!Finish, Sales!GoOn
        <5>2. QED
          BY <1>0, <5>1
      <4>2. ASSUME NEW f \in [op : {"won", "lost"}] \cup [op : {"stage"}, to : {"OPEN", "WON", "LOST"}], Sales!DealRead(h, f)
            PROVE  frame'[h].op # "update"
        <5>1. frame'[h] = f
          BY <1>0, <4>2 DEF Sales!DealRead, Sales!Serve
        <5>2. QED
          BY <5>1
      <4>3. QED
        BY <2>6, <4>1, <4>2
    <3>3. QED
      BY <2>2, <3>1, <3>2, SalesSameDated
  <2>7. QED
    BY <1>1, <2>3, <2>4, <2>5, <2>6 DEF SalesStepOf
<1>2. CASE Sales!CreateItem
  <2>1. PICK i \in Sales!Items, d \in BOOLEAN, l \in BOOLEAN :
          Sales!NewItem(i, [done |-> d, dated |-> d, linked |-> l, exists |-> TRUE])
    BY <1>2, SalesCount DEF Sales!CreateItem
  <2> DEFINE row == [done |-> d, dated |-> d, linked |-> l, exists |-> TRUE]
  <2>2. row \in SalesRows /\ (row.dated <=> row.done)
    BY DEF SalesRows
  <2>3. frame' = frame /\ disturbed' = disturbed
    BY <1>2, SalesCount DEF Sales!CreateItem
  <2>4. QED
    BY <2>1, <2>2, <2>3, SalesMadeDated DEF Sales!Serving, Sales!At
<1>3. CASE Sales!CreateDeal \/ Sales!ConvertToDeal \/ UNCHANGED Sales!vars
  <2>1. UNCHANGED <<frame, item, disturbed>>
    BY <1>3 DEF Sales!CreateDeal, Sales!ConvertToDeal, Sales!vars, Sales!salesVars
  <2>2. QED
    BY <2>1, SalesSameDated DEF Sales!Serving, Sales!At
<1>4. QED
  BY <1>1, <1>2, <1>3 DEF Sales!Next, SalesStepOf

(* A DONE work item has a completedAt, whatever order updates write in, and*)
(* with updates one after the other only DONE items have one, for any      *)
(* number of requests and items (update, transition, complete).            *)
THEOREM SalesDates == Sales!Spec => []Sales!DatesFollowStatus
<1>1. ASSUME Sales!Init PROVE SalesDateInv
  <2>1. Sales!Serving("update") = {}
    BY <1>1 DEF Sales!Init, Sales!ServerInit, Sales!Serving, Sales!At, Sales!Idle
  <2>2. Sales!Existing = {}
    BY <1>1 DEF Sales!Init, Sales!Existing, Sales!NoItem
  <2>3. QED
    BY <2>1, <2>2 DEF SalesDateInv
<1>2. SalesDateInv => Sales!DatesFollowStatus
  BY DEF SalesDateInv, Sales!DatesFollowStatus
<1>3. QED
  BY <1>1, <1>2, SalesDateStep, SalesTypeCorrect, PTL DEF Sales!Spec

-----------------------------------------------------------------------------
(* Jobs, their attempts and their ticks.                                   *)

\* Sets are counted as everywhere.
LEMMA JobsCount ==
  \A S : Jobs!IsFiniteSet(S) = IsFiniteSet(S) /\ Jobs!Cardinality(S) = Cardinality(S)
BY DEF Jobs!IsFiniteSet, IsFiniteSet, Jobs!Cardinality, Cardinality

JobsFrames == {Jobs!Idle} \cup [op : {"list"}, pattern : Patterns]
              \cup [op : {"remove"}, pattern : Patterns, found : SUBSET Patterns]
              \cup [op : {"tick"}, org : Organizations \cup {Cardinality(Organizations) + 1}]
              \cup [op : {"record"}]

\* A step of the request h.
JobsStepOf(h) ==
  \/ \E p \in Patterns : Jobs!ReloadBegin(h, p)
  \/ Jobs!ReloadList(h) \/ Jobs!ReloadRemove(h) \/ Jobs!ReloadAdd(h)
  \/ Jobs!TickBegin(h) \/ Jobs!TickEnqueue(h) \/ Jobs!TickComplete(h) \/ Jobs!TickFails(h)
  \/ Jobs!LetterBegin(h) \/ Jobs!LetterRecord(h) \/ Jobs!Lost(h)

\* While reloads follow each other, what the last has found is what is registered.
JobsReloadInv ==
  ~mixed =>
    /\ \A g, h \in Jobs!Reloading : g = h
    /\ \A h \in Jobs!Serving("remove") : registered = frame[h].found
    /\ Jobs!Reloading = {} /\ current # Jobs!NotSet => registered = {current}

\* A stalled attempt does not count, and an attempt begins only when one is left.
JobsAttemptInv ==
  /\ attempts <= stalls + MaxAttempts
  /\ tick \in {"due", "waiting"} => attempts < stalls + MaxAttempts

\* One worker has the tick; each attempt that is over stalled, failed with a letter, or completed.
JobsTickInv ==
  /\ \A g, h \in Jobs!Serving("tick") : g = h
  /\ tick = "active" <=> Jobs!Serving("tick") # {}
  /\ letters + recorded + Cardinality(Jobs!Serving("record")) + stalls + (IF tick = "active" THEN 1 ELSE 0) <= attempts

\* An attempt reaches the organizations in their order, each once.
JobsOrgInv ==
  /\ \A o \in Organizations : enqueued[o] <= attempts
  /\ \A h \in Jobs!Serving("tick"), o \in Organizations :
       IF o < frame[h].org THEN enqueued[o] > 0 ELSE enqueued[o] < attempts
  /\ tick = "completed" => \A o \in Organizations : enqueued[o] > 0

\* Types.

LEMMA JobsOrgsNumbered == Cardinality(Organizations) \in Nat /\ Organizations = 1..Cardinality(Organizations)
BY JobConstants, FS_CardinalityType

LEMMA JobsFrameParts ==
  ASSUME Jobs!TypeOK, NEW h \in Handlers
  PROVE  /\ frame[h].op \in {"idle", "list", "remove", "tick", "record"}
         /\ Jobs!At(h, "list") => frame[h].pattern \in Patterns
         /\ Jobs!At(h, "remove") => /\ frame[h].pattern \in Patterns /\ frame[h].found \in SUBSET Patterns
                                    /\ frame[h] = [op |-> "remove", pattern |-> frame[h].pattern, found |-> frame[h].found]
         /\ Jobs!At(h, "tick") => /\ frame[h].org \in 1..(Cardinality(Organizations) + 1)
                                  /\ frame[h] = [op |-> "tick", org |-> frame[h].org]
<1> DEFINE O == Organizations \cup {Cardinality(Organizations) + 1}
<1>1. O = 1..(Cardinality(Organizations) + 1)
  BY JobsOrgsNumbered
<1> HIDE DEF O
<1>2. frame[h] \in {Jobs!Idle} \cup [op : {"list"}, pattern : Patterns]
                   \cup [op : {"remove"}, pattern : Patterns, found : SUBSET Patterns]
                   \cup [op : {"tick"}, org : O]
                   \cup [op : {"record"}]
  BY JobsCount DEF Jobs!TypeOK, O
<1>3. QED
  BY <1>1, <1>2 DEF Jobs!At, Jobs!Idle

\* Where a step of h takes it, and what the step reads.
LEMMA JobsTurns ==
  ASSUME Jobs!TypeOK, NEW h \in Handlers, JobsStepOf(h)
  PROVE  /\ frame[h].op \in {"idle", "list", "remove", "tick", "record"}
         /\ \/ \E p \in Patterns :
                 Jobs!ReloadBegin(h, p) /\ frame[h].op = "idle" /\ frame' = [frame EXCEPT ![h] = [op |-> "list", pattern |-> p]]
            \/ \E p \in Patterns :
                 /\ Jobs!ReloadList(h) /\ frame[h].op = "list"
                 /\ frame' = [frame EXCEPT ![h] = [op |-> "remove", pattern |-> p, found |-> registered]]
            \/ \E p \in Patterns, q \in frame[h].found, s \in SUBSET Patterns :
                 /\ Jobs!ReloadRemove(h) /\ frame[h].op = "remove" /\ registered' = registered \ {q}
                 /\ s = frame[h].found \ {q}
                 /\ frame' = [frame EXCEPT ![h] = [op |-> "remove", pattern |-> p, found |-> s]]
            \/ /\ Jobs!TickBegin(h) /\ frame[h].op = "idle" /\ frame' = [frame EXCEPT ![h] = [op |-> "tick", org |-> 1]]
            \/ /\ Jobs!TickEnqueue(h) /\ frame[h].op = "tick"
               /\ frame' = [frame EXCEPT ![h] = [op |-> "tick", org |-> frame[h].org + 1]]
            \/ Jobs!LetterBegin(h) /\ frame[h].op = "idle" /\ frame' = [frame EXCEPT ![h] = [op |-> "record"]]
            \/ /\ \/ Jobs!ReloadAdd(h) /\ frame[h].op = "remove"
                  \/ Jobs!TickComplete(h) /\ frame[h].op = "tick"
                  \/ Jobs!TickFails(h) /\ frame[h].op = "tick"
                  \/ Jobs!LetterRecord(h) /\ frame[h].op = "record"
                  \/ Jobs!Lost(h)
               /\ frame' = [frame EXCEPT ![h] = Jobs!Idle]
<1>0. frame[h].op \in {"idle", "list", "remove", "tick", "record"} /\ Jobs!Idle.op = "idle"
  BY JobsFrameParts DEF Jobs!Idle
<1>1. ASSUME NEW p \in Patterns, Jobs!ReloadBegin(h, p)
      PROVE  frame[h].op = "idle" /\ frame' = [frame EXCEPT ![h] = [op |-> "list", pattern |-> p]]
  BY <1>0, <1>1 DEF Jobs!ReloadBegin, Jobs!Serve
<1>2. CASE Jobs!ReloadList(h)
  <2>1. /\ frame[h].op = "list" /\ frame[h].pattern \in Patterns
        /\ frame' = [frame EXCEPT ![h] = [op |-> "remove", pattern |-> frame[h].pattern, found |-> registered]]
    BY <1>2, JobsFrameParts DEF Jobs!ReloadList, Jobs!GoOn, Jobs!At
  <2>2. QED
    BY <1>0, <1>2, <2>1
<1>3. CASE Jobs!ReloadRemove(h)
  <2>1. PICK q \in frame[h].found : /\ registered' = registered \ {q}
                                    /\ frame' = [frame EXCEPT ![h] = [frame[h] EXCEPT !.found = @ \ {q}]]
    BY <1>3 DEF Jobs!ReloadRemove, Jobs!GoOn
  <2>2. /\ frame[h].op = "remove" /\ frame[h].pattern \in Patterns /\ frame[h].found \in SUBSET Patterns
        /\ frame[h] = [op |-> "remove", pattern |-> frame[h].pattern, found |-> frame[h].found]
    BY <1>3, JobsFrameParts DEF Jobs!ReloadRemove, Jobs!At
  <2> DEFINE p == frame[h].pattern
             e == frame[h].found
             s == e \ {q}
  <2>3. frame[h] = [op |-> "remove", pattern |-> p, found |-> e]
    BY <2>2
  <2>4. ASSUME NEW f, f = [op |-> "remove", pattern |-> p, found |-> e]
        PROVE  [f EXCEPT !.found = @ \ {q}] = [op |-> "remove", pattern |-> p, found |-> e \ {q}]
    <3> HIDE DEF p, e
    <3>1. QED
      BY <2>4
  <2>5. [frame[h] EXCEPT !.found = @ \ {q}] = [op |-> "remove", pattern |-> p, found |-> s]
    BY <2>3, <2>4
  <2>6. s \in SUBSET Patterns
    BY <2>2
  <2>7. /\ Jobs!ReloadRemove(h) /\ frame[h].op = "remove" /\ registered' = registered \ {q}
        /\ s = frame[h].found \ {q} /\ p \in Patterns
        /\ frame' = [frame EXCEPT ![h] = [op |-> "remove", pattern |-> p, found |-> s]]
    BY <1>3, <2>1, <2>2, <2>5
  <2> HIDE DEF p, s
  <2>8. QED
    BY <1>0, <2>6, <2>7
<1>4. CASE Jobs!TickBegin(h)
  BY <1>0, <1>4 DEF Jobs!TickBegin, Jobs!Serve
<1>5. CASE Jobs!TickEnqueue(h)
  <2>1. frame[h].op = "tick" /\ frame[h] = [op |-> "tick", org |-> frame[h].org]
        /\ frame' = [frame EXCEPT ![h] = [frame[h] EXCEPT !.org = @ + 1]]
    BY <1>5, JobsFrameParts DEF Jobs!TickEnqueue, Jobs!At, Jobs!GoOn
  <2> DEFINE o == frame[h].org
  <2>2. ASSUME NEW f, f = [op |-> "tick", org |-> o]
        PROVE  [f EXCEPT !.org = @ + 1] = [op |-> "tick", org |-> o + 1]
    <3> HIDE DEF o
    <3>1. QED
      BY <2>2
  <2>3. [frame[h] EXCEPT !.org = @ + 1] = [op |-> "tick", org |-> o + 1]
    BY <2>1, <2>2
  <2>4. QED
    BY <1>0, <1>5, <2>1, <2>3
<1>6. CASE Jobs!LetterBegin(h)
  BY <1>0, <1>6 DEF Jobs!LetterBegin, Jobs!Serve
<1>7. CASE Jobs!ReloadAdd(h) \/ Jobs!TickComplete(h) \/ Jobs!TickFails(h) \/ Jobs!LetterRecord(h) \/ Jobs!Lost(h)
  BY <1>0, <1>7 DEF Jobs!ReloadAdd, Jobs!TickComplete, Jobs!TickFails, Jobs!LetterRecord, Jobs!Lost,
     Jobs!Drop, Jobs!Finish, Jobs!GoOn, Jobs!At
<1>8. QED
  BY <1>0, <1>1, <1>2, <1>3, <1>4, <1>5, <1>6, <1>7 DEF JobsStepOf

LEMMA JobsFrameStep ==
  ASSUME Jobs!TypeOK, NEW h \in Handlers, JobsStepOf(h)
  PROVE  /\ frame' \in [Handlers -> JobsFrames]
         /\ \A g \in Handlers \ {h} : frame'[g] = frame[g]
<1>1. ASSUME NEW f \in JobsFrames, frame' = [frame EXCEPT ![h] = f]
      PROVE  /\ frame' \in [Handlers -> JobsFrames]
             /\ \A g \in Handlers \ {h} : frame'[g] = frame[g]
  BY <1>1, JobsCount DEF Jobs!TypeOK, JobsFrames
<1>2. Jobs!Idle \in JobsFrames /\ [op |-> "record"] \in JobsFrames
  BY DEF JobsFrames
<1>3. \A p \in Patterns, s \in SUBSET Patterns :
        [op |-> "list", pattern |-> p] \in JobsFrames /\ [op |-> "remove", pattern |-> p, found |-> s] \in JobsFrames
  BY DEF JobsFrames
<1>4. \A o \in 1..(Cardinality(Organizations) + 1) : [op |-> "tick", org |-> o] \in JobsFrames
  <2>1. 1..(Cardinality(Organizations) + 1) \subseteq Organizations \cup {Cardinality(Organizations) + 1}
    BY JobsOrgsNumbered
  <2>2. QED
    BY <2>1 DEF JobsFrames
<1>5. 1 \in 1..(Cardinality(Organizations) + 1)
  BY JobsOrgsNumbered
<1>6. Jobs!TickEnqueue(h) => frame[h].org + 1 \in 1..(Cardinality(Organizations) + 1)
  BY JobsOrgsNumbered DEF Jobs!TickEnqueue
<1>7. registered \in SUBSET Patterns
  BY JobsCount DEF Jobs!TypeOK
<1>8. \E f \in JobsFrames : frame' = [frame EXCEPT ![h] = f]
  BY <1>2, <1>3, <1>4, <1>5, <1>6, <1>7, JobsTurns
<1>9. QED
  BY <1>1, <1>8

LEMMA JobsTypeStep == ASSUME Jobs!TypeOK, JobsAttemptInv, [Jobs!Next]_(Jobs!vars)
                      PROVE  Jobs!TypeOK' /\ JobsAttemptInv'
<1> DEFINE F == JobsFrames
           Kept == /\ frame \in [Handlers -> F]
                   /\ registered \subseteq Patterns /\ current \in Patterns \cup {Jobs!NotSet} /\ mixed \in BOOLEAN
           Counts == /\ tick \in {"due", "waiting", "active", "completed", "failed"}
                     /\ attempts \in 0..(MaxAttempts + MaxStalls) /\ stalls \in 0..MaxStalls
                     /\ enqueued \in [Organizations -> Nat] /\ letters \in Nat /\ recorded \in Nat
<1>1. Jobs!TypeOK <=> Kept /\ Counts
  BY JobsCount DEF Jobs!TypeOK, JobsFrames
<1>2. Jobs!TypeOK' <=> Kept' /\ Counts'
  BY JobsCount DEF Jobs!TypeOK, JobsFrames
<1>3. Kept /\ Counts /\ stalls \in Nat /\ attempts \in Nat
  BY <1>1, JobConstants
<1> SUFFICES Kept' /\ Counts' /\ JobsAttemptInv'
  BY <1>2
<1>4. ASSUME NEW h \in Handlers, JobsStepOf(h) PROVE Kept' /\ Counts' /\ JobsAttemptInv'
  <2>1. frame' \in [Handlers -> F]
    BY <1>4, JobsFrameStep
  <2>2. CASE Jobs!ReloadAdd(h)
    <3>1. frame[h].pattern \in Patterns
      BY <2>2, JobsFrameParts DEF Jobs!ReloadAdd
    <3> HIDE DEF F
    <3>2. QED
      BY <1>3, <2>1, <2>2, <3>1 DEF Jobs!ReloadAdd, Jobs!tickVars, JobsAttemptInv
  <2> HIDE DEF F
  <2>3. CASE (\E p \in Patterns : Jobs!ReloadBegin(h, p)) \/ Jobs!ReloadList(h)
    BY <1>3, <2>1, <2>3 DEF Jobs!ReloadBegin, Jobs!ReloadList, Jobs!tickVars, Jobs!scheduleVars, JobsAttemptInv
  <2>4. CASE Jobs!ReloadRemove(h)
    BY <1>3, <2>1, <2>4 DEF Jobs!ReloadRemove, Jobs!tickVars, JobsAttemptInv
  <2>5. CASE Jobs!TickBegin(h)
    <3>1. attempts < stalls + MaxAttempts /\ attempts' = attempts + 1 /\ stalls' = stalls /\ tick' = "active"
      BY <2>5 DEF Jobs!TickBegin, JobsAttemptInv
    <3>2. attempts' \in 0..(MaxAttempts + MaxStalls) /\ JobsAttemptInv'
      BY <1>3, <3>1, JobConstants DEF JobsAttemptInv
    <3>3. QED
      BY <1>3, <2>1, <2>5, <3>2 DEF Jobs!TickBegin, Jobs!scheduleVars
  <2>6. CASE Jobs!TickEnqueue(h)
    <3>1. enqueued' \in [Organizations -> Nat]
      BY <1>3, <2>6 DEF Jobs!TickEnqueue
    <3>2. QED
      BY <1>3, <2>1, <2>6, <3>1 DEF Jobs!TickEnqueue, Jobs!scheduleVars, JobsAttemptInv
  <2>7. CASE Jobs!TickComplete(h)
    BY <1>3, <2>1, <2>7 DEF Jobs!TickComplete, Jobs!scheduleVars, JobsAttemptInv
  <2>8. CASE Jobs!TickFails(h)
    <3>1. JobsAttemptInv'
      BY <1>3, <2>8, JobConstants DEF Jobs!TickFails, JobsAttemptInv
    <3>2. QED
      BY <1>3, <2>1, <2>8, <3>1 DEF Jobs!TickFails, Jobs!scheduleVars
  <2>9. CASE Jobs!LetterBegin(h) \/ Jobs!LetterRecord(h)
    BY <1>3, <2>1, <2>9 DEF Jobs!LetterBegin, Jobs!LetterRecord, Jobs!scheduleVars, JobsAttemptInv
  <2>10. CASE Jobs!Lost(h)
    <3>1. \/ tick' = tick /\ stalls' = stalls
          \/ tick' = "waiting" /\ stalls' = stalls + 1 /\ stalls < MaxStalls
          \/ tick' = "failed" /\ stalls' = stalls
      BY <2>10 DEF Jobs!Lost
    <3>2. JobsAttemptInv' /\ stalls' \in 0..MaxStalls /\ tick' \in {"due", "waiting", "active", "completed", "failed"}
      BY <1>3, <2>10, <3>1, JobConstants DEF Jobs!Lost, JobsAttemptInv
    <3>3. letters' \in Nat /\ mixed' \in BOOLEAN
      BY <1>3, <2>10 DEF Jobs!Lost
    <3>4. QED
      BY <1>3, <2>1, <2>10, <3>2, <3>3 DEF Jobs!Lost
  <2>11. QED
    BY <1>4, <2>2, <2>3, <2>4, <2>5, <2>6, <2>7, <2>8, <2>9, <2>10 DEF JobsStepOf
<1>5. CASE Jobs!Fire \/ UNCHANGED Jobs!vars
  <2> HIDE DEF F
  <2>1. QED
    BY <1>3, <1>5 DEF Jobs!Fire, Jobs!vars, Jobs!scheduleVars, Jobs!tickVars, JobsAttemptInv
<1>6. QED
  BY <1>4, <1>5 DEF Jobs!Next, JobsStepOf

LEMMA JobsTypeHolds == Jobs!Spec => [](Jobs!TypeOK /\ JobsAttemptInv)
<1>1. ASSUME Jobs!Init PROVE Jobs!TypeOK /\ JobsAttemptInv
  <2>1. frame \in [Handlers -> {Jobs!Idle}]
    BY <1>1 DEF Jobs!Init, Jobs!ServerInit
  <2>2. attempts \in 0..(MaxAttempts + MaxStalls) /\ stalls \in 0..MaxStalls /\ JobsAttemptInv
    BY <1>1, JobConstants DEF Jobs!Init, JobsAttemptInv
  <2>3. enqueued \in [Organizations -> Nat]
    BY <1>1 DEF Jobs!Init
  <2>4. QED
    BY <1>1, <2>1, <2>2, <2>3, JobsCount DEF Jobs!Init, Jobs!TypeOK
<1>2. QED
  BY <1>1, JobsTypeStep, PTL DEF Jobs!Spec

(* The schedule, the tick and its letters keep their types, for any        *)
(* organizations and attempts (SchedulerService, startJobWorkers).         *)
THEOREM JobsTypeCorrect == Jobs!Spec => []Jobs!TypeOK
BY JobsTypeHolds, PTL

\* Registration.

LEMMA JobsReloadStep == ASSUME Jobs!TypeOK, JobsReloadInv, [Jobs!Next]_(Jobs!vars) PROVE JobsReloadInv'
<1>0. frame \in [Handlers -> JobsFrames] /\ Jobs!Idle.op = "idle" /\ mixed \in BOOLEAN
  BY JobsCount DEF Jobs!TypeOK, JobsFrames, Jobs!Idle
<1>1. ASSUME NEW h \in Handlers, JobsStepOf(h) PROVE JobsReloadInv'
  <2>1. \A g \in Handlers \ {h} : frame'[g] = frame[g]
    BY <1>1, JobsFrameStep
  <2>2. SUFFICES ASSUME ~mixed'
                 PROVE  /\ \A f, g \in Jobs!Reloading' : f = g
                        /\ \A g \in Jobs!Serving("remove")' : registered' = frame'[g].found
                        /\ Jobs!Reloading' = {} /\ current' # Jobs!NotSet => registered' = {current'}
    BY DEF JobsReloadInv
  <2>3. ASSUME ~mixed, h \in Jobs!Reloading PROVE \A g \in Jobs!Reloading' : g = h
    BY <2>1, <2>3 DEF JobsReloadInv, Jobs!Reloading, Jobs!Serving, Jobs!At
  <2>4. ASSUME NEW p \in Patterns, Jobs!ReloadBegin(h, p), frame' = [frame EXCEPT ![h] = [op |-> "list", pattern |-> p]]
        PROVE  \A g \in Jobs!Reloading' : g = h /\ frame'[g].op = "list"
    <3>1. frame'[h] = [op |-> "list", pattern |-> p]
      BY <1>0, <2>4
    <3>2. frame'[h].op = "list"
      BY <3>1
    <3>3. Jobs!Reloading = {}
      BY <2>2, <2>4 DEF Jobs!ReloadBegin
    <3>4. QED
      BY <2>1, <3>2, <3>3 DEF Jobs!Reloading, Jobs!Serving, Jobs!At
  <2>5. ASSUME NEW p \in Patterns, Jobs!ReloadBegin(h, p), frame' = [frame EXCEPT ![h] = [op |-> "list", pattern |-> p]]
        PROVE  h \in Jobs!Reloading'
    <3>1. frame'[h] = [op |-> "list", pattern |-> p]
      BY <1>0, <2>5
    <3>2. frame'[h].op = "list"
      BY <3>1
    <3>3. QED
      BY <3>2 DEF Jobs!Reloading, Jobs!Serving, Jobs!At
  <2>6. CASE \E p \in Patterns : Jobs!ReloadBegin(h, p) /\ frame' = [frame EXCEPT ![h] = [op |-> "list", pattern |-> p]]
    BY <2>4, <2>5, <2>6 DEF Jobs!Serving, Jobs!At, Jobs!Reloading
  <2>7. ASSUME NEW p \in Patterns, Jobs!ReloadList(h), frame[h].op = "list",
               frame' = [frame EXCEPT ![h] = [op |-> "remove", pattern |-> p, found |-> registered]]
        PROVE  JobsReloadInv'
    <3>1. frame'[h] = [op |-> "remove", pattern |-> p, found |-> registered]
      BY <1>0, <2>7
    <3>2. frame'[h].op = "remove" /\ frame'[h].found = registered
      BY <3>1
    <3>3. ~mixed /\ registered' = registered /\ h \in Jobs!Reloading /\ h \in Jobs!Reloading'
      BY <2>2, <2>7, <3>2 DEF Jobs!ReloadList, Jobs!scheduleVars, Jobs!Reloading, Jobs!Serving, Jobs!At
    <3>4. QED
      BY <2>3, <3>2, <3>3 DEF JobsReloadInv, Jobs!Reloading
  <2>8. ASSUME NEW p \in Patterns, NEW q, NEW s, Jobs!ReloadRemove(h), frame[h].op = "remove",
               registered' = registered \ {q}, s = frame[h].found \ {q},
               frame' = [frame EXCEPT ![h] = [op |-> "remove", pattern |-> p, found |-> s]]
        PROVE  JobsReloadInv'
    <3>1. frame'[h] = [op |-> "remove", pattern |-> p, found |-> s]
      BY <1>0, <2>8
    <3>2. frame'[h].op = "remove" /\ frame'[h].found = s
      BY <3>1
    <3>3. ~mixed /\ h \in Jobs!Serving("remove") /\ h \in Jobs!Reloading /\ h \in Jobs!Reloading'
      BY <2>2, <2>8, <3>2 DEF Jobs!ReloadRemove, Jobs!Reloading, Jobs!Serving, Jobs!At
    <3>4. registered = frame[h].found
      BY <3>3 DEF JobsReloadInv
    <3>5. QED
      BY <2>3, <2>8, <3>2, <3>3, <3>4 DEF JobsReloadInv, Jobs!Reloading
  <2>9. CASE Jobs!ReloadAdd(h) /\ frame[h].op = "remove" /\ frame' = [frame EXCEPT ![h] = Jobs!Idle]
    <3>1. /\ ~mixed /\ h \in Jobs!Serving("remove") /\ h \in Jobs!Reloading /\ frame[h].found = {}
          /\ registered' = registered \cup {frame[h].pattern} /\ current' = frame[h].pattern
      BY <2>2, <2>9 DEF Jobs!ReloadAdd, Jobs!Reloading, Jobs!Serving, Jobs!At
    <3>2. registered = {}
      BY <3>1 DEF JobsReloadInv
    <3>3. h \notin Jobs!Reloading'
      BY <1>0, <2>9 DEF Jobs!Reloading, Jobs!Serving, Jobs!At
    <3>4. Jobs!Reloading' = {}
      BY <2>3, <3>1, <3>3
    <3>5. QED
      BY <3>1, <3>2, <3>4 DEF Jobs!Reloading
  <2>10. ASSUME UNCHANGED <<registered, current, mixed>>, h \notin Jobs!Reloading, h \notin Jobs!Reloading'
         PROVE  JobsReloadInv'
    <3>1. Jobs!Reloading' = Jobs!Reloading /\ Jobs!Serving("remove")' = Jobs!Serving("remove")
          /\ \A g \in Jobs!Serving("remove") : frame'[g] = frame[g]
      BY <2>1, <2>10 DEF Jobs!Reloading, Jobs!Serving, Jobs!At
    <3>2. QED
      BY <2>10, <3>1 DEF JobsReloadInv
  <2>11. CASE /\ Jobs!TickBegin(h) \/ Jobs!TickEnqueue(h) \/ Jobs!LetterBegin(h) \/ Jobs!TickComplete(h) \/ Jobs!TickFails(h) \/ Jobs!LetterRecord(h)
    <3>1. UNCHANGED <<registered, current, mixed>>
      BY <2>11 DEF Jobs!TickBegin, Jobs!TickEnqueue, Jobs!LetterBegin, Jobs!TickComplete, Jobs!TickFails,
         Jobs!LetterRecord, Jobs!scheduleVars
    <3>2. frame[h].op \notin {"list", "remove"} /\ frame'[h].op \notin {"list", "remove"}
      <4>1. CASE Jobs!TickBegin(h) \/ Jobs!LetterBegin(h) \/ Jobs!TickComplete(h) \/ Jobs!TickFails(h) \/ Jobs!LetterRecord(h)
        BY <1>0, <4>1 DEF Jobs!TickBegin, Jobs!LetterBegin, Jobs!TickComplete, Jobs!TickFails,
           Jobs!LetterRecord, Jobs!Serve, Jobs!Finish, Jobs!GoOn, Jobs!At
      <4>2. CASE Jobs!TickEnqueue(h)
        <5>1. frame[h].op = "tick" /\ frame[h] = [op |-> "tick", org |-> frame[h].org]
              /\ frame'[h] = [frame[h] EXCEPT !.org = @ + 1]
          BY <1>0, <4>2, JobsFrameParts DEF Jobs!TickEnqueue, Jobs!GoOn, Jobs!At
        <5>2. frame'[h].op = frame[h].op
          BY <5>1
        <5>3. QED
          BY <5>1, <5>2
      <4>3. QED
        BY <2>11, <4>1, <4>2
    <3>3. h \notin Jobs!Reloading /\ h \notin Jobs!Reloading'
      BY <3>2 DEF Jobs!Reloading, Jobs!Serving, Jobs!At
    <3>4. QED
      BY <2>2, <2>10, <3>1, <3>3 DEF JobsReloadInv
  <2>12. CASE Jobs!Lost(h)
    <3>1. ~mixed /\ h \notin Jobs!Reloading /\ UNCHANGED <<registered, current, mixed>>
      BY <1>0, <2>2, <2>12 DEF Jobs!Lost
    <3>2. frame'[h].op = "idle"
      BY <1>0, <2>12 DEF Jobs!Lost, Jobs!Drop, Jobs!Finish, Jobs!GoOn
    <3>3. h \notin Jobs!Reloading'
      BY <3>2 DEF Jobs!Reloading, Jobs!Serving, Jobs!At
    <3>4. QED
      BY <2>2, <2>10, <3>1, <3>3 DEF JobsReloadInv
  <2>13. QED
    <3> DEFINE Goal == /\ \A f, g \in Jobs!Reloading' : f = g
                       /\ \A g \in Jobs!Serving("remove")' : registered' = frame'[g].found
                       /\ Jobs!Reloading' = {} /\ current' # Jobs!NotSet => registered' = {current'}
    <3>1. JobsReloadInv' => Goal
      BY <2>2 DEF JobsReloadInv
    <3>2. (Jobs!ReloadAdd(h) /\ frame[h].op = "remove" /\ frame' = [frame EXCEPT ![h] = Jobs!Idle]) => Goal
      BY <2>9
    <3>3. (\E p \in Patterns : Jobs!ReloadBegin(h, p) /\ frame' = [frame EXCEPT ![h] = [op |-> "list", pattern |-> p]]) => Goal
      BY <2>6
    <3>4. Jobs!Lost(h) => Goal
      BY <2>12
    <3>5. (Jobs!TickBegin(h) \/ Jobs!TickEnqueue(h) \/ Jobs!LetterBegin(h) \/ Jobs!TickComplete(h) \/ Jobs!TickFails(h) \/ Jobs!LetterRecord(h)) => Goal
      BY <2>11
    <3> HIDE DEF Goal
    <3>6. Goal
      BY <1>1, <2>7, <2>8, <3>1, <3>2, <3>3, <3>4, <3>5, JobsTurns
    <3>7. QED
      BY <3>6 DEF Goal
<1>2. CASE Jobs!Fire \/ UNCHANGED Jobs!vars
  BY <1>2 DEF Jobs!Fire, Jobs!vars, Jobs!scheduleVars, JobsReloadInv, Jobs!Reloading, Jobs!Serving, Jobs!At
<1>3. QED
  BY <1>1, <1>2 DEF Jobs!Next, JobsStepOf

(* Deployments that start one after the other leave the schedule with one  *)
(* pattern, that of the last, for any patterns (SchedulerService.reload).  *)
THEOREM JobsRegistered == Jobs!Spec => []Jobs!RegisteredOnce
<1>1. ASSUME Jobs!Init PROVE JobsReloadInv
  <2>1. Jobs!Reloading = {}
    BY <1>1 DEF Jobs!Init, Jobs!ServerInit, Jobs!Reloading, Jobs!Serving, Jobs!At, Jobs!Idle
  <2>2. QED
    BY <1>1, <2>1 DEF Jobs!Init, JobsReloadInv, Jobs!Reloading
<1>2. JobsReloadInv => Jobs!RegisteredOnce
  BY DEF JobsReloadInv, Jobs!RegisteredOnce
<1>3. QED
  BY <1>1, <1>2, JobsReloadStep, JobsTypeCorrect, PTL DEF Jobs!Spec

\* The tick and its letters.

\* What a step of h does to the tick.
LEMMA JobsTickCases ==
  ASSUME Jobs!TypeOK, NEW h \in Handlers, JobsStepOf(h)
  PROVE  \/ /\ h \notin Jobs!Serving("tick") /\ h \in Jobs!Serving("tick")' /\ frame'[h].org = 1
            /\ tick = "waiting" /\ tick' = "active" /\ attempts' = attempts + 1
            /\ h \notin Jobs!Serving("record")' /\ UNCHANGED <<stalls, enqueued, letters, recorded>>
         \/ /\ h \in Jobs!Serving("tick") /\ h \in Jobs!Serving("tick")' /\ frame'[h].org = frame[h].org + 1
            /\ frame[h].org \in Organizations /\ enqueued' = [enqueued EXCEPT ![frame[h].org] = @ + 1]
            /\ h \notin Jobs!Serving("record")' /\ UNCHANGED <<tick, attempts, stalls, letters, recorded>>
         \/ /\ h \in Jobs!Serving("tick") /\ h \notin Jobs!Serving("tick")' /\ h \notin Jobs!Serving("record")'
            /\ UNCHANGED <<attempts, enqueued, recorded>>
            /\ \/ frame[h].org \notin Organizations /\ tick' = "completed" /\ UNCHANGED <<stalls, letters>>
               \/ tick' \in {"waiting", "failed"} /\ letters' = letters + 1 /\ stalls' = stalls
               \/ tick' = "waiting" /\ stalls' = stalls + 1 /\ letters' = letters
               \/ tick' = "failed" /\ UNCHANGED <<stalls, letters>>
         \/ /\ h \notin Jobs!Serving("tick") /\ h \notin Jobs!Serving("tick")'
            /\ UNCHANGED <<tick, attempts, stalls, enqueued>>
            /\ \/ h \notin Jobs!Serving("record") /\ h \in Jobs!Serving("record")' /\ letters' = letters - 1
                  /\ letters > 0 /\ recorded' = recorded
               \/ h \in Jobs!Serving("record") /\ h \notin Jobs!Serving("record")' /\ letters' = letters /\ recorded' = recorded + 1
               \/ h \in Jobs!Serving("record") /\ h \notin Jobs!Serving("record")' /\ letters' = letters + 1 /\ recorded' = recorded
               \/ h \notin Jobs!Serving("record")' /\ UNCHANGED <<letters, recorded>>
<1>0. frame \in [Handlers -> JobsFrames] /\ Jobs!Idle.op = "idle"
  BY JobsCount DEF Jobs!TypeOK, JobsFrames, Jobs!Idle
<1>1. CASE Jobs!TickBegin(h)
  <2>1. frame[h].op = "idle" /\ frame'[h] = [op |-> "tick", org |-> 1]
    BY <1>0, <1>1 DEF Jobs!TickBegin, Jobs!Serve
  <2>2. frame'[h].op = "tick" /\ frame'[h].org = 1
    BY <2>1
  <2>3. QED
    BY <1>1, <2>1, <2>2 DEF Jobs!TickBegin, Jobs!Serving, Jobs!At
<1>2. CASE Jobs!TickEnqueue(h)
  <2>1. frame[h].op = "tick" /\ frame'[h] = [op |-> "tick", org |-> frame[h].org + 1]
    <3>1. frame' = [frame EXCEPT ![h] = [op |-> "tick", org |-> frame[h].org + 1]] /\ frame[h].op = "tick"
      <4>1. Jobs!At(h, "tick") /\ frame[h] = [op |-> "tick", org |-> frame[h].org]
            /\ frame' = [frame EXCEPT ![h] = [frame[h] EXCEPT !.org = @ + 1]]
        BY <1>2, JobsFrameParts DEF Jobs!TickEnqueue, Jobs!GoOn
      <4> DEFINE o == frame[h].org
      <4>2. ASSUME NEW f, f = [op |-> "tick", org |-> o]
            PROVE  [f EXCEPT !.org = @ + 1] = [op |-> "tick", org |-> o + 1]
        <5> HIDE DEF o
        <5>1. QED
          BY <4>2
      <4>3. [frame[h] EXCEPT !.org = @ + 1] = [op |-> "tick", org |-> o + 1]
        BY <4>1, <4>2
      <4>4. QED
        BY <4>1, <4>3 DEF Jobs!At
    <3>2. QED
      BY <1>0, <3>1
  <2>2. frame'[h].op = "tick" /\ frame'[h].org = frame[h].org + 1
    BY <2>1
  <2>3. QED
    BY <1>2, <2>1, <2>2 DEF Jobs!TickEnqueue, Jobs!Serving, Jobs!At
<1>3. CASE Jobs!TickComplete(h) \/ Jobs!TickFails(h)
  <2>1. frame[h].op = "tick" /\ frame'[h].op = "idle"
    BY <1>0, <1>3 DEF Jobs!TickComplete, Jobs!TickFails, Jobs!Finish, Jobs!GoOn, Jobs!At
  <2>2. QED
    BY <1>3, <2>1 DEF Jobs!TickComplete, Jobs!TickFails, Jobs!Serving, Jobs!At
<1>4. CASE Jobs!LetterBegin(h)
  <2>1. frame[h].op = "idle" /\ frame'[h] = [op |-> "record"]
    BY <1>0, <1>4 DEF Jobs!LetterBegin, Jobs!Serve
  <2>2. frame'[h].op = "record"
    BY <2>1
  <2>3. QED
    BY <1>4, <2>1, <2>2 DEF Jobs!LetterBegin, Jobs!Serving, Jobs!At
<1>5. CASE Jobs!LetterRecord(h)
  <2>1. frame[h].op = "record" /\ frame'[h].op = "idle"
    BY <1>0, <1>5 DEF Jobs!LetterRecord, Jobs!Finish, Jobs!GoOn, Jobs!At
  <2>2. QED
    BY <1>5, <2>1 DEF Jobs!LetterRecord, Jobs!Serving, Jobs!At
<1>6. CASE Jobs!Lost(h)
  <2>1. frame'[h].op = "idle"
    BY <1>0, <1>6 DEF Jobs!Lost, Jobs!Drop, Jobs!Finish, Jobs!GoOn
  <2>2. CASE Jobs!At(h, "tick")
    <3>1. ~Jobs!At(h, "record")
      BY <2>2 DEF Jobs!At
    <3>2. QED
      BY <1>6, <2>1, <2>2, <3>1 DEF Jobs!Lost, Jobs!Serving, Jobs!At
  <2>3. CASE ~Jobs!At(h, "tick")
    BY <1>6, <2>1, <2>3 DEF Jobs!Lost, Jobs!Serving, Jobs!At
  <2>4. QED
    BY <2>2, <2>3
<1>7. CASE (\E p \in Patterns : Jobs!ReloadBegin(h, p)) \/ Jobs!ReloadList(h) \/ Jobs!ReloadRemove(h) \/ Jobs!ReloadAdd(h)
  <2>1. UNCHANGED Jobs!tickVars
    BY <1>7 DEF Jobs!ReloadBegin, Jobs!ReloadList, Jobs!ReloadRemove, Jobs!ReloadAdd
  <2>2. frame[h].op # "tick" /\ frame'[h].op \notin {"tick", "record"}
    <3>1. ASSUME NEW p, frame' = [frame EXCEPT ![h] = [op |-> "list", pattern |-> p]]
          PROVE  frame'[h].op = "list"
      <4>1. frame'[h] = [op |-> "list", pattern |-> p]
        BY <1>0, <3>1
      <4>2. QED
        BY <4>1
    <3>2. ASSUME NEW p, NEW s, frame' = [frame EXCEPT ![h] = [op |-> "remove", pattern |-> p, found |-> s]]
          PROVE  frame'[h].op = "remove"
      <4>1. frame'[h] = [op |-> "remove", pattern |-> p, found |-> s]
        BY <1>0, <3>2
      <4>2. QED
        BY <4>1
    <3>3. CASE \E p \in Patterns : Jobs!ReloadBegin(h, p)
      BY <1>0, <3>1, <3>3 DEF Jobs!ReloadBegin, Jobs!Serve
    <3>4. CASE Jobs!ReloadList(h)
      BY <3>2, <3>4 DEF Jobs!ReloadList, Jobs!GoOn, Jobs!At
    <3>5. CASE Jobs!ReloadRemove(h)
      <4>1. frame[h].op = "remove" /\ frame[h] = [op |-> "remove", pattern |-> frame[h].pattern, found |-> frame[h].found]
        BY <3>5, JobsFrameParts DEF Jobs!ReloadRemove, Jobs!At
      <4>2. PICK q \in frame[h].found : frame' = [frame EXCEPT ![h] = [frame[h] EXCEPT !.found = @ \ {q}]]
        BY <3>5 DEF Jobs!ReloadRemove, Jobs!GoOn
      <4>3. frame'[h] = [frame[h] EXCEPT !.found = @ \ {q}]
        BY <1>0, <4>2
      <4>4. frame'[h].op = frame[h].op
        BY <4>1, <4>3
      <4>5. QED
        BY <4>1, <4>4
    <3>6. CASE Jobs!ReloadAdd(h)
      BY <1>0, <3>6 DEF Jobs!ReloadAdd, Jobs!Finish, Jobs!GoOn, Jobs!At
    <3>7. QED
      BY <1>7, <3>3, <3>4, <3>5, <3>6
  <2>3. QED
    BY <2>1, <2>2 DEF Jobs!tickVars, Jobs!Serving, Jobs!At
<1>8. QED
  BY <1>1, <1>2, <1>3, <1>4, <1>5, <1>6, <1>7 DEF JobsStepOf

LEMMA JobsTickStep == ASSUME Jobs!TypeOK, JobsTickInv, [Jobs!Next]_(Jobs!vars) PROVE JobsTickInv'
<1>0. attempts \in Nat /\ stalls \in Nat /\ letters \in Nat /\ recorded \in Nat
  BY JobConstants, JobsCount DEF Jobs!TypeOK
<1>1. ASSUME NEW h \in Handlers, JobsStepOf(h) PROVE JobsTickInv'
  <2> DEFINE C == Jobs!Serving("record")
             D == Jobs!Serving("record")'
             T == Jobs!Serving("tick")
             U == Jobs!Serving("tick")'
  <2>1. \A g \in Handlers \ {h} : frame'[g] = frame[g]
    BY <1>1, JobsFrameStep
  <2>2. /\ C \in SUBSET Handlers /\ D \in SUBSET Handlers /\ D \ {h} = C \ {h}
        /\ T \in SUBSET Handlers /\ U \in SUBSET Handlers /\ U \ {h} = T \ {h}
    BY <2>1 DEF Jobs!Serving, Jobs!At
  <2>3. /\ Cardinality(C) \in Nat /\ Cardinality(D) \in Nat
        /\ h \notin D => Cardinality(D) <= Cardinality(C)
        /\ h \in C /\ h \notin D => Cardinality(D) = Cardinality(C) - 1
        /\ h \notin C /\ h \in D => Cardinality(D) = Cardinality(C) + 1
    BY <2>2, SomeCounted, OneMoves
  <2>4. /\ \A f, g \in T : f = g
        /\ tick = "active" <=> T # {}
        /\ letters + recorded + Cardinality(C) + stalls + (IF tick = "active" THEN 1 ELSE 0) <= attempts
    BY DEF JobsTickInv
  <2>5. /\ \A f, g \in U : f = g
        /\ tick' = "active" <=> U # {}
        /\ letters' + recorded' + Cardinality(D) + stalls' + (IF tick' = "active" THEN 1 ELSE 0) <= attempts'
    <3>1. CASE /\ h \notin T /\ h \in U /\ tick = "waiting" /\ tick' = "active" /\ attempts' = attempts + 1
               /\ h \notin D /\ UNCHANGED <<stalls, enqueued, letters, recorded>>
      <4> HIDE DEF C, D, T, U
      <4>1. T = {} /\ U = {h}
        BY <2>2, <2>4, <3>1
      <4>2. QED
        BY <1>0, <2>3, <2>4, <3>1, <4>1
    <3>2. CASE h \in T /\ h \in U /\ h \notin D /\ UNCHANGED <<tick, attempts, stalls, letters, recorded>>
      <4> HIDE DEF C, D, T, U
      <4>1. T = U
        BY <2>2, <3>2
      <4>2. QED
        BY <1>0, <2>3, <2>4, <3>2, <4>1
    <3>3. CASE /\ h \in T /\ h \notin U /\ h \notin D /\ UNCHANGED <<attempts, enqueued, recorded>>
               /\ \/ tick' = "completed" /\ UNCHANGED <<stalls, letters>>
                  \/ tick' \in {"waiting", "failed"} /\ letters' = letters + 1 /\ stalls' = stalls
                  \/ tick' = "waiting" /\ stalls' = stalls + 1 /\ letters' = letters
                  \/ tick' = "failed" /\ UNCHANGED <<stalls, letters>>
      <4> HIDE DEF C, D, T, U
      <4>1. U = {} /\ tick = "active"
        BY <2>2, <2>4, <3>3
      <4>2. QED
        BY <1>0, <2>3, <2>4, <3>3, <4>1
    <3>4. CASE /\ h \notin T /\ h \notin U /\ UNCHANGED <<tick, attempts, stalls>>
               /\ \/ h \notin C /\ h \in D /\ letters' = letters - 1 /\ letters > 0 /\ recorded' = recorded
                  \/ h \in C /\ h \notin D /\ letters' = letters /\ recorded' = recorded + 1
                  \/ h \in C /\ h \notin D /\ letters' = letters + 1 /\ recorded' = recorded
                  \/ h \notin D /\ UNCHANGED <<letters, recorded>>
      <4> HIDE DEF C, D, T, U
      <4>1. T = U
        BY <2>2, <3>4
      <4>2. QED
        BY <1>0, <2>3, <2>4, <3>4, <4>1
    <3>5. QED
      BY <1>1, <3>1, <3>2, <3>3, <3>4, JobsTickCases
  <2>6. QED
    BY <2>5 DEF JobsTickInv
<1>2. CASE Jobs!Fire \/ UNCHANGED Jobs!vars
  <2>1. /\ UNCHANGED <<frame, attempts, stalls, letters, recorded>>
        /\ tick' = tick \/ (tick = "due" /\ tick' = "waiting")
    BY <1>2 DEF Jobs!Fire, Jobs!vars, Jobs!tickVars
  <2>2. Jobs!Serving("record")' = Jobs!Serving("record") /\ Jobs!Serving("tick")' = Jobs!Serving("tick")
    BY <2>1 DEF Jobs!Serving, Jobs!At
  <2>3. QED
    BY <2>1, <2>2 DEF JobsTickInv
<1>3. QED
  BY <1>1, <1>2 DEF Jobs!Next, JobsStepOf

LEMMA JobsTickHolds == Jobs!Spec => []JobsTickInv
<1>1. ASSUME Jobs!Init PROVE JobsTickInv
  <2>1. Jobs!Serving("tick") = {} /\ Jobs!Serving("record") = {}
    BY <1>1 DEF Jobs!Init, Jobs!ServerInit, Jobs!Serving, Jobs!At, Jobs!Idle
  <2>2. Cardinality({}) = 0
    BY FS_EmptySet
  <2>3. QED
    BY <1>1, <2>1, <2>2 DEF Jobs!Init, JobsTickInv
<1>2. QED
  BY <1>1, JobsTickStep, JobsTypeCorrect, PTL DEF Jobs!Spec

(* There is at most one dead letter for each failed attempt, up to the     *)
(* last, for any number of attempts and stalls (the failed handler of      *)
(* startJobWorkers).                                                       *)
THEOREM JobsLetters == Jobs!Spec => []Jobs!LettersBounded
<1>1. ASSUME Jobs!TypeOK, JobsAttemptInv, JobsTickInv PROVE Jobs!LettersBounded
  <2>1. Jobs!Serving("record") \in SUBSET Handlers
    BY DEF Jobs!Serving
  <2>2. /\ Cardinality(Jobs!Serving("record")) \in Nat /\ letters \in Nat /\ recorded \in Nat
        /\ attempts \in Nat /\ stalls \in Nat
    BY <1>1, <2>1, SomeCounted, JobConstants, JobsCount DEF Jobs!TypeOK
  <2> DEFINE c == Cardinality(Jobs!Serving("record"))
  <2>3. letters + recorded + c + stalls + (IF tick = "active" THEN 1 ELSE 0) <= attempts /\ c \in Nat
    BY <1>1, <2>2 DEF JobsTickInv
  <2>4. attempts <= stalls + MaxAttempts
    BY <1>1 DEF JobsAttemptInv
  <2> HIDE DEF c
  <2>5. letters + recorded + c <= MaxAttempts
    BY <2>2, <2>3, <2>4, JobConstants
  <2>6. QED
    BY <2>5, JobsCount DEF Jobs!LettersBounded, c
<1>2. QED
  BY <1>1, JobsTypeHolds, JobsTickHolds, PTL

LEMMA JobsOrgStep == ASSUME Jobs!TypeOK, JobsTickInv, JobsOrgInv, [Jobs!Next]_(Jobs!vars) PROVE JobsOrgInv'
<1>0. /\ attempts \in Nat /\ enqueued \in [Organizations -> Nat] /\ Organizations \subseteq Nat
      /\ \A h \in Jobs!Serving("tick") : frame[h].org \in 1..(Cardinality(Organizations) + 1)
  <2>1. Organizations \subseteq Nat
    BY JobsOrgsNumbered
  <2>2. QED
    BY <2>1, JobsFrameParts, JobConstants, JobsCount DEF Jobs!TypeOK, Jobs!Serving
<1>1. ASSUME NEW h \in Handlers, JobsStepOf(h) PROVE JobsOrgInv'
  <2>1. \A g \in Handlers \ {h} : frame'[g] = frame[g]
    BY <1>1, JobsFrameStep
  <2>2. CASE /\ h \notin Jobs!Serving("tick") /\ h \in Jobs!Serving("tick")' /\ frame'[h].org = 1
             /\ tick = "waiting" /\ tick' = "active" /\ attempts' = attempts + 1 /\ enqueued' = enqueued
    <3>1. Jobs!Serving("tick") = {}
      BY <2>2 DEF JobsTickInv
    <3>2. \A g \in Jobs!Serving("tick")' : g = h
      BY <2>1, <3>1 DEF Jobs!Serving, Jobs!At
    <3>3. \A o \in Organizations : ~(o < 1)
      BY JobsOrgsNumbered
    <3>4. \A o \in Organizations : enqueued'[o] <= attempts' /\ enqueued'[o] < attempts'
      BY <1>0, <2>2 DEF JobsOrgInv
    <3>5. \A g \in Jobs!Serving("tick")', o \in Organizations :
            IF o < frame'[g].org THEN enqueued'[o] > 0 ELSE enqueued'[o] < attempts'
      BY <2>2, <3>2, <3>3, <3>4
    <3>6. QED
      BY <2>2, <3>4, <3>5 DEF JobsOrgInv
  <2>3. CASE /\ h \in Jobs!Serving("tick") /\ h \in Jobs!Serving("tick")' /\ frame'[h].org = frame[h].org + 1
             /\ frame[h].org \in Organizations /\ enqueued' = [enqueued EXCEPT ![frame[h].org] = @ + 1]
             /\ UNCHANGED <<tick, attempts>>
    <3> DEFINE k == frame[h].org
    <3>1. \A g \in Jobs!Serving("tick")' : g = h
      BY <2>1, <2>3 DEF JobsTickInv, Jobs!Serving, Jobs!At
    <3>2. /\ \A o \in Organizations : IF o < k THEN enqueued[o] > 0 ELSE enqueued[o] < attempts
          /\ \A o \in Organizations : enqueued[o] <= attempts
          /\ tick = "active" /\ k \in Organizations
      BY <2>3 DEF JobsOrgInv, JobsTickInv
    <3> HIDE DEF k
    <3>3. /\ enqueued'[k] = enqueued[k] + 1
          /\ \A o \in Organizations \ {k} : enqueued'[o] = enqueued[o]
      BY <1>0, <2>3, <3>2 DEF k
    <3>4. \A o \in Organizations : enqueued'[o] <= attempts
      <4>1. k \in Nat /\ \A o \in Organizations : enqueued[o] \in Nat
        BY <1>0, <3>2
      <4>2. enqueued[k] < attempts
        BY <3>2, <4>1
      <4>3. enqueued'[k] <= attempts
        BY <1>0, <3>2, <3>3, <4>1, <4>2
      <4>4. QED
        BY <3>2, <3>3, <4>3
    <3>5. ASSUME NEW o \in Organizations
          PROVE  IF o < k + 1 THEN enqueued'[o] > 0 ELSE enqueued'[o] < attempts
      <4>1. o \in Nat /\ k \in Nat /\ enqueued[o] \in Nat /\ enqueued[k] \in Nat
        BY <1>0, <3>2
      <4>2. CASE o = k
        BY <3>3, <4>1, <4>2
      <4>3. CASE o # k
        <5>1. enqueued'[o] = enqueued[o] /\ (o < k + 1 <=> o < k)
          BY <3>3, <4>1, <4>3
        <5>2. QED
          BY <3>2, <5>1
      <4>4. QED
        BY <4>2, <4>3
    <3>6. QED
      BY <2>3, <3>1, <3>2, <3>4, <3>5 DEF JobsOrgInv, k
  <2>4. CASE /\ h \in Jobs!Serving("tick") /\ h \notin Jobs!Serving("tick")' /\ UNCHANGED <<attempts, enqueued>>
             /\ \/ frame[h].org \notin Organizations /\ tick' = "completed"
                \/ tick' \in {"waiting", "failed"}
    <3>1. Jobs!Serving("tick")' = {}
      BY <2>1, <2>4 DEF JobsTickInv, Jobs!Serving, Jobs!At
    <3>2. frame[h].org \notin Organizations => \A o \in Organizations : enqueued[o] > 0
      <4>1. frame[h].org \notin Organizations => \A o \in Organizations : o < frame[h].org
        BY <1>0, <2>4, JobsOrgsNumbered
      <4>2. QED
        BY <2>4, <4>1 DEF JobsOrgInv
    <3>3. QED
      BY <2>4, <3>1, <3>2 DEF JobsOrgInv
  <2>5. CASE h \notin Jobs!Serving("tick") /\ h \notin Jobs!Serving("tick")' /\ UNCHANGED <<tick, attempts, enqueued>>
    <3>1. \A g \in Jobs!Serving("tick")' : g \in Jobs!Serving("tick") /\ frame'[g] = frame[g]
      BY <2>1, <2>5 DEF Jobs!Serving, Jobs!At
    <3>2. QED
      BY <2>5, <3>1 DEF JobsOrgInv
  <2>6. QED
    BY <1>1, <2>2, <2>3, <2>4, <2>5, JobsTickCases
<1>2. CASE Jobs!Fire \/ UNCHANGED Jobs!vars
  <2>1. /\ UNCHANGED <<frame, attempts, enqueued>>
        /\ tick' = tick \/ tick' = "waiting"
    BY <1>2 DEF Jobs!Fire, Jobs!vars, Jobs!tickVars
  <2>2. Jobs!Serving("tick")' = Jobs!Serving("tick")
    BY <2>1 DEF Jobs!Serving, Jobs!At
  <2>3. QED
    BY <2>1, <2>2 DEF JobsOrgInv
<1>3. QED
  BY <1>1, <1>2 DEF Jobs!Next, JobsStepOf

(* A tick queues a job for an organization at most once an attempt, and it *)
(* completes only when each organization has one, for any number of        *)
(* organizations and attempts (handleScheduledTick).                       *)
THEOREM JobsTicks == Jobs!Spec => []Jobs!TicksReachEveryOrg
<1>1. ASSUME Jobs!Init PROVE JobsOrgInv
  <2>1. Jobs!Serving("tick") = {}
    BY <1>1 DEF Jobs!Init, Jobs!ServerInit, Jobs!Serving, Jobs!At, Jobs!Idle
  <2>2. QED
    BY <1>1, <2>1 DEF Jobs!Init, JobsOrgInv
<1>2. ASSUME Jobs!TypeOK, JobsOrgInv PROVE Jobs!TicksReachEveryOrg
  <2>1. attempts \in Nat /\ attempts <= MaxAttempts + MaxStalls /\ \A o \in Organizations : enqueued[o] \in Nat
    BY <1>2, JobConstants, JobsCount DEF Jobs!TypeOK
  <2>2. \A o \in Organizations : enqueued[o] <= MaxAttempts + MaxStalls
    BY <1>2, <2>1, JobConstants DEF JobsOrgInv
  <2>3. QED
    BY <1>2, <2>2 DEF JobsOrgInv, Jobs!TicksReachEveryOrg
<1>3. QED
  BY <1>1, <1>2, JobsOrgStep, JobsTickHolds, JobsTypeCorrect, PTL DEF Jobs!Spec

-----------------------------------------------------------------------------
(* Reports of the language model.                                          *)

\* Sets are counted as everywhere.
LEMMA ReportsCount ==
  \A S : Reports!IsFiniteSet(S) = IsFiniteSet(S) /\ Reports!Cardinality(S) = Cardinality(S)
BY DEF Reports!IsFiniteSet, IsFiniteSet, Reports!Cardinality, Cardinality

\* A step of the request h.
ReportsStepOf(h) ==
  \/ Reports!GenerateCeoDailyBrief(h) \/ Reports!GenerateScoreDropExplain(h)
  \/ Reports!Answer(h) \/ Reports!Store(h) \/ Reports!Lost(h)

\* The requests that are about to ask for the report w, and those that have its answer.
ReportsAsking(w) == {h \in Reports!Serving("ask") : frame[h].what = w}
ReportsAnswered(w) == {h \in Reports!Serving("store") : frame[h].what = w}

\* Each answer is on its way into the store, lost, or the one that is stored; once a report is
\* stored only the requests that had missed it ask for it again.
ReportsCallInv ==
  /\ frame = [h \in Handlers |-> frame[h]]
  /\ \A h \in Handlers :
       \/ frame[h] = Reports!Idle
       \/ frame[h] = [op |-> "ask", what |-> frame[h].what]
       \/ frame[h] = [op |-> "store", what |-> frame[h].what]
  /\ calls \in [Reports!Asked -> Nat] /\ faults \in Nat
  /\ \A w \in Reports!Asked :
       IF w \in reports
       THEN calls[w] + Cardinality(ReportsAsking(w)) <= Cardinality(Handlers) + faults
       ELSE calls[w] <= Cardinality(ReportsAnswered(w)) + faults

\* Where a step of h takes it.
LEMMA ReportsTurns ==
  ASSUME ReportsCallInv, NEW h \in Handlers, ReportsStepOf(h)
  PROVE  /\ \A g \in Handlers \ {h} : frame'[g] = frame[g]
         /\ frame' = [g \in Handlers |-> frame'[g]]
         /\ \/ \E w : /\ frame[h].op = "idle" /\ frame'[h] = [op |-> "ask", what |-> w]
                      /\ w \notin reports /\ UNCHANGED <<reports, calls, faults>>
            \/ \E w : /\ frame[h] = [op |-> "ask", what |-> w]
                      /\ calls' = [calls EXCEPT ![w] = @ + 1] /\ reports' = reports
                      /\ \/ frame'[h] = [op |-> "store", what |-> w] /\ faults' = faults
                         \/ frame'[h] = Reports!Idle /\ faults' = faults + 1
            \/ \E w : /\ frame[h] = [op |-> "store", what |-> w] /\ frame'[h] = Reports!Idle
                      /\ reports' = reports \cup {w} /\ UNCHANGED <<calls, faults>>
            \/ frame'[h] = Reports!Idle /\ faults' = faults + 1 /\ UNCHANGED <<reports, calls>>
<1> DEFINE Result == /\ \A g \in Handlers \ {h} : frame'[g] = frame[g]
                     /\ frame' = [g \in Handlers |-> frame'[g]]
<1>0. /\ frame = [g \in Handlers |-> frame[g]] /\ Reports!Idle.op = "idle"
      /\ \/ frame[h] = Reports!Idle
         \/ frame[h] = [op |-> "ask", what |-> frame[h].what]
         \/ frame[h] = [op |-> "store", what |-> frame[h].what]
  BY DEF ReportsCallInv, Reports!Idle
<1>1. ASSUME NEW f, Reports!GoOn(h, f) PROVE Result /\ frame'[h] = f
  <2>1. frame' = [g \in Handlers |-> IF g = h THEN f ELSE frame[g]]
    BY <1>0, <1>1 DEF Reports!GoOn
  <2>2. QED
    BY <2>1
<1>2. ASSUME NEW t, Reports!Generate(h, t)
      PROVE  Result /\ \E w : /\ frame[h].op = "idle" /\ frame'[h] = [op |-> "ask", what |-> w]
                              /\ w \notin reports /\ UNCHANGED <<reports, calls, faults>>
  <2>1. PICK c \in Reports!Trimmed(Reports!Collected) : <<t, c>> \notin reports /\ Reports!Serve(h, [op |-> "ask", what |-> <<t, c>>])
    BY <1>2 DEF Reports!Generate
  <2> DEFINE w == <<t, c>>
             f == [op |-> "ask", what |-> w]
  <2>2. frame[h] = Reports!Idle /\ Reports!GoOn(h, f)
    BY <2>1 DEF Reports!Serve, Reports!GoOn
  <2>3. Result /\ frame'[h] = f
    BY <1>1, <2>2
  <2>4. w \notin reports /\ UNCHANGED <<reports, calls, faults>>
    BY <1>2, <2>1 DEF Reports!Generate
  <2> HIDE DEF w, Result
  <2>5. QED
    BY <1>0, <2>2, <2>3, <2>4
<1>3. CASE Reports!Answer(h)
  <2> DEFINE w == frame[h].what
  <2>1. Reports!At(h, "ask") /\ frame[h] = [op |-> "ask", what |-> w]
    <3>1. Reports!At(h, "ask")
      BY <1>3 DEF Reports!Answer
    <3>2. ASSUME NEW v, frame[h] = [op |-> "store", what |-> v] PROVE frame[h].op = "store"
      BY <3>2
    <3>3. QED
      BY <1>0, <3>1, <3>2 DEF Reports!At
  <2>2. calls' = [calls EXCEPT ![w] = @ + 1] /\ reports' = reports
    BY <1>3 DEF Reports!Answer
  <2>3. ASSUME Reports!GoOn(h, [frame[h] EXCEPT !.op = "store"])
        PROVE  Result /\ frame'[h] = [op |-> "store", what |-> w]
    <3>1. Result /\ frame'[h] = [frame[h] EXCEPT !.op = "store"]
      BY <1>1, <2>3
    <3>2. ASSUME NEW f, NEW v, f = [op |-> "ask", what |-> v]
          PROVE  [f EXCEPT !.op = "store"] = [op |-> "store", what |-> v]
      BY <3>2
    <3>3. [frame[h] EXCEPT !.op = "store"] = [op |-> "store", what |-> w]
      BY <2>1, <3>2
    <3>4. QED
      BY <3>1, <3>3
  <2>4. \/ Reports!GoOn(h, [frame[h] EXCEPT !.op = "store"]) /\ faults' = faults
        \/ Reports!GoOn(h, Reports!Idle) /\ faults' = faults + 1
    BY <1>3 DEF Reports!Answer, Reports!Finish
  <2>5. Result /\ \/ frame'[h] = [op |-> "store", what |-> w] /\ faults' = faults
                  \/ frame'[h] = Reports!Idle /\ faults' = faults + 1
    BY <1>1, <2>3, <2>4
  <2> HIDE DEF w, Result
  <2>6. QED
    BY <2>1, <2>2, <2>5 DEF Result
<1>4. CASE Reports!Store(h)
  <2> DEFINE w == frame[h].what
  <2>1. Reports!At(h, "store") /\ frame[h] = [op |-> "store", what |-> w]
    <3>1. Reports!At(h, "store")
      BY <1>4 DEF Reports!Store
    <3>2. ASSUME NEW v, frame[h] = [op |-> "ask", what |-> v] PROVE frame[h].op = "ask"
      BY <3>2
    <3>3. QED
      BY <1>0, <3>1, <3>2 DEF Reports!At
  <2>2. reports' = reports \cup {w} /\ UNCHANGED <<calls, faults>> /\ Reports!GoOn(h, Reports!Idle)
    BY <1>4 DEF Reports!Store, Reports!Finish
  <2>3. Result /\ frame'[h] = Reports!Idle
    BY <1>1, <2>2
  <2> HIDE DEF w, Result
  <2>4. QED
    BY <2>1, <2>2, <2>3 DEF Result
<1>5. CASE Reports!Lost(h)
  <2>1. Reports!GoOn(h, Reports!Idle) /\ faults' = faults + 1 /\ UNCHANGED <<reports, calls>>
    BY <1>5 DEF Reports!Lost, Reports!Drop, Reports!Finish
  <2>2. QED
    BY <1>1, <2>1
<1>6. QED
  BY <1>2, <1>3, <1>4, <1>5 DEF ReportsStepOf, Reports!GenerateCeoDailyBrief, Reports!GenerateScoreDropExplain

LEMMA ReportsOneAnswer ==
  ASSUME calls \in [Reports!Asked -> Nat], NEW v, calls' = [calls EXCEPT ![v] = @ + 1]
  PROVE  /\ calls' \in [Reports!Asked -> Nat]
         /\ \A w \in Reports!Asked : calls'[w] = IF v = w THEN calls[w] + 1 ELSE calls[w]
<1> DEFINE S == Reports!Asked
<1>1. calls \in [S -> Nat]
  OBVIOUS
<1> HIDE DEF S
<1>2. \A w \in S : calls'[w] = IF v = w THEN calls[w] + 1 ELSE calls[w]
  BY <1>1
<1>3. calls' = [w \in S |-> calls'[w]]
  BY <1>1
<1>4. \A w \in S : calls'[w] \in Nat
  BY <1>1, <1>2
<1>5. calls' \in [S -> Nat]
  BY <1>3, <1>4
<1>6. QED
  BY <1>2, <1>5 DEF S

\* What a step of h does for the report w.
LEMMA ReportsCallCases ==
  ASSUME ReportsCallInv, NEW h \in Handlers, ReportsStepOf(h), NEW w \in Reports!Asked
  PROVE  /\ \/ faults' = faults
            \/ faults' = faults + 1 /\ h \notin ReportsAnswered(w)'
         /\ \/ /\ w \notin reports /\ w \notin reports' /\ h \notin ReportsAnswered(w) /\ h \in ReportsAsking(w)'
               /\ h \notin ReportsAnswered(w)' /\ calls'[w] = calls[w] /\ faults' = faults
            \/ /\ h \in ReportsAsking(w) /\ h \notin ReportsAsking(w)' /\ h \notin ReportsAnswered(w) /\ h \in ReportsAnswered(w)'
               /\ (w \in reports' <=> w \in reports) /\ calls'[w] = calls[w] + 1 /\ faults' = faults
            \/ /\ h \in ReportsAsking(w) /\ h \notin ReportsAsking(w)' /\ h \notin ReportsAnswered(w) /\ h \notin ReportsAnswered(w)'
               /\ (w \in reports' <=> w \in reports) /\ calls'[w] = calls[w] + 1 /\ faults' = faults + 1
            \/ /\ h \in ReportsAnswered(w) /\ h \notin ReportsAsking(w) /\ h \notin ReportsAsking(w)' /\ h \notin ReportsAnswered(w)'
               /\ w \in reports' /\ calls'[w] = calls[w] /\ faults' = faults
            \/ /\ h \notin ReportsAsking(w)' /\ h \notin ReportsAnswered(w)'
               /\ (w \in reports' <=> w \in reports) /\ calls'[w] = calls[w] /\ faults' = faults + 1
            \/ /\ h \notin ReportsAsking(w) /\ h \notin ReportsAsking(w)' /\ (h \in ReportsAnswered(w) <=> h \in ReportsAnswered(w)')
               /\ (w \in reports' <=> w \in reports) /\ calls'[w] = calls[w] /\ faults' = faults
         /\ calls'[w] \in Nat
         /\ calls' \in [Reports!Asked -> Nat] /\ faults' \in Nat
<1>0. calls \in [Reports!Asked -> Nat] /\ faults \in Nat /\ Reports!Idle.op = "idle"
  BY DEF ReportsCallInv, Reports!Idle
<1>1. ASSUME NEW v, frame[h].op = "idle", frame'[h] = [op |-> "ask", what |-> v],
             v \notin reports, UNCHANGED <<reports, calls, faults>>
      PROVE  /\ h \notin ReportsAsking(w) /\ h \notin ReportsAnswered(w) /\ h \notin ReportsAnswered(w)'
             /\ h \in ReportsAsking(w)' => w \notin reports
  <2>1. frame'[h].op = "ask" /\ frame'[h].what = v
    BY <1>1
  <2>2. QED
    BY <1>1, <2>1 DEF ReportsAsking, ReportsAnswered, Reports!Serving, Reports!At
<1>2. ASSUME NEW v, frame[h] = [op |-> "ask", what |-> v]
      PROVE  /\ h \notin ReportsAnswered(w) /\ (h \in ReportsAsking(w) <=> v = w)
             /\ frame'[h] = [op |-> "store", what |-> v] => h \notin ReportsAsking(w)' /\ (h \in ReportsAnswered(w)' <=> v = w)
             /\ frame'[h] = Reports!Idle => h \notin ReportsAsking(w)' /\ h \notin ReportsAnswered(w)'
  <2>1. frame[h].op = "ask" /\ frame[h].what = v
    BY <1>2
  <2>2. frame'[h] = [op |-> "store", what |-> v] => frame'[h].op = "store" /\ frame'[h].what = v
    OBVIOUS
  <2>3. QED
    BY <1>0, <2>1, <2>2 DEF ReportsAsking, ReportsAnswered, Reports!Serving, Reports!At
<1>3. ASSUME NEW v, calls' = [calls EXCEPT ![v] = @ + 1]
      PROVE  calls' \in [Reports!Asked -> Nat] /\ calls'[w] = IF v = w THEN calls[w] + 1 ELSE calls[w]
  BY <1>0, <1>3, ReportsOneAnswer
<1>4. ASSUME NEW v, frame[h] = [op |-> "store", what |-> v], frame'[h] = Reports!Idle
      PROVE  /\ h \notin ReportsAsking(w) /\ (h \in ReportsAnswered(w) <=> v = w)
             /\ h \notin ReportsAsking(w)' /\ h \notin ReportsAnswered(w)'
  <2>1. frame[h].op = "store" /\ frame[h].what = v
    BY <1>4
  <2>2. QED
    BY <1>0, <1>4, <2>1 DEF ReportsAsking, ReportsAnswered, Reports!Serving, Reports!At
<1>5. CASE \E v : /\ frame[h].op = "idle" /\ frame'[h] = [op |-> "ask", what |-> v]
                  /\ v \notin reports /\ UNCHANGED <<reports, calls, faults>>
  BY <1>0, <1>1, <1>5
<1>6. CASE \E v : /\ frame[h] = [op |-> "ask", what |-> v]
                  /\ calls' = [calls EXCEPT ![v] = @ + 1] /\ reports' = reports
                  /\ \/ frame'[h] = [op |-> "store", what |-> v] /\ faults' = faults
                     \/ frame'[h] = Reports!Idle /\ faults' = faults + 1
  <2>1. PICK v : /\ frame[h] = [op |-> "ask", what |-> v]
                 /\ calls' = [calls EXCEPT ![v] = @ + 1] /\ reports' = reports
                 /\ \/ frame'[h] = [op |-> "store", what |-> v] /\ faults' = faults
                    \/ frame'[h] = Reports!Idle /\ faults' = faults + 1
    BY <1>6
  <2>2. calls' \in [Reports!Asked -> Nat] /\ calls'[w] = IF v = w THEN calls[w] + 1 ELSE calls[w]
    BY <1>3, <2>1
  <2>3. calls'[w] \in Nat /\ faults' \in Nat
    BY <1>0, <2>1, <2>2
  <2>4. /\ h \notin ReportsAnswered(w) /\ (h \in ReportsAsking(w) <=> v = w)
        /\ h \notin ReportsAsking(w)'
        /\ \/ (h \in ReportsAnswered(w)' <=> v = w) /\ faults' = faults
           \/ h \notin ReportsAnswered(w)' /\ faults' = faults + 1
    BY <1>2, <2>1
  <2>5. QED
    BY <2>1, <2>2, <2>3, <2>4
<1>7. CASE \E v : /\ frame[h] = [op |-> "store", what |-> v] /\ frame'[h] = Reports!Idle
                  /\ reports' = reports \cup {v} /\ UNCHANGED <<calls, faults>>
  BY <1>0, <1>4, <1>7
<1>8. CASE frame'[h] = Reports!Idle /\ faults' = faults + 1 /\ UNCHANGED <<reports, calls>>
  BY <1>0, <1>8 DEF ReportsAsking, ReportsAnswered, Reports!Serving, Reports!At
<1>9. QED
  BY <1>5, <1>6, <1>7, <1>8, ReportsTurns

LEMMA ReportsCallStep == ASSUME ReportsCallInv, [Reports!Next]_(Reports!vars) PROVE ReportsCallInv'
<1>1. ASSUME NEW h \in Handlers, ReportsStepOf(h) PROVE ReportsCallInv'
  <2>1. /\ \A g \in Handlers \ {h} : frame'[g] = frame[g]
        /\ frame' = [g \in Handlers |-> frame'[g]]
        /\ \/ frame'[h] = Reports!Idle
           \/ frame'[h] = [op |-> "ask", what |-> frame'[h].what]
           \/ frame'[h] = [op |-> "store", what |-> frame'[h].what]
    <3>1. ASSUME NEW w, frame'[h] = [op |-> "ask", what |-> w] \/ frame'[h] = [op |-> "store", what |-> w]
          PROVE  frame'[h].what = w
      BY <3>1
    <3>2. QED
      BY <1>1, <3>1, ReportsTurns
  <2>2. \A g \in Handlers :
          \/ frame'[g] = Reports!Idle
          \/ frame'[g] = [op |-> "ask", what |-> frame'[g].what]
          \/ frame'[g] = [op |-> "store", what |-> frame'[g].what]
    BY <2>1 DEF ReportsCallInv
  <2>3. calls' \in [Reports!Asked -> Nat] /\ faults' \in Nat
    <3>1. calls \in [Reports!Asked -> Nat] /\ faults \in Nat
      BY DEF ReportsCallInv
    <3>2. faults' = faults \/ faults' = faults + 1
      BY <1>1, ReportsTurns
    <3>3. calls' = calls \/ \E v : calls' = [calls EXCEPT ![v] = @ + 1]
      BY <1>1, ReportsTurns
    <3>4. QED
      BY <3>1, <3>2, <3>3, ReportsOneAnswer
  <2>4. ASSUME NEW w \in Reports!Asked
        PROVE  IF w \in reports'
               THEN calls'[w] + Cardinality(ReportsAsking(w)') <= Cardinality(Handlers) + faults'
               ELSE calls'[w] <= Cardinality(ReportsAnswered(w)') + faults'
    <3> DEFINE A == ReportsAsking(w)
               B == ReportsAsking(w)'
               C == ReportsAnswered(w)
               D == ReportsAnswered(w)'
               n == Cardinality(Handlers)
    <3>1. /\ A \in SUBSET Handlers /\ B \in SUBSET Handlers /\ B \ {h} = A \ {h}
          /\ C \in SUBSET Handlers /\ D \in SUBSET Handlers /\ D \ {h} = C \ {h}
          /\ A \cap C = {} /\ B \cap D = {}
      BY <2>1 DEF ReportsAsking, ReportsAnswered, Reports!Serving, Reports!At
    <3>2. /\ Cardinality(A) \in Nat /\ Cardinality(B) \in Nat /\ Cardinality(C) \in Nat /\ Cardinality(D) \in Nat
          /\ n \in Nat /\ Cardinality(B) <= n
      BY <3>1, SomeCounted, HandlersCounted
    <3>3. /\ h \notin B => Cardinality(B) <= Cardinality(A)
          /\ h \in A /\ h \notin B => Cardinality(B) = Cardinality(A) - 1
          /\ (h \in A <=> h \in B) => B = A
      BY <3>1, OneMoves
    <3>4. /\ h \notin C /\ h \in D => Cardinality(D) = Cardinality(C) + 1
          /\ h \in C /\ h \notin D => Cardinality(D) = Cardinality(C) - 1
          /\ (h \in C <=> h \in D) => D = C
      BY <3>1, OneMoves
    <3>5. Cardinality(A) + Cardinality(C) <= n
      BY <3>1, ApartFit
    <3>6. /\ calls[w] \in Nat /\ faults \in Nat
          /\ IF w \in reports THEN calls[w] + Cardinality(A) <= n + faults
                              ELSE calls[w] <= Cardinality(C) + faults
      BY DEF ReportsCallInv
    <3>7. /\ calls'[w] \in Nat
          /\ \/ /\ w \notin reports /\ w \notin reports' /\ h \notin C /\ h \notin D
                /\ calls'[w] = calls[w] /\ faults' = faults
             \/ /\ h \in A /\ h \notin B /\ h \notin C /\ h \in D
                /\ (w \in reports' <=> w \in reports) /\ calls'[w] = calls[w] + 1 /\ faults' = faults
             \/ /\ h \in A /\ h \notin B /\ h \notin C /\ h \notin D
                /\ (w \in reports' <=> w \in reports) /\ calls'[w] = calls[w] + 1 /\ faults' = faults + 1
             \/ /\ h \in C /\ h \notin A /\ h \notin B /\ h \notin D
                /\ w \in reports' /\ calls'[w] = calls[w] /\ faults' = faults
             \/ /\ h \notin B /\ h \notin D
                /\ (w \in reports' <=> w \in reports) /\ calls'[w] = calls[w] /\ faults' = faults + 1
             \/ /\ h \notin A /\ h \notin B /\ (h \in C <=> h \in D)
                /\ (w \in reports' <=> w \in reports) /\ calls'[w] = calls[w] /\ faults' = faults
      <4> HIDE DEF A, B, C, D
      <4>1. QED
        BY <1>1, ReportsCallCases DEF A, B, C, D
    <3> DEFINE x == calls[w]
               y == calls'[w]
               p == w \in reports
               q == w \in reports'
    <3>8. IF q THEN y + Cardinality(B) <= n + faults' ELSE y <= Cardinality(D) + faults'
      <4>0. /\ x \in Nat /\ y \in Nat /\ faults \in Nat
            /\ p => x + Cardinality(A) <= n + faults
            /\ ~p => x <= Cardinality(C) + faults
        BY <3>6, <3>7
      <4>1. CASE ~p /\ ~q /\ h \notin C /\ h \notin D /\ y = x /\ faults' = faults
        <5> HIDE DEF A, B, C, D, n, x, y, p, q
        <5>1. QED
          BY <3>2, <3>4, <4>0, <4>1
      <4>2. CASE h \in A /\ h \notin B /\ h \notin C /\ h \in D /\ (q <=> p) /\ y = x + 1 /\ faults' = faults
        <5> HIDE DEF A, B, C, D, n, x, y, p, q
        <5>1. QED
          BY <3>2, <3>3, <3>4, <4>0, <4>2
      <4>3. CASE h \in A /\ h \notin B /\ h \notin C /\ h \notin D /\ (q <=> p) /\ y = x + 1 /\ faults' = faults + 1
        <5> HIDE DEF A, B, C, D, n, x, y, p, q
        <5>1. QED
          BY <3>2, <3>3, <3>4, <4>0, <4>3
      <4>4. CASE h \in C /\ h \notin A /\ h \notin B /\ h \notin D /\ q /\ y = x /\ faults' = faults
        <5> HIDE DEF A, B, C, D, n, x, y, p, q
        <5>1. QED
          BY <3>2, <3>3, <3>5, <4>0, <4>4
      <4>5. CASE h \notin B /\ h \notin D /\ (q <=> p) /\ y = x /\ faults' = faults + 1
        <5> HIDE DEF A, B, C, D, n, x, y, p, q
        <5>1. QED
          BY <3>2, <3>3, <3>4, <4>0, <4>5
      <4>6. CASE h \notin A /\ h \notin B /\ (h \in C <=> h \in D) /\ (q <=> p) /\ y = x /\ faults' = faults
        <5> HIDE DEF A, B, C, D, n, x, y, p, q
        <5>1. QED
          BY <3>2, <3>3, <3>4, <4>0, <4>6
      <4>7. QED
        <5> HIDE DEF A, B, C, D, n
        <5>1. QED
          BY <3>7, <4>1, <4>2, <4>3, <4>4, <4>5, <4>6
    <3>9. QED
      BY <3>8
  <2>5. QED
    BY <2>1, <2>2, <2>3, <2>4 DEF ReportsCallInv
<1>2. CASE Reports!Clock \/ (\E n, m \in MostFound : Reports!DataChange(n, m)) \/ UNCHANGED Reports!vars
  <2>1. UNCHANGED <<frame, reports, calls, faults>>
    BY <1>2 DEF Reports!Clock, Reports!DataChange, Reports!vars, Reports!reportVars
  <2>2. \A w : ReportsAsking(w)' = ReportsAsking(w) /\ ReportsAnswered(w)' = ReportsAnswered(w)
    BY <2>1 DEF ReportsAsking, ReportsAnswered, Reports!Serving, Reports!At
  <2>3. QED
    BY <2>1, <2>2 DEF ReportsCallInv
<1>3. QED
  BY <1>1, <1>2 DEF Reports!Next, ReportsStepOf

(* The provider is asked for the same report no more often than there are  *)
(* requests that can miss it at the same time, and once more for each      *)
(* answer that was lost or could not be used, whatever the contexts are    *)
(* (generateReportFromContext).                                            *)
THEOREM ReportsCalls == Reports!Spec => []Reports!CallsBounded
<1>1. ASSUME Reports!Init PROVE ReportsCallInv
  <2>1. frame = [h \in Handlers |-> Reports!Idle] /\ calls = [w \in Reports!Asked |-> 0] /\ faults = 0 /\ reports = {}
    BY <1>1 DEF Reports!Init, Reports!ServerInit
  <2>2. \A w \in Reports!Asked : Cardinality(ReportsAnswered(w)) \in Nat
    <3>1. ASSUME NEW w \in Reports!Asked PROVE ReportsAnswered(w) \in SUBSET Handlers
      BY DEF ReportsAnswered, Reports!Serving
    <3>2. QED
      BY <3>1, SomeCounted
  <2>3. \A w \in Reports!Asked : calls[w] <= Cardinality(ReportsAnswered(w)) + faults
    BY <2>1, <2>2
  <2>4. QED
    BY <2>1, <2>3 DEF ReportsCallInv
<1>2. ASSUME ReportsCallInv PROVE Reports!CallsBounded
  <2>1. ASSUME NEW w \in Reports!Asked PROVE calls[w] <= Cardinality(Handlers) + faults
    <3>1. ReportsAsking(w) \in SUBSET Handlers /\ ReportsAnswered(w) \in SUBSET Handlers
      BY DEF ReportsAsking, ReportsAnswered, Reports!Serving
    <3>2. /\ Cardinality(ReportsAsking(w)) \in Nat /\ Cardinality(ReportsAnswered(w)) \in Nat
          /\ Cardinality(ReportsAnswered(w)) <= Cardinality(Handlers) /\ Cardinality(Handlers) \in Nat
      BY <3>1, SomeCounted, HandlersCounted
    <3>3. /\ calls[w] \in Nat /\ faults \in Nat
          /\ \/ calls[w] + Cardinality(ReportsAsking(w)) <= Cardinality(Handlers) + faults
             \/ calls[w] <= Cardinality(ReportsAnswered(w)) + faults
      BY <1>2 DEF ReportsCallInv
    <3> DEFINE a == Cardinality(ReportsAsking(w))
               b == Cardinality(ReportsAnswered(w))
               n == Cardinality(Handlers)
               x == calls[w]
    <3>4. /\ a \in Nat /\ b \in Nat /\ n \in Nat /\ x \in Nat /\ faults \in Nat /\ b <= n
          /\ x + a <= n + faults \/ x <= b + faults
      BY <3>2, <3>3
    <3> HIDE DEF a, b, n, x
    <3>5. x <= n + faults
      BY <3>4
    <3>6. QED
      BY <3>5 DEF n, x
  <2>2. QED
    BY <2>1, ReportsCount DEF Reports!CallsBounded
<1>3. QED
  BY <1>1, <1>2, ReportsCallStep, PTL DEF Reports!Spec
\* The context that is sent.

\* A context with an entry less.
ReportsLess(d) == [d EXCEPT !.insights = @ - 1]
ReportsFewer(d) == [d EXCEPT !.executed = @ - 1]

\* What the trimming of Trimmed makes of every context.
ReportsTrims(t) ==
  t = [d \in Reports!Contexts |->
        IF Reports!Size(d) <= Budget THEN {d}
        ELSE IF d.insights > Keep THEN t[ReportsLess(d)]
        ELSE IF d.executed > Keep THEN t[ReportsFewer(d)]
        ELSE {}]

ReportsLow(n) == IF n < Keep THEN n ELSE Keep

\* The contexts that are left when entries are dropped until they fit, and those that keep most.
ReportsAllowed(c) ==
  {d \in Reports!Contexts : /\ d.end = c.end
                            /\ d.insights \in ReportsLow(c.insights)..c.insights
                            /\ d.executed \in ReportsLow(c.executed)..c.executed
                            /\ Reports!Size(d) <= Budget}
ReportsBest(S) ==
  {d \in S : \A e \in S : \/ e.executed < d.executed
                          \/ e.executed = d.executed /\ e.insights <= d.insights}

LEMMA ReportsContext ==
  ASSUME NEW d \in Reports!Contexts
  PROVE  /\ d.insights \in Nat /\ d.executed \in Nat /\ Reports!Size(d) \in Nat
         /\ d.insights \in MostFound /\ d.executed \in MostFound /\ d.end \in 1..MaxMoments
         /\ d.insights > Keep =>
              /\ ReportsLess(d) \in Reports!Contexts /\ ReportsLess(d).insights = d.insights - 1
              /\ ReportsLess(d).executed = d.executed /\ ReportsLess(d).end = d.end
         /\ d.executed > Keep =>
              /\ ReportsFewer(d) \in Reports!Contexts /\ ReportsFewer(d).executed = d.executed - 1
              /\ ReportsFewer(d).insights = d.insights /\ ReportsFewer(d).end = d.end
<1>1. d.insights \in MostFound /\ d.executed \in MostFound /\ d.end \in 1..MaxMoments /\ MostFound \subseteq Nat
  BY ReportConstants DEF Reports!Contexts
<1>2. Reports!Size(d) \in Nat
  <2> DEFINE k == d.insights + d.executed
  <2>1. k \in Nat
    <3>1. d.insights \in Nat /\ d.executed \in Nat
      BY <1>1
    <3>2. QED
      BY <3>1
  <2>0. PerItem \in Nat /\ Base \in Nat
    BY ReportConstants
  <2>2. Reports!Size(d) = Base + (PerItem * k)
    BY DEF Reports!Size
  <2> HIDE DEF k
  <2>3. QED
    BY <2>0, <2>1, <2>2
<1>3. \A n \in MostFound : n > Keep => n - 1 \in MostFound
  <2>1. ASSUME NEW n \in MostFound, n > Keep PROVE n - 1 \in MostFound
    <3>1. Keep..n \subseteq MostFound /\ Keep \in Nat /\ n \in Nat
      BY <1>1, ReportConstants
    <3>2. n - 1 \in Keep..n
      BY <2>1, <3>1
    <3>3. QED
      BY <3>1, <3>2
  <2>2. QED
    BY <2>1
<1>4. d = [end |-> d.end, insights |-> d.insights, executed |-> d.executed]
  BY DEF Reports!Contexts
<1>5. d.insights > Keep =>
        ReportsLess(d) = [end |-> d.end, insights |-> d.insights - 1, executed |-> d.executed]
  BY <1>4 DEF ReportsLess
<1>6. d.executed > Keep =>
        ReportsFewer(d) = [end |-> d.end, insights |-> d.insights, executed |-> d.executed - 1]
  BY <1>4 DEF ReportsFewer
<1>7. ASSUME d.insights > Keep
      PROVE  /\ ReportsLess(d) \in Reports!Contexts /\ ReportsLess(d).insights = d.insights - 1
             /\ ReportsLess(d).executed = d.executed /\ ReportsLess(d).end = d.end
  <2>1. d.insights - 1 \in MostFound
    BY <1>1, <1>3, <1>7
  <2>2. QED
    BY <1>1, <1>5, <1>7, <2>1 DEF Reports!Contexts
<1>8. ASSUME d.executed > Keep
      PROVE  /\ ReportsFewer(d) \in Reports!Contexts /\ ReportsFewer(d).executed = d.executed - 1
             /\ ReportsFewer(d).insights = d.insights /\ ReportsFewer(d).end = d.end
  <2>1. d.executed - 1 \in MostFound
    BY <1>1, <1>3, <1>8
  <2>2. QED
    BY <1>1, <1>6, <1>8, <2>1 DEF Reports!Contexts
<1>9. d.insights \in Nat /\ d.executed \in Nat
  BY <1>1
<1>10. QED
  BY <1>1, <1>2, <1>7, <1>8, <1>9

LEMMA ReportsTrimsExists == \E t : ReportsTrims(t)
<1> DEFINE V == SUBSET Reports!Contexts
           Body(f, d) == IF Reports!Size(d) <= Budget THEN {d}
                         ELSE IF d.insights > Keep THEN f[ReportsLess(d)]
                         ELSE IF d.executed > Keep THEN f[ReportsFewer(d)]
                         ELSE {}
           B == [f \in [Reports!Contexts -> V] |-> [d \in Reports!Contexts |-> Body(f, d)]]
           e == [d \in Reports!Contexts |-> {}]
           m == [d \in Reports!Contexts |-> d.insights + d.executed]
<1>1. ASSUME NEW f \in [Reports!Contexts -> V], NEW d \in Reports!Contexts PROVE Body(f, d) \in V
  <2>1. d.insights > Keep => f[ReportsLess(d)] \in V
    BY ReportsContext
  <2>2. d.executed > Keep => f[ReportsFewer(d)] \in V
    BY ReportsContext
  <2>3. QED
    BY <2>1, <2>2
<1>2. ASSUME NEW f \in [Reports!Contexts -> V], NEW g \in [Reports!Contexts -> V], NEW d \in Reports!Contexts,
             \A q \in Reports!Contexts : m[q] < m[d] => f[q] = g[q]
      PROVE  Body(f, d) = Body(g, d)
  <2>1. ASSUME d.insights > Keep PROVE f[ReportsLess(d)] = g[ReportsLess(d)]
    BY <1>2, <2>1, ReportsContext
  <2>2. ASSUME d.executed > Keep PROVE f[ReportsFewer(d)] = g[ReportsFewer(d)]
    BY <1>2, <2>2, ReportsContext
  <2>3. QED
    BY <2>1, <2>2
<1>3. PICK k \in Nat : MostFound \subseteq 0..k
  BY ReportConstants, Bounded
<1>4. m \in [Reports!Contexts -> 0..(k + k)]
  BY <1>3, ReportsContext
<1>5. e \in [Reports!Contexts -> V]
  OBVIOUS
<1> HIDE DEF Body, m, e
<1>6. B \in [[Reports!Contexts -> V] -> [Reports!Contexts -> V]]
  BY <1>1
<1>7. \A f, g \in [Reports!Contexts -> V] : \A p \in Reports!Contexts :
        (\A q \in Reports!Contexts : m[q] < m[p] => f[q] = g[q]) => B[f][p] = B[g][p]
  BY <1>2
<1> HIDE DEF V
<1>8. PICK f \in [Reports!Contexts -> V] : f = B[f]
  <2> DEFINE n == k + k
  <2>1. n \in Nat /\ m \in [Reports!Contexts -> 0..n]
    BY <1>4
  <2> HIDE DEF B, n
  <2>2. Measured(Reports!Contexts, V, e, B, n, m)
    BY <1>5, <1>6, <1>7, <2>1 DEF Measured
  <2>3. QED
    BY <2>2, Recursive
<1>9. f = [d \in Reports!Contexts |-> Body(f, d)]
  BY <1>8
<1>10. QED
  BY <1>9 DEF Body, ReportsTrims

LEMMA ReportsTrimsKeepMost ==
  ASSUME NEW t, ReportsTrims(t)
  PROVE  \A d \in Reports!Contexts : t[d] = ReportsBest(ReportsAllowed(d))
<1> DEFINE Bad == {k \in Nat : \E d \in Reports!Contexts : d.insights + d.executed = k /\ t[d] # ReportsBest(ReportsAllowed(d))}
<1>1. SUFFICES Bad = {}
  BY ReportsContext
<1>2. SUFFICES ASSUME Bad # {} PROVE FALSE
  OBVIOUS
<1>3. PICK k \in Bad : \A i \in Bad : k <= i
  BY <1>2, Least
<1>4. PICK d \in Reports!Contexts : d.insights + d.executed = k /\ t[d] # ReportsBest(ReportsAllowed(d))
  BY <1>3
<1>5. ASSUME NEW q \in Reports!Contexts, q.insights + q.executed < k PROVE t[q] = ReportsBest(ReportsAllowed(q))
  BY <1>3, <1>5, ReportsContext
<1> HIDE DEF Bad
<1>6. \A q \in Reports!Contexts : q.insights \in Nat /\ q.executed \in Nat /\ Reports!Size(q) \in Nat
  BY ReportsContext
<1>7. Keep \in Nat /\ Budget \in Nat /\ Base \in Nat /\ PerItem \in Nat
  BY ReportConstants
<1>8. \A q, r \in Reports!Contexts :
        q.insights + q.executed = r.insights + r.executed => Reports!Size(q) = Reports!Size(r)
  BY <1>6, <1>7 DEF Reports!Size
<1>9. CASE Reports!Size(d) <= Budget
  <2>1. t[d] = {d}
    BY <1>9 DEF ReportsTrims
  <2>2. d \in ReportsAllowed(d)
    BY <1>6, <1>7, <1>9 DEF ReportsAllowed, ReportsLow
  <2>3. \A q \in ReportsAllowed(d) : q.executed <= d.executed /\ q.insights <= d.insights
    BY <1>6, <1>7 DEF ReportsAllowed, ReportsLow
  <2>4. \A q \in ReportsAllowed(d) : q.executed = d.executed /\ q.insights = d.insights => q = d
    BY DEF ReportsAllowed, Reports!Contexts
  <2>5. ReportsBest(ReportsAllowed(d)) = {d}
    BY <1>6, <2>2, <2>3, <2>4 DEF ReportsBest, ReportsAllowed
  <2>6. QED
    BY <1>4, <2>1, <2>5
<1>10. CASE Reports!Size(d) > Budget /\ d.insights > Keep
  <2>1. t[d] = t[ReportsLess(d)]
    <3>1. ~(Reports!Size(d) <= Budget)
      BY <1>6, <1>7, <1>10
    <3>2. QED
      BY <1>10, <3>1 DEF ReportsTrims
  <2>2. ReportsLess(d) \in Reports!Contexts /\ ReportsLess(d).insights = d.insights - 1 /\ ReportsLess(d).executed = d.executed /\ ReportsLess(d).end = d.end
    BY <1>10, ReportsContext
  <2>3. t[ReportsLess(d)] = ReportsBest(ReportsAllowed(ReportsLess(d)))
    BY <1>4, <1>5, <1>6, <2>2
  <2>4. \A q \in Reports!Contexts : q \in ReportsAllowed(ReportsLess(d)) <=> q \in ReportsAllowed(d) /\ q.insights # d.insights
    BY <1>6, <1>7, <1>10, <2>2 DEF ReportsAllowed, ReportsLow
  <2>5. ASSUME NEW q \in ReportsAllowed(d), q.insights = d.insights
        PROVE  \E r \in ReportsAllowed(ReportsLess(d)) : r.executed > q.executed
    <3>1. q \in Reports!Contexts /\ q.end = d.end /\ q.executed <= d.executed /\ Reports!Size(q) <= Budget
      BY <1>6, <1>7, <2>5 DEF ReportsAllowed, ReportsLow
    <3>2. q.executed # d.executed
      BY <1>6, <1>7, <1>8, <1>10, <2>5, <3>1
    <3> DEFINE r == [end |-> d.end, insights |-> d.insights - 1, executed |-> q.executed + 1]
    <3>3. r \in Reports!Contexts
      <4>1. q.executed + 1 \in MostFound
        <5>1. d.executed \in MostFound /\ q.executed >= ReportsLow(d.executed)
          BY <1>6, <1>7, <2>5, ReportsContext DEF ReportsAllowed, ReportsLow
        <5>2. q.executed + 1 \in Keep..d.executed
          BY <1>6, <1>7, <3>1, <3>2, <5>1 DEF ReportsLow
        <5>3. QED
          BY <5>1, <5>2, ReportConstants
      <4>2. d.insights - 1 \in MostFound /\ d.end \in 1..MaxMoments
        BY <1>10, <2>2, ReportsContext
      <4>3. QED
        BY <4>1, <4>2 DEF Reports!Contexts
    <3>4. r.end = d.end /\ r.insights = d.insights - 1 /\ r.executed = q.executed + 1
      OBVIOUS
    <3> HIDE DEF r
    <3>5. Reports!Size(r) = Reports!Size(q)
      BY <1>6, <1>8, <2>5, <3>1, <3>3, <3>4
    <3>6. r \in ReportsAllowed(ReportsLess(d))
      BY <1>6, <1>7, <1>10, <2>2, <2>5, <3>1, <3>2, <3>3, <3>4, <3>5 DEF ReportsAllowed, ReportsLow
    <3>7. QED
      BY <1>6, <3>1, <3>4, <3>6
  <2>6. ReportsAllowed(d) \subseteq Reports!Contexts /\ ReportsAllowed(ReportsLess(d)) \subseteq ReportsAllowed(d)
    BY <2>4 DEF ReportsAllowed
  <2>7. ReportsBest(ReportsAllowed(d)) \subseteq ReportsBest(ReportsAllowed(ReportsLess(d)))
    <3>1. ASSUME NEW q \in ReportsBest(ReportsAllowed(d)) PROVE q.insights # d.insights
      BY <1>6, <2>5, <2>6, <3>1 DEF ReportsBest
    <3>2. QED
      BY <2>4, <2>6, <3>1 DEF ReportsBest
  <2>8. ReportsBest(ReportsAllowed(ReportsLess(d))) \subseteq ReportsBest(ReportsAllowed(d))
    <3>1. ASSUME NEW q \in ReportsBest(ReportsAllowed(ReportsLess(d))), NEW r \in ReportsAllowed(d)
          PROVE  r.executed < q.executed \/ (r.executed = q.executed /\ r.insights <= q.insights)
      <4>1. CASE r.insights # d.insights
        BY <2>4, <2>6, <4>1 DEF ReportsBest
      <4>2. CASE r.insights = d.insights
        <5>1. PICK s \in ReportsAllowed(ReportsLess(d)) : s.executed > r.executed
          BY <2>5, <4>2
        <5>2. s.executed <= q.executed /\ s \in Reports!Contexts /\ q \in Reports!Contexts /\ r \in Reports!Contexts
          BY <1>6, <2>6 DEF ReportsBest
        <5>3. QED
          BY <1>6, <5>1, <5>2
      <4>3. QED
        BY <4>1, <4>2
    <3>2. QED
      BY <2>6, <3>1 DEF ReportsBest
  <2>9. QED
    BY <1>4, <2>1, <2>3, <2>7, <2>8
<1>11. CASE Reports!Size(d) > Budget /\ ~(d.insights > Keep) /\ d.executed > Keep
  <2>1. t[d] = t[ReportsFewer(d)]
    <3>1. ~(Reports!Size(d) <= Budget)
      BY <1>6, <1>7, <1>11
    <3>2. QED
      BY <1>11, <3>1 DEF ReportsTrims
  <2>2. ReportsFewer(d) \in Reports!Contexts /\ ReportsFewer(d).insights = d.insights /\ ReportsFewer(d).executed = d.executed - 1 /\ ReportsFewer(d).end = d.end
    BY <1>11, ReportsContext
  <2>3. t[ReportsFewer(d)] = ReportsBest(ReportsAllowed(ReportsFewer(d)))
    BY <1>4, <1>5, <1>6, <2>2
  <2>4. \A q \in ReportsAllowed(d) : q \in Reports!Contexts /\ q.insights = d.insights /\ q.executed # d.executed
    BY <1>6, <1>7, <1>8, <1>11 DEF ReportsAllowed, ReportsLow
  <2>5. ReportsAllowed(d) = ReportsAllowed(ReportsFewer(d))
    <3>1. ReportsAllowed(d) \subseteq ReportsAllowed(ReportsFewer(d))
      BY <1>6, <1>7, <1>11, <2>2, <2>4 DEF ReportsAllowed, ReportsLow
    <3>2. ReportsAllowed(ReportsFewer(d)) \subseteq ReportsAllowed(d)
      BY <1>6, <1>7, <1>11, <2>2 DEF ReportsAllowed, ReportsLow
    <3>3. QED
      BY <3>1, <3>2
  <2>6. QED
    BY <1>4, <2>1, <2>3, <2>5
<1>12. CASE Reports!Size(d) > Budget /\ ~(d.insights > Keep) /\ ~(d.executed > Keep)
  <2>1. t[d] = {}
    BY <1>6, <1>7, <1>12 DEF ReportsTrims
  <2>2. ReportsAllowed(d) = {}
    BY <1>6, <1>7, <1>8, <1>12 DEF ReportsAllowed, ReportsLow
  <2>3. QED
    BY <1>4, <2>1, <2>2 DEF ReportsBest
<1>13. QED
  BY <1>6, <1>7, <1>9, <1>10, <1>11, <1>12

\* The context of a report is the best that fits.
LEMMA ReportsTrimmedIsBest ==
  ASSUME NEW c \in Reports!Contexts
  PROVE  /\ Reports!Trimmed(c) = ReportsBest(ReportsAllowed(c))
         /\ Reports!Size(c) <= Budget => Reports!Trimmed(c) = {c}
<1> DEFINE t == CHOOSE f : ReportsTrims(f)
<1>1. ReportsTrims(t)
  BY ReportsTrimsExists
<1>2. Reports!Trimmed(c) = t[c]
  BY DEF Reports!Trimmed, ReportsTrims, ReportsLess, ReportsFewer
<1> HIDE DEF t
<1>3. t[c] = ReportsBest(ReportsAllowed(c))
  BY <1>1, ReportsTrimsKeepMost
<1>4. Reports!Size(c) <= Budget => t[c] = {c}
  BY <1>1 DEF ReportsTrims
<1>5. QED
  BY <1>2, <1>3, <1>4

\* Types.

(* The requests under way, the stored reports and the answers given keep   *)
(* their types: what is asked about is a context, however it was cut.      *)
THEOREM ReportsTypeCorrect == Reports!Spec => []Reports!TypeOK
<1>1. Reports!Init => Reports!TypeOK
  BY ReportConstants DEF Reports!Init, Reports!ServerInit, Reports!TypeOK, Reports!Idle
<1>2. ASSUME Reports!TypeOK, [Reports!Next]_(Reports!vars) PROVE Reports!TypeOK'
  <2>0. Reports!Collected \in Reports!Contexts
    BY <1>2 DEF Reports!TypeOK, Reports!Collected, Reports!Contexts
  <2>1. CASE Reports!Clock
    BY <1>2, <2>1, ReportConstants DEF Reports!TypeOK, Reports!Clock
  <2>2. CASE \E n, m \in MostFound : Reports!DataChange(n, m)
    BY <1>2, <2>2 DEF Reports!TypeOK, Reports!DataChange
  <2>3. ASSUME NEW h \in Handlers, NEW t \in Reports!ReportTypes, Reports!Generate(h, t) PROVE Reports!TypeOK'
    <3>1. PICK c \in Reports!Trimmed(Reports!Collected) : Reports!Serve(h, [op |-> "ask", what |-> <<t, c>>])
      BY <2>3 DEF Reports!Generate
    <3>2. c \in Reports!Contexts
      BY <2>0, ReportsTrimmedIsBest DEF ReportsBest, ReportsAllowed
    <3>3. <<t, c>> \in Reports!Asked
      BY <3>2 DEF Reports!Asked
    <3>4. frame' \in [Handlers -> {Reports!Idle} \cup [op : {"ask", "store"}, what : Reports!Asked]]
      BY <1>2, <3>1, <3>3 DEF Reports!TypeOK, Reports!Serve
    <3>5. QED
      BY <1>2, <2>3, <3>4, ReportConstants DEF Reports!TypeOK, Reports!Generate
  <2>4. ASSUME NEW h \in Handlers, Reports!Answer(h) PROVE Reports!TypeOK'
    <3>1. frame[h] \in [op : {"ask", "store"}, what : Reports!Asked]
      BY <1>2, <2>4 DEF Reports!TypeOK, Reports!Answer, Reports!At, Reports!Idle
    <3>2. frame[h].what \in Reports!Asked /\ [frame[h] EXCEPT !.op = "store"] \in [op : {"ask", "store"}, what : Reports!Asked]
      BY <3>1
    <3>3. frame' \in [Handlers -> {Reports!Idle} \cup [op : {"ask", "store"}, what : Reports!Asked]]
      BY <1>2, <2>4, <3>2 DEF Reports!TypeOK, Reports!Answer, Reports!GoOn, Reports!Finish
    <3>4. calls' \in [Reports!Asked -> Nat]
      BY <1>2, <2>4, <3>2 DEF Reports!TypeOK, Reports!Answer
    <3>5. faults' \in 0..MaxFaults
      BY <1>2, <2>4, ReportConstants DEF Reports!TypeOK, Reports!Answer
    <3>6. QED
      BY <1>2, <2>4, <3>3, <3>4, <3>5 DEF Reports!TypeOK, Reports!Answer
  <2>5. ASSUME NEW h \in Handlers, Reports!Store(h) PROVE Reports!TypeOK'
    <3>1. frame[h] \in [op : {"ask", "store"}, what : Reports!Asked]
      BY <1>2, <2>5 DEF Reports!TypeOK, Reports!Store, Reports!At, Reports!Idle
    <3>2. QED
      BY <1>2, <2>5, <3>1 DEF Reports!TypeOK, Reports!Store, Reports!Finish, Reports!GoOn
  <2>6. ASSUME NEW h \in Handlers, Reports!Lost(h) PROVE Reports!TypeOK'
    BY <1>2, <2>6, ReportConstants DEF Reports!TypeOK, Reports!Lost, Reports!Drop, Reports!Finish, Reports!GoOn
  <2>7. CASE UNCHANGED Reports!vars
    BY <1>2, <2>7 DEF Reports!TypeOK, Reports!vars, Reports!reportVars
  <2>8. QED
    BY <1>2, <2>1, <2>2, <2>3, <2>4, <2>5, <2>6, <2>7
    DEF Reports!Next, Reports!GenerateCeoDailyBrief, Reports!GenerateScoreDropExplain, Reports!ReportTypes
<1>3. QED
  BY <1>1, <1>2, PTL DEF Reports!Spec

(* The context sent is the one that keeps, of all contexts that fit, most  *)
(* executed actions, and with that many most insights; and a request that  *)
(* is refused could not have kept three of each (enforceContextSize).      *)
THEOREM ReportsTrimming == Reports!Spec => []Reports!TrimmedKeepsMost
<1>1. ASSUME Reports!TypeOK PROVE Reports!TrimmedKeepsMost
  <2>1. Reports!Collected \in Reports!Contexts
    BY <1>1 DEF Reports!TypeOK, Reports!Collected, Reports!Contexts
  <2>2. /\ Reports!Trimmed(Reports!Collected) = ReportsBest(ReportsAllowed(Reports!Collected))
        /\ Reports!Size(Reports!Collected) <= Budget => Reports!Trimmed(Reports!Collected) = {Reports!Collected}
    BY <2>1, ReportsTrimmedIsBest
  <2>3. Reports!Collected.end = moment /\ Reports!Collected.insights = insights /\ Reports!Collected.executed = executed
    BY DEF Reports!Collected
  <2>4. QED
    BY <2>2, <2>3 DEF Reports!TrimmedKeepsMost, ReportsBest, ReportsAllowed, ReportsLow
<1>2. QED
  BY <1>1, ReportsTypeCorrect, PTL
=============================================================================
