---------------------------- MODULE StatusAccess ----------------------------
(***************************************************************************)
(* Who gets to a private status page and who is told about changes         *)
(* (status/status.service.ts): sign-in links sent by mail, limited to      *)
(* LinkLimit an hour by a list of times in memory, and subscribers, whose  *)
(* number is limited and who confirm and leave with a token each.          *)
(***************************************************************************)
EXTENDS Server

CONSTANTS
  MaxLinks,         \* bound on the links of one address
  LinkLimit,        \* links an address may ask for in an hour
  MaxSubscribers,   \* bound on the subscriptions
  SubscriberLimit   \* STATUS_MAX_SUBSCRIBERS

Links == 1..MaxLinks
Subscribers == 1..MaxSubscribers

VARIABLES
  allowed,      \* the page takes sign-in links and the address belongs to an allowed domain
  asked,        \* times in the list of the last hour
  link,         \* state of each link
  sessions,     \* sessions started with each of them
  subscriber    \* state of each subscription

accessVars == <<allowed, asked, link, sessions, subscriber>>
vars == <<frame, accessVars>>

TypeOK ==
  /\ frame \in [Handlers -> {Idle} \cup [op : {"link", "subscribe"}]
       \cup [op : {"use", "session"}, link : Links] \cup [op : {"unsubscribe"}, s : Subscribers]]
  /\ allowed \in BOOLEAN
  /\ asked \in 0..LinkLimit
  /\ link \in [Links -> {"none", "open", "expired", "used"}]
  /\ sessions \in [Links -> Nat]
  /\ subscriber \in [Subscribers -> {"none", "waiting", "confirmed", "gone"}]

Init ==
  /\ ServerInit
  /\ allowed = FALSE
  /\ asked = 0
  /\ link = [l \in Links |-> "none"]
  /\ sessions = [l \in Links |-> 0]
  /\ subscriber = [s \in Subscribers |-> "none"]

-----------------------------------------------------------------------------
(* Sign-in links.                                                          *)

\* updateStatusSettings changes the visibility or the allowed domains.
AccessChanges ==
  /\ allowed' = ~allowed
  /\ UNCHANGED <<frame, asked, link, sessions, subscriber>>

\* requestMagicLink: the address is allowed and has asked fewer than LinkLimit times in the
\* last hour; the list is read and written without an await between ...
LinkRequest(h) ==
  /\ allowed
  /\ asked < LinkLimit
  /\ asked' = asked + 1
  /\ Serve(h, [op |-> "link"])
  /\ UNCHANGED <<allowed, link, sessions, subscriber>>

\* ... and a link is stored and sent.
LinkInsert(h) ==
  /\ At(h, "link")
  /\ \E l \in Links :
       /\ link[l] = "none" /\ \A k \in 1..(l - 1) : link[k] # "none"
       /\ link' = [link EXCEPT ![l] = "open"]
  /\ Finish(h)
  /\ UNCHANGED <<allowed, asked, sessions, subscriber>>

LinkExpires(l) ==
  /\ link[l] = "open"
  /\ link' = [link EXCEPT ![l] = "expired"]
  /\ UNCHANGED <<frame, allowed, asked, sessions, subscriber>>

HourPasses ==
  /\ asked > 0
  /\ asked' = 0
  /\ UNCHANGED <<frame, allowed, link, sessions, subscriber>>

\* Mutant: a link that was used is found again.
LinkReadUsed(h, l) ==
  /\ allowed
  /\ link[l] \in {"open", "used"}
  /\ Serve(h, [op |-> "use", link |-> l])
  /\ UNCHANGED accessVars

\* verifyMagicLink checks the domain again and finds a link neither used nor expired ...
LinkRead(h, l) ==
  /\ allowed
  /\ link[l] = "open"
  /\ Serve(h, [op |-> "use", link |-> l])
  /\ UNCHANGED accessVars

\* ... marks it used, whether it is by now or not ...
LinkUse(h) ==
  /\ At(h, "use")
  /\ link' = [link EXCEPT ![frame[h].link] = "used"]
  /\ GoOn(h, [op |-> "session", link |-> frame[h].link])
  /\ UNCHANGED <<allowed, asked, sessions, subscriber>>

\* ... and signs a session.
LinkSession(h) ==
  /\ At(h, "session")
  /\ sessions' = [sessions EXCEPT ![frame[h].link] = @ + 1]
  /\ Finish(h)
  /\ UNCHANGED <<allowed, asked, link, subscriber>>

-----------------------------------------------------------------------------
(* Subscribers.                                                            *)

Subscribed == {s \in Subscribers : subscriber[s] \in {"waiting", "confirmed"}}

\* subscribe counts the rows ...
SubscribeCount(h) ==
  /\ Cardinality(Subscribed) < SubscriberLimit
  /\ Serve(h, [op |-> "subscribe"])
  /\ UNCHANGED accessVars

\* ... and inserts one with its subscriptions; a webhook needs no confirmation.
SubscribeInsert(h) ==
  /\ At(h, "subscribe")
  /\ \E s \in Subscribers, state \in {"waiting", "confirmed"} :
       /\ subscriber[s] = "none" /\ \A k \in 1..(s - 1) : subscriber[k] # "none"
       /\ subscriber' = [subscriber EXCEPT ![s] = state]
  /\ Finish(h)
  /\ UNCHANGED <<allowed, asked, link, sessions>>

\* confirm is a single update of the row if it is not confirmed.
Confirm(s) ==
  /\ subscriber[s] = "waiting"
  /\ subscriber' = [subscriber EXCEPT ![s] = "confirmed"]
  /\ UNCHANGED <<frame, allowed, asked, link, sessions>>

\* unsubscribe finds the row by its token ...
UnsubscribeRead(h, s) ==
  /\ s \in Subscribed
  /\ Serve(h, [op |-> "unsubscribe", s |-> s])
  /\ UNCHANGED accessVars

\* ... and deletes it and its subscriptions together; a second time that fails.
UnsubscribeWrite(h) ==
  /\ At(h, "unsubscribe")
  /\ subscriber' = [subscriber EXCEPT ![frame[h].s] = "gone"]
  /\ Finish(h)
  /\ UNCHANGED <<allowed, asked, link, sessions>>

Lost(h) ==
  /\ Drop(h)
  /\ UNCHANGED accessVars

Next ==
  \/ AccessChanges \/ HourPasses
  \/ \E l \in Links : LinkExpires(l)
  \/ \E s \in Subscribers : Confirm(s)
  \/ \E h \in Handlers :
       \/ LinkRequest(h) \/ LinkInsert(h) \/ LinkUse(h) \/ LinkSession(h)
       \/ SubscribeCount(h) \/ SubscribeInsert(h) \/ UnsubscribeWrite(h) \/ Lost(h)
       \/ \E l \in Links : LinkRead(h, l)
       \/ \E s \in Subscribers : UnsubscribeRead(h, s)

Spec == Init /\ [][Next]_vars

-----------------------------------------------------------------------------
(* Properties.                                                             *)

(* A sign-in link starts at most one session for each handler: requests    *)
(* that present it at the same time all find it open, none that comes      *)
(* after the first was marked does (verifyMagicLink).                      *)
LinksStartOnce == \A l \in Links : sessions[l] <= Cardinality(Handlers)

(* Subscriptions that count at the same time exceed the limit by less than *)
(* one for each handler (subscribeForOrg).                                 *)
SubscriberOvershoot == Cardinality(Subscribed) < SubscriberLimit + Cardinality(Handlers)
=============================================================================
