------------------------------ MODULE Billing ------------------------------
(***************************************************************************)
(* What an organization pays for (billing/billing.service.ts,              *)
(* billing/razorpay-webhook.util.ts).                                      *)
(*                                                                         *)
(* The subscription row is made on first use and points to one of the      *)
(* provider's subscriptions.  The provider reports what happens to each of *)
(* them; a report may be late, overtaken or repeated, and is applied when  *)
(* it arrives, to the row that points to that subscription.                *)
(***************************************************************************)
EXTENDS Server, Sequences

CONSTANTS
  Plans,        \* keys of plans, "starter" among them
  MaxRemote,    \* bound on the provider's subscriptions
  MaxEvents     \* bound on the events of one of them

Starter == "starter"
NoRow == [status |-> "none"]
Remotes == 1..MaxRemote

\* What the provider reports, with the status mapRazorpayWebhookEvent makes of it.
LocalStatus == [activated |-> "ACTIVE", charged |-> "ACTIVE", halted |-> "PAST_DUE", cancelled |-> "CANCELED"]
Events == DOMAIN LocalStatus

VARIABLES
  subscription,  \* the row of the organization
  remote,        \* plan and last event of each subscription at the provider
  reports,       \* events of each of them that are still to be delivered
  reported,      \* number of its events so far
  disturbed      \* whether billing requests overlapped, failed or came out of order

billingVars == <<subscription, remote, reports, reported, disturbed>>
vars == <<frame, billingVars>>

Rows == {NoRow} \cup [status : {"TRIAL", "ACTIVE", "PAST_DUE", "CANCELED"}, plan : Plans, id : 0..MaxRemote]

TypeOK ==
  /\ frame \in [Handlers -> {Idle}
       \cup [op : {"first"}, next : {"use", "subscribe"}]
       \cup [op : {"subscribe"}]
       \cup [op : {"store"}, id : Remotes] \cup [op : {"apply"}, id : Remotes, event : Events]]
  /\ subscription \in Rows
  /\ remote \in [Remotes -> [plan : Plans, last : Events \cup {"created", "none"}]]
  /\ reports \in [Remotes -> Seq(Events)]
  /\ reported \in [Remotes -> 0..MaxEvents]
  /\ disturbed \in BOOLEAN

Init ==
  /\ ServerInit
  /\ subscription = NoRow
  /\ remote = [i \in Remotes |-> [plan |-> Starter, last |-> "none"]]
  /\ reports = [i \in Remotes |-> <<>>]
  /\ reported = [i \in Remotes |-> 0]
  /\ disturbed = FALSE

BillingOps == {"first", "subscribe", "store", "apply"}

\* Two requests that work on the subscription are under way.
Overlap == \E g \in Handlers : frame[g].op \in BillingOps

-----------------------------------------------------------------------------
(* Requests of the organization.                                           *)

\* getSubscriptionForOrg, for a plan limit, a feature or a subscription, finds the row ...
FindRow(h, next) ==
  /\ next = "use" => subscription = NoRow
  /\ Serve(h, IF subscription = NoRow THEN [op |-> "first", next |-> next] ELSE [op |-> next])
  /\ disturbed' = (disturbed \/ (next = "subscribe" /\ Overlap))
  /\ UNCHANGED <<subscription, remote, reports, reported>>

\* ... or inserts it; a second insert fails on the unique orgId.
InsertRow(h) ==
  /\ At(h, "first")
  /\ IF subscription = NoRow
     THEN /\ subscription' = [status |-> "TRIAL", plan |-> Starter, id |-> 0]
          /\ IF frame[h].next = "use" THEN Finish(h) ELSE GoOn(h, [op |-> "subscribe"])
     ELSE Finish(h) /\ UNCHANGED subscription
  /\ UNCHANGED <<remote, reports, reported, disturbed>>

\* createRazorpaySubscription creates one at the provider ...
Subscribe(h) ==
  /\ At(h, "subscribe")
  /\ \E i \in Remotes, plan \in Plans :
       /\ remote[i].last = "none" /\ \A k \in 1..(i - 1) : remote[k].last # "none"
       /\ remote' = [remote EXCEPT ![i] = [plan |-> plan, last |-> "created"]]
       /\ GoOn(h, [op |-> "store", id |-> i])
  /\ UNCHANGED <<subscription, reports, reported, disturbed>>

\* ... and points the row to it, whatever it points to by now.
Store(h) ==
  /\ At(h, "store")
  /\ subscription' = [subscription EXCEPT !.id = frame[h].id]
  /\ Finish(h)
  /\ UNCHANGED <<remote, reports, reported, disturbed>>

-----------------------------------------------------------------------------
(* The provider.                                                           *)

\* The customer pays, stops paying, pays again or cancels.
Happens(i, e) ==
  /\ reported[i] < MaxEvents
  /\ remote[i].last \notin {"none", "cancelled"}
  /\ remote[i].last = "created" <=> e = "activated"
  /\ remote' = [remote EXCEPT ![i].last = e]
  /\ reports' = [reports EXCEPT ![i] = Append(@, e)]
  /\ reported' = [reported EXCEPT ![i] = @ + 1]
  /\ UNCHANGED <<frame, subscription, disturbed>>

Without(s, k) == SubSeq(s, 1, k - 1) \o SubSeq(s, k + 1, Len(s))

\* handleRazorpayWebhook: the report is signed, and the row points to its subscription;
\* otherwise it is answered and forgotten.  The provider repeats a report it has no
\* answer to.
Deliver(h, i, k, again) ==
  /\ k \in DOMAIN reports[i]
  /\ IF subscription # NoRow /\ subscription.id = i
     THEN Serve(h, [op |-> "apply", id |-> i, event |-> reports[i][k]])
     ELSE frame[h] = Idle /\ UNCHANGED frame
  /\ reports' = IF again THEN reports ELSE [reports EXCEPT ![i] = Without(@, k)]
  /\ disturbed' = (disturbed \/ k # 1 \/ Overlap)
  /\ UNCHANGED <<subscription, remote, reported>>

\* The row as the event leaves it: its status, the subscription it is about and, on
\* activation, the plan.
Applied(i, e) ==
  [subscription EXCEPT !.id = i, !.status = LocalStatus[e],
                       !.plan = IF e = "activated" THEN remote[i].plan ELSE @]

\* Mutant: a cancellation does not reach the row.
ApplyNoCancellation(h) ==
  /\ At(h, "apply")
  /\ subscription' = IF frame[h].event = "cancelled" THEN subscription
                     ELSE Applied(frame[h].id, frame[h].event)
  /\ Finish(h)
  /\ UNCHANGED <<remote, reports, reported, disturbed>>

\* The row is written by its own id, wherever it points by now.
Apply(h) ==
  /\ At(h, "apply")
  /\ subscription' = Applied(frame[h].id, frame[h].event)
  /\ Finish(h)
  /\ UNCHANGED <<remote, reports, reported, disturbed>>

Lost(h) ==
  /\ Drop(h)
  /\ disturbed' = (disturbed \/ frame[h].op \in BillingOps)
  /\ UNCHANGED <<subscription, remote, reports, reported>>

Next ==
  \/ \E h \in Handlers :
       \/ InsertRow(h) \/ Subscribe(h) \/ Store(h) \/ Apply(h) \/ Lost(h)
       \/ \E next \in {"use", "subscribe"} : FindRow(h, next)
       \/ \E i \in Remotes, k \in 1..MaxEvents, again \in BOOLEAN : Deliver(h, i, k, again)
  \/ \E i \in Remotes, e \in Events : Happens(i, e)

Spec == Init /\ [][Next]_vars

-----------------------------------------------------------------------------
(* Properties.                                                             *)

(* Where billing requests came one after the other and the events of each  *)
(* subscription in their order, repeated or not, the row says what         *)
(* happened last to the subscription it points to, once that was reported, *)
(* and has its plan (handleRazorpayWebhook, createRazorpaySubscription).   *)
OrderedReportsTellTheTruth ==
  \A i \in Remotes :
    ~disturbed /\ ~Overlap /\ subscription # NoRow /\ subscription.id = i
      /\ reported[i] > 0 /\ reports[i] = <<>> =>
        /\ subscription.status = LocalStatus[remote[i].last]
        /\ subscription.plan = remote[i].plan
=============================================================================
