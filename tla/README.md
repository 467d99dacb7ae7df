# Kritviya in TLA+

This directory holds TLA+ models of Kritviya: its API (`src/apps/api`), a multi-tenant
NestJS server on Postgres (through Prisma) and BullMQ queues on Redis, and the state its web
application (`src/apps/web`) keeps.  The models are about what the tests hardly reach: handlers that
interleave between two awaits, jobs that are lost or repeated, rows read before and used after somebody
else's write, answers that arrive in another order than the questions.

Contents: [the system](#the-system) · [modules](#modules) · [runs](#runs) ·
[bounds](#bounds-and-why-they-are-enough) · [fairness](#fairness) · [proofs](#proofs) ·
[divergences](#where-the-code-and-its-documents-disagree) · [observations](#observations) ·
[not modelled](#not-modelled) · [plan](#plan)

## The system

Every request is served by an async function of a service.  Node runs one of them at a time,
but each `await` lets any other go on, and several processes share the database.  Almost all
writes are of the form *read a row, look at its status, update it by id*; transactions are rare
and no row is locked.  What protects the data is, in most places, a unique index or nothing.
An atomic step of the models is therefore one database round trip with the code up to the next.

| Component | State | Operations | Interacts with | What is hard | What makes it correct |
|---|---|---|---|---|---|
| Fix actions (`fix-actions/`) | `fix_action_runs` with an idempotency key, templates | preview, createRun, confirmRun, shared execution of four templates | writes work items, invoices, incidents; sends mail; called by users and by the autopilot | overlapping confirmations and retries, a crash between two statuses, count-then-insert limits | a template runs at most once per permission; outcomes are final; nothing is stuck without a fault |
| Autopilot (`autopilot/`) | policies, `autopilot_runs` | evaluateAndExecute, approve, rollback | calls createRun and confirmRun; called by the risk engine | shared fix runs, approval and kill switch relative to execution, stale preview | nothing executes unattended that was gated; EXECUTED is true; rollback undoes |
| Alerting (`alerts/alerting.service.ts`) | rules, events, failure windows in memory | recordFailure, auto mitigation | called by webhooks, workers, OAuth, app commands; creates incidents; queues deliveries | check-then-create, windows lost at restart, one failure reported twice | alerts mean failures; one alert per spike |
| Escalation (`alerts/alerts.service.ts`) | `alert_escalations`, policy | scheduled scan, forced test, acknowledge | queues deliveries, asks who is on call, writes incident timelines | snapshot of the alerts, an error ends the whole scan, row after routing | each due step is dealt with; an acknowledged alert is left alone |
| Alert delivery (`alerts/alert-routing.service.ts`) | channels, `alert_deliveries`, breakers in memory | delivery job, breaker, hourly limit | e-mail, webhooks, Slack | five workers read the row before sending and write it after | a routed step leaves a trace on every channel; bounded duplicates |
| Webhooks (`org-webhooks/`) | endpoints with failureCount and isActive, deliveries | dispatch, attempts, retry, remove | all services that emit events; alerting | counters under concurrency, jobs with a stale endpoint, two ways to disable | disabled when and only when failures say so; then quiet |
| Queues, workers, scheduler (`jobs/`, `scheduler/`) | BullMQ queues, repeatable jobs, dead letters | enqueue, process, failed handler, reload | every background component | stalled jobs run again; reload removes before it adds | jobs are processed; failures are recorded |
| Sessions (`auth/`) | refresh tokens | login, refresh, logout | users | rotation reads before its transaction | one live token per session; logout ends it |
| Members and invites (`org-members/`) | members, invite tokens | invite, accept, update | billing (seats), sessions | limit checked at invite; stale tokens | seats within the plan; a removed member stays out |
| Billing (`billing/`) | subscriptions, plans | create subscription, provider events, limit checks | payment provider; members, invoices, work items | events out of order, check-then-insert | status follows the provider; limits hold |
| Nudges, AI actions (`nudges/`, `ai-actions/`) | rows with undo data and a window of 60 s | execute, undo, approve, resolve | write work items, invoices, deals | overlapping execute, undo over later writes | executed once; undo restores what execute changed |
| Invoices, deals, leads, work items (`invoices/`, `deals/`, `leads/`, `work-items/`) | status, dates, lock | send, pay, lock, unlock, win, convert | locking job, nudges, AI actions, graph | lock checked on a stale row; create-if-missing | a locked invoice is not edited; one delivery item per deal; dates follow the status |
| Maintenance and automatic nudges (`jobs/jobs-run.service.ts`, `graph/risk/auto-nudge.service.ts`) | nudges | auto-lock, overdue scans, risk nudges, retention | invoices, deals, nudges | overlap with users and with themselves | deduplicated; capped; no user change undone |
| Insights and reports (`ai/`, `llm/`) | insights, cached list, reports by input hash | compute, list, resolve, propose; generate | work items, deals, invoices; a language model | overlapping computes, a cache cleared too early | the list agrees with the rows; the provider is asked once |
| Execution graph and risk (`graph/`) | nodes, edges, scores, daily snapshots | sync, repair, risk run, impact radius | work items, deals, invoices; automatic nudges | syncs nobody waits for; scores of old edges | mirrors the sources; risk has a source |
| Incidents (`incidents/`) | incidents, timeline, public updates | acknowledge, resolve, severity, postmortem, publish | alerts, status page | no status checks; JSON column rewritten | no update lost; a notice once per subscriber |
| On-call (`oncall/`) | schedules, coverage windows, rotations, overrides, holidays | edit; resolve who is on call | escalation | fallback chains, hand-offs on a shifted clock | the schedule in force answers; turns pass in order |
| Status page (`status/`) | settings, copy of the page, domains, links, sessions, subscribers, checks | uptime scan, publish, verify domain, sign in, subscribe, notify | incidents | overlapping scans and notices; copies per process | one notice per change and subscriber; the copy follows the settings |
| App commands, apps, OAuth (`public-api/`, `marketplace/`, `oauth/`) | installs, credentials, command log | signed command, install, refresh | work items, nudges, deals | idempotency row after the execution | a command executes once per key; an uninstalled app holds nothing |
| Organizations, settings, tokens, shield (`orgs/`, `settings/`, `auth/jwt-auth.guard.ts`, `shield/`) | slugs, policy row, token counts, buckets in memory | create, update, count, detect | every request | lookup before insert; whole row written | slugs unique; changes kept; limits hold |
| Web application (`apps/web`) | access token in memory, refresh cookie; what each page shows | log in, refresh, switch, load, press | the API | one refresh shared by many calls; answers out of order | at rest a page shows what was chosen and done; stays signed out |
| Scores, dashboards, portfolio, timeline, contacts, companies | derived or plain rows | read, edit | everything, reading | - | recomputable from the sources |

`PROJECT.json` lists each component with its status, and under `hazards` every place found where
an interleaving, a fault or a limit can bite, with the properties that watch it.

## Modules

| Module | Models | Notes |
|---|---|---|
| `FixLedger` | what fix actions promise | request, grant, spend; no rows or handlers |
| `FixActions` | `createRun`, `confirmRun`, `executeRunInternal` and the four templates | implements `FixLedger` |
| `Autopilot` | `evaluateAndExecute`, `approveRun`, `rollbackRun` | `INSTANCE FixActions`: shares its variables, steps through its handlers |
| `Escalation` | escalation scan, delivery jobs, breaker, hourly limit | both run in the alerts worker |
| `Webhooks` | webhook dispatch with `recordFailure` and the failed handler | |
| `Undoables` | an invoice with its lock; AI actions and nudges executed on it and undone; the locking job | |
| `Server` | the requests a component is serving | one record per handler, extended by the modules below |
| `Sessions`, `Members`, `Orgs`, `Quotas`, `Shield` | accounts and refresh tokens; members and invitations; slugs and policy; plan and token limits; security events | |
| `Billing` | the subscription row and the provider's reports | provider external, reordering and repeating |
| `Sales` | one deal and the work items, with their dates | plan limit in `Quotas` |
| `Incidents`, `StatusPage`, `StatusAccess`, `Uptime` | an incident and its notices; settings, copies and domain; links, sessions, subscribers; checks and status | |
| `Jobs` | repeatable jobs, ticks, fan-out, dead letters | BullMQ external |
| `Apps`, `AppCommands` | an installed app and its connection; its commands | |
| `Guidance`, `Insights`, `Reports` | automatic nudges; insights and proposals; reports of a language model | |
| `GraphSync`, `RiskGraph` | the graph's mirror of deals and work items; risk, snapshot, impact radius | the algorithm next to a reference definition |
| `OnCall`, `Rotation` | the schedule in force; whose turn it is | pure resolvers over edits and time |
| `PolicySteps` | editing an escalation policy under an open alert | `Escalation` keeps the policy fixed |
| `Pages`, `Screens`, `WebClient` | routes, roles and the pages, as data; one view of a page in use; one tab and its session | |
| `Platform` | the components on `Server` side by side, one of which moves | the assumptions on their constants |
| `FixActionsProofs`, `AutopilotProofs`, `EscalationProofs`, `UndoablesProofs`, `WebhooksProofs` | theorems of the module they extend | |
| `AccessProofs`, `WorkProofs`, `PlatformProofs` | theorems of the components of `Platform`, and of `Platform` | a section for each component, each module extending the one before; the first begins with lemmas about counting handlers and about recursive functions |
| `MC*` | constants and symmetry of the runs | |

**FixActions.** One row per idempotency key (the unique index on organization and key), so the
rows are functions on `Keys`.  `pc[h]` names the round trip a handler is about to make, and
the actions carry the code's place in their name (`CreateFind`, `ExecStart`, ...).  `grants`
and `effects` are history: confirmations accepted, and writes a template really made.  A fault is a
handler lost (`Crash`) or a database call that throws (`DbError`), which the code's catch blocks
turn into `FAILED`, when they reach the database.

**Autopilot.** `apc[h]` is the place of the autopilot's code in the handler whose callee's place is
`pc[h]`: a call is `FA!StartCreate` or `FA!StartConfirm`, the return is read from `out[h]`.  Users
act on the same runs directly (`HumanCreate`, `HumanConfirm`).  One policy is modelled; each turn
of the evaluation loop is a run.

**Escalation.** The alert's age is abstracted to the number of steps that are due; the cooldown, the
48 hours and the hour of the limit end by an action of their own at any time.  A queue is a bag of jobs
(BullMQ does not promise an order between five concurrent workers).  Quiet hours, weekends and on-call
coverage together are the free choice `StepSuppressed`: they depend on the clock and the
rotation, not on the alert.  A job that dies with its worker returns to the queue, as a stalled job does.

**Webhooks.** The bodies of events do not matter and every endpoint subscribes.  `log` is the failure
window (in memory) and the alert events younger than the window (in the database) in one sequence in order of time, so
that time passing is `Expire`, the loss of its head.  Calls of `recordFailure` that nobody waits for
are counted by stage.

**Undoables.** `action`, `undo` and `made` are the rows of AI actions and nudges (a nudge is executed while it has undo
data) and of the nudges an action created; `invoice` and `lock` are the status and the lock of one invoice.  A lock is
known by what took it, as its time and user tell in the code.  Every handler reads in the action named `...Read`
(or `ExecuteAction`, `UndoNudge`, ...), where all of its checks are, and writes in a later one.  There is no clock: an
undo may always come within its 60 seconds, a due date or `lockAt` may have passed whenever somebody looks, so that a
draft may be paid, as the code's effective status allows.  An edit is one that touches a locked field.
`disturbed` is history: the items of which two calls overlapped or one was lost, or whose lock was read
by another item and may come back with its undo.

**Server and the components on it.** `frame[h]` is a record: `op` names the next round trip of the handler, the other fields hold
what it has read.  `Serve` takes a request in with its first reads, `GoOn` and `Finish` end a step, and `Drop` is a handler
cut off by a database error or a restart, after which nothing of it is left.  A component adds its rows as variables and
one action per step: `RefreshRead`/`RefreshWrite`, `InviteCount` ... `InviteInsert`, `CommandLookUp`/`CommandRun`/`CommandLog`.  What is one
transaction or one statement in the code is one action.  History variables, named as such where they are declared, count what the rows do not
keep: `forks`, `joins`, `effects`, `notices`; `disturbed`, `overlapped` and `crossed` mark what overlapped, for promises
that only hold of requests that came one after the other.

**Sessions, Members.** A session is a chain of refresh tokens.  Passwords, names and access tokens are left out; the membership row is
reduced to its status, so that a seat is an ACTIVE member.  An invitation's age is a step to `expired` at any time.

**Billing, Jobs, StatusPage, Uptime.** The payment provider, BullMQ and DNS are modelled from their use: reports in any order and more than once,
a stalled job that runs again, a record that is there or not when it is looked up.

**GraphSync, RiskGraph.** A sync is the steps of the upserts it makes and is not waited for.  Risk is an integer in
hundredths of a point while it spreads, rounded as the code rounds; three rounds, each contribution cut as in the code.  `RiskHasASource` and `RadiusIsPaths` compare the
algorithm with what reachability says.

**OnCall, Rotation.** The resolvers are pure functions of the rows and the clock; the actions are edits and hours that pass.  The pseudo-local
clock of the code, which sets the hour back and keeps the date, is modelled by what it does.

**Pages, Screens, WebClient.** `Pages` begins with two tables: the route behind each function of `lib/api.ts`, and the roles the guards of
each controller let through.  Then it describes each page by what it loads, from which choices, and what its buttons call and reload.
`Screens` runs one view of any of these pages: choices, loads whose answers arrive in any order, commands, and a busy flag where the page has one.
`WebClient` follows the token through expiry, the shared refresh, switching and signing out.

## Runs

| Run | Configuration | Checks | Size |
|---|---|---|---|
| `fix_workflow` | two handlers, one reassignment with confirmation, two faults, fair | `TypeOK`, `EffectsWithinGrants`, `StuckOnlyByFault`, `SettledStaysSettled`, `ConfirmedSettles`, `ImplementsLedger` | 83 k states |
| `fix_auto` | two handlers, two reminders for one invoice, one without confirmation, limit 1, one fault | `WorkflowInv`, `AutoExecutedAtMostOnce`, `SucceededMeansDone`, `RateLimitOvershoot` | 1.65 M states |
| `fix_twice` | as `fix_workflow`, no fault | violates `ExecutedAtMostOnce` | 8 k states |
| `ap_main` | two handlers, two evaluations, a person, a fault in each service | `TypeOK`, `ApprovalGate`, `ExecutedHasEffect`, `UndecidedOnlyByFault`, `ImplementsFixActions` | 1.15 M states |
| `ap_killswitch` | one evaluation of a template without confirmation | violates `KillSwitchBlocks` | 0.6 k states |
| `ap_rollback` | reassignment to the present assignee | violates `RollbackUndoes` | 194 k states |
| `esc_delivery` | one alert, three channels, one step, two workers, limit and breaker of 1, a fault | `TypeOK`, `RoutedReaches`, `DeliveredPerWorker`, `DeliveryLimitOvershoot` | 4.2 M states |
| `esc_scan` | one alert, one channel, two steps, a fault, fair | `AcknowledgedRests`, `StepsConclude` | 65 k states |
| `esc_silent` | as `esc_scan`, no fault | violates `EscalationNotifies` | 1.6 k states |
| `webhooks` | one endpoint, two dispatches, three events, a fault | `TypeOK`, `BreakerTrips`, `DisabledForCause`, `AlertMeansSpike`, `AlertOncePerSpike`, `DisabledStaysQuiet` | 406 k states |
| `undo_main` | two handlers, one invoice, one AI action of either type, one nudge, a fault | `TypeOK`, `UndisturbedItemsTellTheTruth`, `ExecutionsPerApproval`, `LateEditsBounded`, `SendsBounded` | 8.1 M states |
| `platform` | the 24 components on `Server`, each with two handlers where it has any, and its own small bounds | `TypeOK`, `LimitsOvershootByHandlers`, `LateWritesBounded`, `OnceEach`, `CopiesAgree`, `AnswersAreRight`, `PagesTellTheTruth`, `TurnsPassInOrder` | 2.47 M states |

`platform` chooses one component at the start (`part`) and moves only that one.  The components in it share the pool of
handlers and nothing else: none reads a variable of another, so a behaviour of the whole is one of each part, and a
property of a part that holds of it alone holds in any mix.  Where one component's rows matter to another they are an input of it that
changes at any time (the plan's limit in `Quotas`, the installation in `AppCommands`, an open critical incident in `Uptime`).  Its
properties put the promises of one kind together, by component:

| Property of `platform` | What it says of each component |
|---|---|
| `LimitsOvershootByHandlers` | a limit compared with a count before the insert is passed by overlapping requests only: invitations, subscribers, work items, token requests, automatic nudges, insights, proposals |
| `LateWritesBounded` | after a deactivation, uninstallation, unpublication or revocation only requests that had already looked act, once each |
| `OnceEach` | an invitation, refresh token, sign-in link, won deal, notice, idempotency key, dead letter, spike, report, resent call or policy step takes effect once for each overlapping request and each cut |
| `CopiesAgree` | derived rows, caches and logs agree with what they are derived from when their writers did not overlap |
| `AnswersAreRight` | the resolvers, the risk and radius computations, the trimming, the scheduler and the slugs agree with their definitions |
| `PagesTellTheTruth` | a page at rest shows what is chosen on it and what its user did, its links work for its role, calls go to the organization its user chose, no call waits for ever, a signed-out tab stays so |
| `TurnsPassInOrder` | an hour that passes never gives a turn back, on a schedule that starts at its hand-off hour |

What the runs show, beyond the comments at the properties:

* Permissions, not statuses, bound what a fix action does.  Two overlapping confirmations both count, so
  "once per run" is false (`fix_twice`), and "once per accepted confirmation" is what holds.  For a
  template that needs none, the unique index does give "once" (`AutoExecutedAtMostOnce`).
* The statuses of a run may go back and forth while two handlers work on it, but once the last one
  has left, the outcome is final, and without a lost handler each run gets one.
* The autopilot adds nothing to what a caller of the fix actions can do, except that it can execute before
  it looks at the kill switch and write a preview's missing value back.
* Each step of an escalation leaves a row or a job for each channel of its route, even if the worker dies
  in the middle; but a row of an *earlier* routing also counts, which is why an escalation to
  a channel that has had the alert before is silent (`esc_silent`).
* An error in one organization ends the scan for all, and the next scan makes up for it: every
  due step is dealt with as long as scans repeat (`StepsConclude`).
* A webhook endpoint is active with ten or more failures only between the increment and the write that
  disables it, or after a database error in between; the alerting window counts one failed job twice, so an alert needs half the
  failures its rule names, but never fewer.
* A refresh token can be exchanged twice, by two refreshes that both read it, but not by one that starts after either has
  ended; an invitation, whose guard is in the update itself, makes a member only once.
* An app's command is repeated by a retry that overlaps the first (two handlers, two effects), which the log then hides:
  `CommandsBounded` is exact.  Compare the fix actions, whose row comes first.
* The provider's reports, applied in order, give the right plan and status; overtaken, they may leave an older one.
* A step of an edited policy may be taken for one that was done at its place before; each place is routed once per handler and cut, whatever is
  edited, and in order as long as nothing is.
* Undo is exact only for an item that was alone: as long as the calls on an action or nudge come one after the other and none
  is lost, the nudge it created is there if and only if it is EXECUTED, and its lock is on the invoice only while it is,
  whatever users do to the invoice meanwhile (they may unlock it, so the lock need not be there).  Two overlapping executions, or a failing log after EXECUTED, are enough to leave an effect that no
  undo removes; the property names exactly these cases.
* A lock does not stop the edits already under way, and a send may overwrite a payment (PAID becomes SENT again); how
  often either happens is bounded by the handlers that were past their checks, since nothing makes the invoice a draft
  again (`LateEditsBounded`, `SendsBounded`).

Every property is also run against a variant of one definition that a slip in the code would produce
(the operators marked *Mutant* in the modules, next to the definition they vary), and is violated by it.

## Bounds and why they are enough

* `Handlers`, `Workers`, `Deliverers` = 2: every race in this code is between a read and a write of two
  actors; the bounds that depend on their number (`RateLimitOvershoot`, `DeliveredPerWorker`,
  `DeliveryLimitOvershoot`) state the dependence, and the first is proved for any number.
* `Keys`, `Runs` = 2 where runs interact (the reminder's deduplication, shared fix runs), 1 elsewhere: rows
  of different keys share only the hourly limit and the entities.
* Limits are reduced (30 runs an hour to 1 or 2, 10 failures to 2, 5 for a breaker to 1, 3 attempts to 2) so
  that the limit is met and crossed; the code compares with them and computes nothing from them.
* `MaxFaults` = 1 or 2: a crash or database error at every place, and in `fix_workflow` a second one during what
  follows the first.  `MaxHuman` and `MaxEvents` bound requests, which otherwise grow counters.
* One action and one nudge in `undo_main`: both may hold the lock and record each other's, and they exhaust what two
  handlers can interleave; the theorems hold for any number.  Nothing else is bounded: approvals, effects and sends
  count what the statuses allow, and the nudges an action creates are numbered by its effects.
* In `Escalation` no counter is bounded but the breaker's, which stops where it stops to matter; scans repeat for ever.  The queue is
  bounded because a step is routed once per row and fault.

* In `platform` the counters that only history keeps (tokens, invitations, updates, moments, edits) are bounded by constants
  named `Max...`, given at the instances in `MCPlatform` with values that leave room for a second occurrence of each race; limits are 1 to 3;
  a day has two to four hours, which is what the resolvers compare, and a rotation two members; three loads of a view let a page number be changed and then set back by another choice.  `Window`, `Major` and
  `Degraded` of `Uptime` are those of the code.

Deadlock is checked in `undo_main`, where something can always be done.  Elsewhere handlers may all be idle with the
bounded requests used up.

## Fairness

* `FixActions!FairSpec`: weak fairness of each handler's steps, because a promise that resolves resumes its
  continuation.  Requests, time, faults and changes of the feature flag are not fair: nobody has to confirm.
* `Escalation!FairSpec`: weak fairness of each scan's start (a repeatable BullMQ job), of its steps and each
  worker's (awaits resume, workers take jobs), and of the end of the cooldown (time passes).  Neither alerts, nor
  acknowledgements, nor the success of a delivery are assumed.  Faults are bounded, which stands for their ceasing.
* `Webhooks`, `Undoables` and the components of `platform` assume none: their properties are of safety.  That no call of the
  web client is forgotten is stated as an invariant: a call that waits has a refresh under way to wait for.

## Proofs

All theorems are proved by TLAPS for every value of the constants that the modules' ASSUMEs allow (finite sets
of actors, limits that are positive naturals, a bound on faults that is any natural).

| Theorem | States | Rests on |
|---|---|---|
| `FixActionsProofs!TypeCorrect` | `[]TypeOK` | inductive as it stands |
| `WorkflowCorrect` | `[]WorkflowInv` | the inductive invariant below |
| `EffectsNeedGrants`, `AutoOnce`, `StuckNeedsFault` | `[]EffectsWithinGrants`, `[]AutoExecutedAtMostOnce`, `[]StuckOnlyByFault` | `WorkflowInv` |
| `SettledFinal` | `SettledStaysSettled` | `TypeOK` and the guard of `confirmRun` |
| `SuccessIsDone` | `[]SucceededMeansDone` | `DoneInv`: whoever is about to report success has done it |
| `OvershootBounded` | `[]RateLimitOvershoot` | inductive with the handlers between count and insert added |
| `LedgerImplemented` | `ImplementsLedger` (refinement) | `WorkflowInv`: each step is a ledger step or a stutter |
| `AutopilotProofs!AutopilotIsACaller` | `ImplementsFixActions` (refinement) | `EntitiesTyped`, so that a rollback writes a value an entity may have |
| `TypeCorrect`, `Decided` | `[]TypeOK`, `[]UndecidedOnlyByFault` | the theorems of the fix actions, through the refinement |
| `ExecutedTrue` | `[]ExecutedHasEffect` | `LinkedInv` and the fix actions' `DoneInv` |
| `GateHolds` | `[]ApprovalGate` | `GateInv` and the fix actions' `WorkflowInv` |
| `EscalationProofs!TypeCorrect` | `[]TypeOK` | inductive with `left` nonempty in the places that use it |
| `AcknowledgedStaysAtRest` | `AcknowledgedRests` | the filter at the start of a scan |
| `RoutedIsReached` | `[]RoutedReaches` | `RoutingInv` |
| `LimitOvershoot` | `[]DeliveryLimitOvershoot` | `LimitInv` |
| `OncePerWorker` | `[]DeliveredPerWorker` | `SendsInv` |
| `UndoablesProofs!TypeCorrect` | `[]TypeOK` | inductive as it stands |
| `LateEdits`, `Sends` | `[]LateEditsBounded`, `[]SendsBounded` | `EditInv`, `SendInv` |
| `Executions` | `[]ExecutionsPerApproval` | `ApprovalInv` |
| `ItemsTellTheTruth` | `[]UndisturbedItemsTellTheTruth` | `TruthInv`, with `Wired` |
| `WebhooksProofs!TypeCorrect`, `Breaker` | `[]TypeOK`, `[]BreakerTrips` | inductive as they stand |
| `Cause` | `[]DisabledForCause` | `BreakInv`, `SpikeInv` |
| `Alerts` | `[]AlertMeansSpike` | `RecordInv`, `CrossedInv` |
| `OncePerSpike`, `DisabledIsQuiet` | `AlertOncePerSpike`, `DisabledStaysQuiet` | `TypeOK` |
| `PlatformProofs!LimitsHold` | `[]LimitsOvershootByHandlers` | the components' theorems below |
| `LateWrites` | `[]LateWritesBounded` | the same |
| `DoneOnce` | `[]OnceEach` | the same |
| `CopiesTrue` | `[]CopiesAgree` | the same |
| `AnswersRight` | `[]AnswersAreRight` | the same |
| `PagesTrue` | `[]PagesTellTheTruth` | the same, and `ScreenConstants` |
| `Types` | `[]TypeOK` | the `...TypeCorrect` of all components |
| `TurnsInOrder` | `TurnsPassInOrder` | `RotationTurnsInOrder`: the slot grows by at most one an hour |

The theorems of the components of `Platform` carry the component's name; each component has a `...TypeCorrect`.

| Component | Theorems | Rests on |
|---|---|---|
| `AccessProofs`: Members | `MembersJoinOnce`, `MembersLimitOvershoot`, `MembersInvitesBounded` | `JoinInv`, `SentInv`, `OpenInv` |
| Sessions | `SessionsForks`, `SessionsExchanged`, `SessionsLateSessions` | `ForkInv`, `LateInv` |
| Orgs | `OrgsAllowlists`, `OrgsSlugs` | `PolicyInv`, `SlugInv` |
| Billing | `BillingTruthTold` | `RowInv`, `OrderInv` |
| AppCommands | `AppCommandsCounted`, `AppCommandsLogTrue` | `CommandInv`, `TruthInv` |
| Quotas | `QuotasItems`, `QuotasHours`, `QuotasLateRequests` | `ItemInv`, `HourInv`, `LateInv` |
| Apps | `AppsRevivals`, `AppsBare` | `RevivalInv`, `BareInv` |
| StatusPage | `StatusPageCopies`, `StatusPageDomains` | `CopyInv`, `DomainInv` |
| StatusAccess | `StatusAccessLinksOnce`, `StatusAccessSubscribersBounded` | `LinkInv`, `SubscriberInv` |
| Incidents | `IncidentsUpdated`, `IncidentsNoticed`, `IncidentsLateNotices` | `UpdateInv`, `NoticeInv`, `LateInv` |
| Uptime | `UptimeFollows` | `ScanInv` |
| Shield | `ShieldSpikes`, `ShieldNoticed` | `SpikeInv`, `BulkInv` |
| `WorkProofs`: WebClient | `WebClientCalls`, `WebClientChoices`, `WebClientWaits`, `WebClientOuts` | `TokenInv`, `CallInv`, `ChoiceInv`, `OutInv` |
| Screens | `ScreensChoice`, `ScreensOwnWrites`, `ScreensServed` | `ViewInv`, `TruthInv` |
| Guidance | `GuidanceScanNudges`, `GuidanceCapHolds` | `ScanInv`, `CapInv` |
| Insights | `InsightsBounded`, `InsightsProposals`, `InsightsQuietLists` | `KnownInv`, `ProposeInv`, `QuietInv` with `FoundInv` |
| Sales | `SalesRoots`, `SalesDates` | `RootInv`, `DateInv` |
| Jobs | `JobsRegistered`, `JobsLetters`, `JobsTicks` | `ReloadInv` with `OrgInv`, `AttemptInv`, `TickInv` |
| Reports | `ReportsCalls`, `ReportsTrimming` | `CallInv`; `ReportsTrimsKeepMost` |
| `PlatformProofs`: GraphSync | `GraphSyncMirrored` | `SyncInv`, `MirrorInv`, `LinkInv` |
| RiskGraph | `RiskGraphSnapshots`, `RiskGraphRadius`, `RiskGraphHasASource` | `RunInv`; `RiskGraphRadiusIsLevel`; `RiskGraphComputedIs` |
| OnCall | `OnCallResolved`, `OnCallShifts` | `OnCallSearchFinds` |
| Rotation | `RotationTurnsInOrder`, `RotationSomebodyOnCall` | `RotationSlotStep`; `RotationEveryTurnTaken` |
| PolicySteps | `PolicyStepsPlaceRoutings`, `PolicyStepsRowsInOrder` | `ScanInv`, `RouteInv`, `TurnInv`; `TypeInv` for its types |

*How the parts make the whole.*  `Platform` moves one component, chosen at the start.  `PartStays` says that the choice stays, `OnlyThePartMoves` that
every step is one of the chosen component, and so, for each component `X`, `XRuns == Spec => []~(part = "X") \/ X!Spec`: a behaviour of `Platform` is one
of `X` or never one of its part.  A property of `Platform`, which says of each part what the part promises, follows from the theorems of the components
by temporal logic alone.  The theorems of the whole have a step for each component.

*The constants.*  `Platform` assumes of the code's limits that they are natural numbers (`MemberConstants`, `CommandConstants`, `QuotaConstants`,
`AccessConstants`, `GuidanceConstants`, `JobConstants`, `ShieldConstants`, `RotationConstants`, `UptimeConstants`), that a day has hours and a turn lasts some days, a single one among the choices (`RotationConstants`), that an invitation a day is allowed and a job has an attempt, that as many failed checks
as make a status DEGRADED are at least one and no more than make an outage (`UptimeConstants`), that the plan a subscription starts with is one (`BillingConstants`), that there are values for an allowlist
(`OrgConstants`) and insight types, finitely many (`InsightConstants`), that organizations are finitely many and numbered, as the tick takes them in order (`JobConstants`), and that a policy that is sent
has finitely many steps, in places that are numbers, with whole minutes, and no more of them known than the model has places (`PolicyConstants`: `escalation-policy.dto.ts:29` refuses others).  A schedule may be in force the whole day (`OnCallConstants`), the graph has finitely many nodes, with facts of the kinds the engine knows (`RiskConstants`), and a report that can be
found with some number of entries can also be found with one less, down to those that are always kept (`ReportConstants`).  `ScreenConstants` is explained below.  The other assumptions (`AppConstants`, `SalesConstants`, `PageConstants`, `GraphConstants`, `WebConstants`, and the `Max...` of all) say that the bounds of
the model are natural numbers, positive where a model needs one to begin with.  `Webhooks` assumes that its limits are positive (`WebhookConstants`).  Nothing is assumed of handlers but that there are finitely many and at least one.

*`WorkflowInv`* adds to `EffectsWithinGrants` what makes it inductive: an absent row has no permission; a run that
needs no confirmation is never PENDING and has exactly one; whoever confirms or executes found the row, and whoever
is about to write CONFIRMED found one that needs a confirmation; and for every run in CONFIRMED or RUNNING that
lost no handler there is one on its way to the next status.  The arithmetic of permissions is a lemma of its own
(`Budget`): a handler that leaves `HoldingPcs` by executing trades one permission for one effect.

*`DoneInv`* says that every place from which success is reported (`exec_done`, `exec_log`, a confirmation that returned `ok`) belongs to
a run whose action happened, and that a row says SUCCEEDED only of such a run.

`AutopilotProofs` does not prove anything about the fix actions again.  `AutopilotIsACaller` makes every behaviour of the autopilot one of
`FixActions`; `FP == INSTANCE FixActionsProofs` then brings the theorems over, and the lemmas `Same*` only say that the two instances of
`FixActions` are one.  *`LinkedInv`* ties a run to the fix run its evaluation created and the confirmations under way to that fix run.
*`GateInv`* keeps an account for each key: a *ticket* is a handler that may still turn a request or an unattended evaluation into a
permission (a confirmation, a creation that executes at once, an evaluation that needs no approval and has not confirmed yet).  Permissions
given plus tickets never exceed requests plus unattended evaluations; a step adds to both sides, or trades a ticket for a permission.  A run
that executes at once needs no account: it gets its one permission from whoever inserts it.

*`RoutingInv`* adds that the step a scan is about to record is already routed.  The lemmas `*Keeps` show that every
step keeps a channel reached once it is: a job leaves the queue only for a worker, a worker only for a row, a loss on record, or
back to the queue.
*`LimitInv`*: the fresh rows that count as sent, and the deliveries of workers past the limit check, stay together below the limit
plus one for each worker.  *`SendsInv`*: until the row of a channel and step is there, every message sent is in the hands of a
worker about to store its row, or its row was lost; once it is there nobody begins to send, so the messages stay as many as workers and losses allow.

*`EditInv`* and *`SendInv`* count the handlers that have read and not yet written with the writes already made: a lock
that is set, or a status that is not DRAFT, lets no further handler in.  *`TruthInv`* says for an undisturbed item what is
true at each place of the one handler that works on it (`Wired` ties the place to the kind of item), and that nobody else
carries its lock.  *`ApprovalInv`* adds the handlers that may still execute to the executions made, and says of an APPROVED
action that its last approval has so far paid only for executions not yet on record, so that everything older is within the bound.

*`ForkInv`*, *`LateInv`*, *`SentInv`* and *`CommandInv`* follow one pattern: what was done so far, plus the handlers that have looked and
not yet acted, stays within the bound once the look would refuse.  `OneMoves` gives the arithmetic: a step moves
only its own handler in or out of such a set.  So do `SpikeInv`, `RootInv`, `AttemptInv` with `TickInv`, `CallInv` of the reports and `RouteInv`: *`SpikeInv`* counts a
bucket of failed logins as warned once its event is stored, and each handler that found it without may store one more; *`RouteInv`* says that until a place of a
policy has its row, whoever routed it is about to store the row or was cut off, and that from then on only the scans that saw the place without its row can
still route it, so that the edits of the policy do not enter the bound at all.  `CommandInv` needs two sets: before the row of a key is there, an effect has its handler
still at the row or was cut off; once it is there, only the handlers already about to run can add to the effects, and the two sets are
disjoint.

*`RecordInv`* of the webhooks counts the failures that were recorded and those on their way to being recorded against the deliveries that failed, so that an
alert, which takes as many records as its threshold, takes at least half as many failures; the sequence of records is only ever extended at its end and cut at its head, which
is why its length can be reasoned about without induction.

*`ChoiceInv`* ties the tokens of a tab to the organization chosen: while `settled` says so, the token in memory, and once a page has opened with it the page's, are of that
organization, and the answer to a switch that is still to be stored is of the other.  *`OutInv`* says that whoever signed out in peace has left nothing that could bring a token: no call, no refresh, no page waiting.
*`DateInv`* says what an update that is about to write has read, as long as nobody wrote in between; *`ReloadInv`* what is registered while one deployment clears the
schedule; *`BulkInv`* that while there is no event some request is on its way to one.

*`SlotStep`* of the rotation is arithmetic: a schedule that starts at its hand-off hour has its slot from the days since its start (`SlotOfDay`), one without a hand-off hour from
the hours (`SlotOfHour`), and an hour adds at most one to either quotient (`NextQuotient`, `DividedTwice`), and at most one, modulo the members, to the turn (`NextRemainder`).

The invariants under `CopiesAgree` say the same of other pairs: as long as nothing has overlapped, the one request under way holds what is true of what it read, and what it is going to
write makes the copy agree.  *`PolicyInv`* and *`ScanInv`* of the uptime say it of a list and of the checks, *`RunInv`* of the scores of a risk run, *`CopyInv`* of a collected page, which is of the present
settings unless the call that clears the copies is still to come, *`DomainInv`* of the domain that is being verified, *`BareInv`* of the writes that were under way when an app was uninstalled.
*`OrderInv`* of `Billing` says that until requests overlap one at most works on the row, that the reports to come end with what happened last at the provider, and that the row that points to a
subscription has its plan once the activation is applied and its status once the last report is.
*`SyncInv`*, *`MirrorInv`* and *`LinkInv`* of the graph say that an entity that is not behind is either mirrored or has one sync under way, which read its last version, and which will link the item to its deal and
to its user.  *`TurnInv`* needs the steps to be sorted: a scan has to do an eligible step only if all that come before it are to be done first or are done, since what is due at a minute was due
at every smaller one.  `NormalizedInOrder` proves that of the list itself: the place of an entry is the number of entries up to it, the map from entries to places is injective into
as many places as there are entries, so it is onto, and the minutes ascend.  The sort is modelled by this count, which leaves steps of one minute in the order given as the code's stable sort does.

*Recursive functions.*  What the code computes by a loop or a recursion (the fallback chain, the trimming of a report, the spreading of risk, the levels of an impact radius) is a
function `f` with `f[x]` defined from other values of `f`.  That such a function exists is not free: `Recursive` proves it for any equation whose argument falls by a measure in natural numbers
(`Measured`): a function that meets the equation up to a measure can be changed to meet it one further, and measures are bounded, so by the least number principle (`Least`) some function meets it
everywhere; `Iterated` is the case of a sequence.  With the equation in hand, what is claimed of every value is proved by looking at the least measure at which it fails, or climbed to (`Climbs`).

* *OnCall*: `OnCallSought` is the equation of the walk along the fallbacks; its measure, `Ahead`, counts the roots and the schedules not yet visited, so the walk ends whatever cycles there are.
  `Searching` says where the walk may be: what it has visited did not answer and leads only to what it has visited or comes to next.  `OnCallSearchFinds` says that from there it finds a schedule that was promised, if there is any, and `OnCallReachableClosed` that what the definition calls reachable is closed under
  fallbacks.
* *Reports*: `ReportsTrims` drops an insight while there are more than are kept, then an executed action; `ReportsTrimsKeepMost` says that what is left is the best (`Best`) of the contexts allowed (`Allowed`), by
  the number of entries that may still be dropped.
* *RiskGraph*: `RiskGraphLevelGrows` and `RiskGraphLevelClosed` say that a level of the search holds the neighbours of the one before; a round raises a node only if a neighbour has a score (`RiskGraphRoundSpreads`), so a score
  after all rounds has a source in the radius of as many steps.  The sum a round adds is a fold over a set, of which only the equation of `RiskGraphAddingExists` is used.
* *Rotation*: `RotationEveryTurnTaken` says that the turns are members as long as there are any, from the same arithmetic as the turns' order.

*Screens.*  `ViewInv` counts the commands on their way against the versions the rows may still reach, and keeps each of them one the user may press.  `TruthInv` says of the latest request, of what is
shown and of what commands would put back that, if it is of the latest load, it goes with what is chosen and has no older rows than the user's own commands left.  A view that is set from an answer needs that only one
command sets it, and not twice at a time (`ScreensOneSetter`).  These facts about pages are the assumption `ScreenConstants`, which says of every page in use that it fits (`Fits`): effects depend on the
choices their queries contain, but for the impact page; a view set from an answer has no choices, and one command, which waits for its answer; and the routes behind a page's loads and buttons let its roles in, but for
the documentation.  `Fits` is a statement about the table in `Pages`, which lists every page there is, and TLC evaluates it on that table in the run `platform`.  So what `ScreensServed` says about a page is a fact about the
table, checked, and the theorem adds that no run of a page leaves what the table says; what the other two say is not in the table.

Model-checked only:

* liveness (`ConfirmedSettles`, `StepsConclude`), which needs ENABLED;
* `Fits` of the table in `Pages`, by evaluation.

## Where the code and its documents disagree

* **A confirmation that arrives twice** (`fix_twice`).  `update.md:144` promises idempotent fix actions;
  `confirmRun` checks PENDING on a row it read and updates by id (`fix-actions.service.ts:206`).
* **The kill switch** (`ap_killswitch`).  It is consulted at `autopilot.service.ts:475`, after
  `createRun` has executed a template that needs no confirmation; the e2e test covers only one that does.
* **Rollback** (`ap_rollback`).  A preview of a reassignment that changes nothing has no previous assignee;
  `rollbackRun` takes that for null and unassigns the item (`autopilot.service.ts:284`).
* **Escalation** (`esc_silent`).  The row that stops duplicate deliveries is per alert and channel
  (`alert-routing.service.ts:164`), so a step routed to a channel already served sends nothing, though
  the incident's timeline says "Escalation step executed".

## Observations

Behaviour the models contain because the code has it, and a reader might not expect:

* **Sessions.** Login uses the role of the membership (`membership.role ?? user.role`), refresh that of the user.  Deactivation revokes no refresh
  token, so reactivating an account revives its sessions; removing a membership does not stop refreshes.
* **Web client.** Switching organizations exchanges the token in memory and reloads, and the refresh that follows issues a token of the user's own
  organization; after an expiry a refused call is sent again, to that one.  The Developer pages' API documentation tab calls a route that
  only service accounts may use (`docs.tsx:84`, `service-account-only.guard.ts:12`).  Saving a work item or an invoice sends the whole form.  An optimistic resolve that fails
  restores a list that may be older than the one shown.  Moving a member or editing a holiday leaves the panel of who is on call as it was.
* **Members.** The seat limit counts active members when an invitation is sent; those that join later may exceed it.  Accepting an invitation sent before a
  removal makes the person active again.
* **Quotas.** Marking a deal won creates a work item without asking the plan.  Overlapping requests may set an API token's count back;
  the refusal of one over the limit is caught and becomes a 401.
* **Apps.** Connecting an app by OAuth replaces its signing secret; an uninstalled app can be enabled.
* **Billing.** Two overlapping creations of a subscription keep the id of one (`billing.service.ts:118`); the other is paid for and its events are ignored.
* **Incidents and status page.** Acknowledging reopens a resolved incident.  A subscriber gets one UPDATED notice per incident.  Each process keeps
  its own copy of the status page; unpublishing and acknowledging clear none.
* **Escalation policies.** A step is known by its place: a new one at a place already done is taken as done.
* **On-call.** The second lookup of a fallback cannot be reached with a result of its own; a fallback to a disabled schedule ends the chain.  The
  hand-off clock keeps the date when its hour wraps, so that a schedule not aligned with its hand-off hour may give a turn back: `TurnsPassInOrder` is about aligned ones.
* **Reports.** The input hash covers the period to the millisecond, so that a report is only found again within one (`llm-reports.e2e-spec.ts:128` and
  `update.md:103` call it cached by the day's input).
* **Insights.** A compute clears the cached list before it writes.
* **Graph.** Edges are never removed; converting a lead, the stale-deal job and fix actions set off no sync.  A unique-key violation ends a risk run.
  The cap on nudges counts those of the snapshot's day.
* **Jobs.** `status()` of the scheduler leaves out the alerts queue; organizations beyond `SCHED_MAX_ORGS` get no ticks.
* **Shield.** Its text says more than five failed logins, and it reports at the fifth.

## Not modelled

* Reads and derived data without state of their own: dashboards, portfolio, timeline, scores, the audit log's listing.
* Contacts and companies: rows without a status.  Their pages and routes are in `Pages`.
* Of the modelled components: editing rules and channels, autopilot policies; `previewRun` (no state); `sendTest`; dispatch to
  installed apps; the inline mode without queues (`JOBS_ENABLED` not `true`); CRUD of status components; names, texts and severities;
  nodes of companies and invoices in the graph, which are synced as work items are; several time zones at once.
* Of the web application: layout, `middleware.ts`, the public status pages.
* The content of messages, signatures and secrets; how a page formats what it shows.

## Plan

What further work would add, in order:

1. Components composed where one writes another's rows: `Escalation` with `Incidents` through the events both write; `Sales` with `Undoables` on work
   items and deals; `Billing` with `Quotas`.
2. An abstract ledger of effects with undo as its inverse, which undisturbed items of `Undoables` implement; an abstract session as a chain with one live end.
3. Liveness of the queues under BullMQ's retries, and of the web client's calls.
