------------------------------- MODULE Pages --------------------------------
(***************************************************************************)
(* What the web application asks of the API, and of whom the API takes it. *)
(* The first part says which route each function of apps/web/src/lib/      *)
(* api.ts calls, the second which roles the guards of each controller      *)
(* (auth/roles.guard.ts and the @Roles of class and method) let through.   *)
(* Queries, bodies and headers are left out.                               *)
(*                                                                         *)
(* The rest are the pages (apps/web/src/app), each a record:               *)
(*   roles     who is led to it (navByRole and the page's own check);      *)
(*   views     what it shows from the API.  A view is loaded by calls that *)
(*             are awaited together, when the page opens and again when    *)
(*             one of the choices in its `on' changes (the dependencies of *)
(*             the effect); its query contains the choices in `uses';      *)
(*   resets    choices that set the page number back to 1;                 *)
(*   commands  what its buttons do: the calls, who may press them, whether *)
(*             they are disabled while the command runs (busy), the views  *)
(*             loaded again after the answer, and the views set from the   *)
(*             answer itself.                                              *)
(* A busy flag that holds the id of one row leaves the other rows' buttons *)
(* enabled, so such a command is not busy here.  Wording and layout,       *)
(* toasts and spinners are left out.                                       *)
(***************************************************************************)
EXTENDS TLC, FiniteSets

Management == {"CEO", "ADMIN"}

Everybody == Management \cup {"OPS", "SALES", "FINANCE"}

-----------------------------------------------------------------------------
(* The client.                                                             *)

\* lib/api.ts: login, refresh and logout, the account, its organizations.
SessionCalls == [loginRequest |-> "POST auth/login", refreshAccessToken |-> "POST auth/refresh",
  logoutRequest |-> "POST auth/logout", meRequest |-> "GET auth/me",
  switchOrgRequest |-> "POST auth/switch-org", createOrganization |-> "POST orgs"]

\* lib/api.ts: companies and contacts.
CompanyCalls == [listCompanies |-> "GET companies", getCompany |-> "GET companies/:id",
  createCompany |-> "POST companies", updateCompany |-> "PATCH companies/:id",
  listCompanyContacts |-> "GET companies/:id/contacts", createContact |-> "POST contacts"]

\* lib/api.ts: leads.
LeadCalls == [listLeads |-> "GET leads", createLead |-> "POST leads", updateLead |-> "PATCH leads/:id",
  convertLeadToDeal |-> "POST leads/:id/convert-to-deal"]

\* lib/api.ts: deals.
DealCalls == [listDeals |-> "GET deals", createDeal |-> "POST deals",
  markDealWon |-> "POST deals/:id/mark-won", markDealLost |-> "POST deals/:id/mark-lost",
  getDealTimeline |-> "GET deals/:id/timeline"]

\* lib/api.ts: work items.
WorkItemCalls == [listWorkItems |-> "GET work-items", getWorkItem |-> "GET work-items/:id",
  createWorkItem |-> "POST work-items", updateWorkItem |-> "PATCH work-items/:id",
  transitionWorkItem |-> "POST work-items/:id/transition",
  completeWorkItem |-> "POST work-items/:id/complete",
  listWorkItemActivity |-> "GET work-items/:id/activity"]

\* lib/api.ts: invoices.
InvoiceCalls == [listInvoices |-> "GET invoices", getInvoice |-> "GET invoices/:id",
  createInvoice |-> "POST invoices", updateInvoice |-> "PATCH invoices/:id",
  sendInvoice |-> "POST invoices/:id/send", markInvoicePaid |-> "POST invoices/:id/mark-paid",
  unlockInvoice |-> "POST invoices/:id/unlock", listInvoiceActivity |-> "GET invoices/:id/activity"]

\* lib/api.ts: the CEO's figures.
DashboardCalls == [getCeoDashboard |-> "GET dashboard/ceo",
  getRevenueVelocity |-> "GET ceo/revenue/velocity", getRevenueCashflow |-> "GET ceo/revenue/cashflow",
  getHygieneInbox |-> "GET hygiene/inbox"]

\* lib/api.ts: nudges.
NudgeCalls == [createNudge |-> "POST nudges", listNudges |-> "GET nudges",
  resolveNudge |-> "POST nudges/:id/resolve", executeNudge |-> "POST nudges/:id/execute",
  undoNudge |-> "POST nudges/:id/undo", listFeed |-> "GET feed"]

\* lib/api.ts: insights, actions and briefings.
AiCalls == [listCeoInsights |-> "GET ceo/insights", resolveCeoInsight |-> "POST ceo/insights/:id/resolve",
  computeAiInsights |-> "POST ai/compute-insights", listAiActions |-> "GET ai/actions",
  approveAiAction |-> "POST ai/actions/:id/approve", executeAiAction |-> "POST ai/actions/:id/execute",
  undoAiAction |-> "POST ai/actions/:id/undo", computeAiActions |-> "POST ai/compute-actions",
  generateCeoBriefing |-> "POST llm/reports/ceo-daily-brief", listCeoBriefingHistory |-> "GET llm/reports"]

\* lib/api.ts: users.
UserCalls == [listUsers |-> "GET directory/users", listManagedUsers |-> "GET users",
  createManagedUser |-> "POST users", updateManagedUser |-> "PATCH users/:id",
  deactivateManagedUser |-> "POST users/:id/deactivate",
  reactivateManagedUser |-> "POST users/:id/reactivate"]

\* lib/api.ts: policies, audit, billing.
SettingsCalls == [getPolicySettings |-> "GET settings/policies",
  exportOrgAuditCsv |-> "GET org/audit/export", getBillingPlan |-> "GET billing/plan",
  getOrgUsage |-> "GET org/usage", createBillingSubscription |-> "POST billing/create-subscription",
  updatePolicySettings |-> "PUT settings/policies", runAutopilotNow |-> "POST jobs/run"]

\* lib/api.ts: security events.
ShieldCalls == [listShieldEvents |-> "GET shield/events",
  resolveShieldEvent |-> "PATCH shield/events/:id/resolve"]

\* lib/api.ts: portfolios.
PortfolioCalls == [createPortfolio |-> "POST portfolio", listPortfolioGroups |-> "GET portfolio",
  attachPortfolioOrg |-> "POST portfolio/:id/orgs", detachPortfolioOrg |-> "DELETE portfolio/:id/orgs/:id",
  getPortfolioSummary |-> "GET portfolio/:id/summary"]

\* lib/api.ts: members and API tokens.
MemberCalls == [listOrgMembers |-> "GET org/members", inviteOrgMember |-> "POST org/invite",
  acceptOrgInvite |-> "POST org/accept-invite", listOrgApiTokens |-> "GET org/api-tokens",
  createOrgApiToken |-> "POST org/api-tokens", revokeOrgApiToken |-> "DELETE org/api-tokens/:id"]

\* lib/api.ts: webhooks.
WebhookCalls == [listOrgWebhooks |-> "GET org/webhooks", createOrgWebhook |-> "POST org/webhooks",
  deleteOrgWebhook |-> "DELETE org/webhooks/:id",
  listWebhookDeliveries |-> "GET org/webhooks/:id/deliveries",
  retryWebhookDelivery |-> "POST org/webhooks/:id/retry"]

\* lib/api.ts: alerts and their escalation.
AlertCalls == [listOrgAlerts |-> "GET org/alerts", acknowledgeOrgAlert |-> "POST org/alerts/:id/acknowledge",
  listAlertRules |-> "GET org/alert-rules", getEscalationPolicy |-> "GET org/escalation-policy",
  saveEscalationPolicy |-> "POST org/escalation-policy",
  listAlertEscalations |-> "GET org/alerts/:id/escalations",
  testEscalationPolicy |-> "POST org/escalation-policy/test"]

\* lib/api.ts: on-call schedules.
ScheduleCalls == [listOnCallSchedules |-> "GET org/oncall/schedules",
  createOnCallSchedule |-> "POST org/oncall/schedules",
  updateOnCallSchedule |-> "PATCH org/oncall/schedules/:id",
  deleteOnCallSchedule |-> "DELETE org/oncall/schedules/:id",
  listOnCallMembers |-> "GET org/oncall/schedules/:id/members",
  createOnCallMember |-> "POST org/oncall/schedules/:id/members",
  updateOnCallMember |-> "PATCH org/oncall/members/:id",
  deleteOnCallMember |-> "DELETE org/oncall/members/:id"]

\* lib/api.ts: who is on call.
OnCallCalls == [listOnCallOverrides |-> "GET org/oncall/overrides",
  createOnCallOverride |-> "POST org/oncall/overrides",
  deleteOnCallOverride |-> "DELETE org/oncall/overrides/:id", getOnCallNow |-> "GET org/oncall/now",
  linkOnCallScheduleCalendar |-> "POST org/oncall/schedules/:id/calendars",
  unlinkOnCallScheduleCalendar |-> "DELETE org/oncall/schedules/:id/calendars/:id"]

\* lib/api.ts: holidays.
HolidayCalls == [listHolidayCalendars |-> "GET org/holidays/calendars",
  createHolidayCalendar |-> "POST org/holidays/calendars",
  updateHolidayCalendar |-> "PATCH org/holidays/calendars/:id",
  deleteHolidayCalendar |-> "DELETE org/holidays/calendars/:id",
  listHolidayEntries |-> "GET org/holidays/calendars/:id/entries",
  createHolidayEntry |-> "POST org/holidays/calendars/:id/entries",
  deleteHolidayEntry |-> "DELETE org/holidays/entries/:id"]

\* lib/api.ts: incidents.
IncidentCalls == [listIncidents |-> "GET org/incidents", getIncident |-> "GET org/incidents/:id",
  acknowledgeIncident |-> "POST org/incidents/:id/acknowledge",
  resolveIncident |-> "POST org/incidents/:id/resolve",
  updateIncidentSeverity |-> "PATCH org/incidents/:id/severity",
  addIncidentNote |-> "POST org/incidents/:id/notes"]

\* lib/api.ts: what is written and published of them.
PostmortemCalls == [getIncidentPostmortem |-> "GET org/incidents/:id/postmortem",
  upsertIncidentPostmortem |-> "POST org/incidents/:id/postmortem",
  getIncidentMetrics |-> "GET org/incidents/metrics", publishIncident |-> "POST org/incidents/:id/publish",
  unpublishIncident |-> "POST org/incidents/:id/unpublish",
  addPublicIncidentUpdate |-> "POST org/incidents/:id/public-update", getPublicStatus |-> "GET status",
  listPublicStatusIncidents |-> "GET status/incidents",
  getPublicStatusIncident |-> "GET status/incidents/:id"]

\* lib/api.ts: alert channels and deliveries.
ChannelCalls == [listAlertChannels |-> "GET org/alert-channels",
  createAlertChannel |-> "POST org/alert-channels", updateAlertChannel |-> "PATCH org/alert-channels/:id",
  deleteAlertChannel |-> "DELETE org/alert-channels/:id",
  testAlertChannel |-> "POST org/alert-channels/:id/test",
  listAlertDeliveries |-> "GET org/alert-deliveries", getPublicOpenApi |-> "GET api/v1/openapi.json"]

\* lib/api.ts: apps, installed and not.
MarketplaceCalls == [listMarketplaceApps |-> "GET marketplace/apps",
  getMarketplaceApp |-> "GET marketplace/apps/:id", listOrgAppInstalls |-> "GET org/apps",
  installOrgApp |-> "POST org/apps/:id/install", updateOrgAppConfig |-> "PATCH org/apps/:id/config"]

\* lib/api.ts: what becomes of an installed app.
OrgAppCalls == [rotateOrgAppSecret |-> "POST org/apps/:id/rotate-secret",
  disableOrgApp |-> "POST org/apps/:id/disable", enableOrgApp |-> "POST org/apps/:id/enable",
  uninstallOrgApp |-> "DELETE org/apps/:id/uninstall", startOrgAppOAuth |-> "GET org/apps/:id/oauth/start",
  disconnectOrgAppOAuth |-> "POST org/apps/:id/oauth/disconnect",
  sendOrgAppTestTrigger |-> "POST org/apps/:id/test-trigger",
  listOrgAppDeliveries |-> "GET org/apps/:id/deliveries",
  replayOrgAppDelivery |-> "POST org/apps/:id/deliveries/:id/replay",
  listOrgAppCommandLogs |-> "GET org/apps/:id/command-logs"]

\* lib/api.ts: the execution graph.
GraphCalls == [listGraphNodes |-> "GET graph/nodes", listGraphEdges |-> "GET graph/edges",
  getGraphNode |-> "GET graph/node/:id", traverseGraph |-> "POST graph/traverse"]

\* lib/api.ts: its hot spots.
ImpactCalls == [graphImpactRadius |-> "POST graph/impact-radius",
  graphImpactRadiusByNode |-> "GET graph/impact-radius/node/:id", graphDeeplink |-> "GET graph/deeplink/:id"]

\* lib/api.ts: risk.
RiskCalls == [getCeoRisk |-> "GET ceo/risk", getCeoRiskWhy |-> "GET ceo/risk/why",
  recomputeRisk |-> "POST graph/risk/recompute", getCeoRiskNudges |-> "GET ceo/risk/nudges",
  generateRiskNudgesNow |-> "POST graph/risk/generate-nudges-now"]

\* lib/api.ts: fix actions.
FixCalls == [getFixActionTemplates |-> "GET fix-actions/templates",
  createFixActionRun |-> "POST fix-actions/runs",
  confirmFixActionRun |-> "POST fix-actions/runs/:id/confirm", listFixActionRuns |-> "GET fix-actions/runs"]

\* lib/api.ts: autopilot.
PilotCalls == [listAutopilotPolicies |-> "GET autopilot/policies",
  createAutopilotPolicy |-> "POST autopilot/policies",
  updateAutopilotPolicy |-> "PATCH autopilot/policies/:id",
  deleteAutopilotPolicy |-> "DELETE autopilot/policies/:id", listAutopilotRuns |-> "GET autopilot/runs",
  approveAutopilotRun |-> "POST autopilot/runs/:id/approve",
  rollbackAutopilotRun |-> "POST autopilot/runs/:id/rollback"]

\* Every function, and its route.
Calls == SessionCalls @@ CompanyCalls @@ LeadCalls @@ DealCalls @@ WorkItemCalls @@ InvoiceCalls
  @@ DashboardCalls @@ NudgeCalls @@ AiCalls @@ UserCalls @@ SettingsCalls @@ ShieldCalls
  @@ PortfolioCalls @@ MemberCalls @@ WebhookCalls @@ AlertCalls @@ ScheduleCalls @@ OnCallCalls
  @@ HolidayCalls @@ IncidentCalls @@ PostmortemCalls @@ ChannelCalls @@ MarketplaceCalls
  @@ OrgAppCalls @@ GraphCalls @@ ImpactCalls @@ RiskCalls @@ FixCalls @@ PilotCalls

-----------------------------------------------------------------------------
(* The controllers.  Where a list is empty only API tokens pass.           *)

For(roles, routes) == [r \in routes |-> roles]

\* auth/auth.controller.ts.
AuthRoutes ==
  For(Everybody, {"POST auth/login", "POST auth/refresh", "POST auth/logout", "GET auth/me",
        "POST auth/switch-org"})

\* orgs/orgs.controller.ts.
OrgRoutes == For(Everybody, {"POST orgs"})

\* companies/companies.controller.ts.
CompanyRoutes ==
  For(Management \cup {"SALES", "FINANCE"}, {"GET companies", "GET companies/:id"})
  @@ For({"ADMIN", "SALES"}, {"POST companies", "PATCH companies/:id"})

\* contacts/contacts.controller.ts.
ContactRoutes ==
  For(Management \cup {"SALES"}, {"GET companies/:id/contacts"})
  @@ For({"ADMIN", "SALES"}, {"POST contacts", "PATCH contacts/:id"})

\* leads/leads.controller.ts.
LeadRoutes ==
  For(Management \cup {"SALES"}, {"GET leads"})
  @@ For({"ADMIN", "SALES"}, {"POST leads", "PATCH leads/:id", "POST leads/:id/convert-to-deal"})

\* deals/deals.controller.ts.
DealRoutes ==
  For(Management \cup {"SALES", "FINANCE"}, {"GET deals"})
  @@ For({"ADMIN", "SALES"}, {"POST deals", "PATCH deals/:id", "POST deals/:id/mark-won",
           "POST deals/:id/mark-lost"})

\* timeline/timeline.controller.ts.
TimelineRoutes == For(Everybody, {"GET deals/:id/timeline"})

\* work-items/work-items.controller.ts.
WorkItemRoutes ==
  For(Management \cup {"OPS", "SALES"}, {"GET work-items", "GET work-items/:id",
        "GET work-items/:id/activity"})
  @@ For({"ADMIN", "OPS"}, {"POST work-items", "PATCH work-items/:id",
           "POST work-items/:id/transition", "POST work-items/:id/complete"})

\* invoices/invoices.controller.ts.
InvoiceRoutes ==
  For(Management \cup {"SALES", "FINANCE"}, {"GET invoices", "GET invoices/:id",
        "GET invoices/:id/activity"})
  @@ For({"ADMIN", "FINANCE"}, {"POST invoices", "PATCH invoices/:id", "POST invoices/:id/send",
           "POST invoices/:id/mark-paid", "POST invoices/:id/unlock"})

\* dashboard/dashboard.controller.ts.
DashboardRoutes == For(Management, {"GET dashboard/ceo"})

\* revenue-velocity/revenue-velocity.controller.ts.
RevenueRoutes == For(Management, {"GET ceo/revenue/velocity", "GET ceo/revenue/cashflow"})

\* hygiene/hygiene.controller.ts.
HygieneRoutes == For(Management \cup {"OPS"}, {"GET hygiene/inbox"})

\* nudges/nudges.controller.ts.
NudgeRoutes ==
  For(Everybody, {"POST nudges", "GET nudges", "POST nudges/recompute", "POST nudges/:id/execute",
        "POST nudges/:id/undo", "POST nudges/:id/resolve"})

\* nudges/feed.controller.ts.
FeedRoutes == For(Everybody, {"GET feed"})

\* ai/ai.controller.ts.
InsightRoutes ==
  For({"ADMIN"}, {"POST ai/compute-insights"})
  @@ For(Management, {"GET ceo/insights", "POST ceo/insights/:id/resolve"})

\* ai-actions/ai-actions.controller.ts.
ActionRoutes ==
  For({"ADMIN"}, {"POST ai/compute-actions"})
  @@ For(Management, {"GET ai/actions", "POST ai/actions/:id/approve", "POST ai/actions/:id/undo"})
  @@ For(Management \cup {"OPS"}, {"POST ai/actions/:id/execute"})

\* llm/llm.controller.ts.
ReportRoutes ==
  For(Management, {"POST llm/reports/ceo-daily-brief", "POST llm/reports/score-drop-explain",
        "GET llm/reports"})

\* directory/directory.controller.ts.
DirectoryRoutes == For(Management \cup {"OPS"}, {"GET directory/users"})

\* users/users.controller.ts.
UserRoutes ==
  For(Management, {"GET users", "POST users", "PATCH users/:id", "POST users/:id/deactivate",
        "POST users/:id/reactivate"})

\* settings/settings.controller.ts.
SettingsRoutes == For(Management, {"GET settings/policies", "PUT settings/policies"})

\* org-audit/org-audit.controller.ts.
AuditRoutes == For(Management, {"GET org/audit/export"})

\* billing/billing.controller.ts.
BillingRoutes ==
  For(Management, {"GET billing/plan", "POST billing/create-subscription", "GET billing/portal"})
  @@ For(Everybody, {"POST billing/webhook"})

\* jobs/jobs.controller.ts.
JobRoutes ==
  For({"ADMIN"}, {"POST jobs/run", "POST jobs/retention/run", "GET jobs/status/:id/:id"})

\* shield/shield.controller.ts.
ShieldRoutes == For(Management, {"GET shield/events", "PATCH shield/events/:id/resolve"})

\* portfolio/portfolio.controller.ts.
PortfolioRoutes ==
  For(Everybody, {"POST portfolio", "GET portfolio", "POST portfolio/:id/orgs",
        "DELETE portfolio/:id/orgs/:id", "GET portfolio/:id/summary"})

\* org-members/org-members.controller.ts.
MemberRoutes ==
  For(Management, {"GET org/members", "GET org/usage", "POST org/invite", "PATCH org/members/:id"})
  @@ For(Everybody, {"POST org/accept-invite"})

\* org-api-tokens/org-api-tokens.controller.ts.
ApiTokenRoutes ==
  For(Management, {"POST org/api-tokens", "GET org/api-tokens", "DELETE org/api-tokens/:id"})

\* org-webhooks/org-webhooks.controller.ts.
WebhookRoutes ==
  For(Management, {"POST org/webhooks", "GET org/webhooks", "DELETE org/webhooks/:id",
        "GET org/webhooks/:id/deliveries", "POST org/webhooks/:id/retry"})

\* alerts/alerts.controller.ts.
AlertRoutes ==
  For(Management, {"GET org/alerts", "POST org/alerts/:id/acknowledge", "GET org/alert-rules",
        "PATCH org/alert-rules/:id", "GET org/alert-channels", "POST org/alert-channels",
        "PATCH org/alert-channels/:id", "POST org/alert-channels/:id/test",
        "DELETE org/alert-channels/:id", "GET org/alert-deliveries", "GET org/escalation-policy",
        "POST org/escalation-policy", "PATCH org/escalation-policy/:id",
        "GET org/alerts/:id/escalations", "POST org/escalation-policy/test"})

\* oncall/oncall.controller.ts.
OnCallRoutes ==
  For(Management, {"GET org/oncall/schedules", "POST org/oncall/schedules",
        "PATCH org/oncall/schedules/:id", "DELETE org/oncall/schedules/:id",
        "GET org/oncall/schedules/:id/members", "POST org/oncall/schedules/:id/members",
        "PATCH org/oncall/members/:id", "DELETE org/oncall/members/:id", "POST org/oncall/overrides",
        "GET org/oncall/overrides", "DELETE org/oncall/overrides/:id", "GET org/oncall/now",
        "POST org/oncall/schedules/:id/calendars", "DELETE org/oncall/schedules/:id/calendars/:id"})

\* oncall/oncall-holidays.controller.ts.
HolidayRoutes ==
  For(Management, {"GET org/holidays/calendars", "POST org/holidays/calendars",
        "PATCH org/holidays/calendars/:id", "DELETE org/holidays/calendars/:id",
        "GET org/holidays/calendars/:id/entries", "POST org/holidays/calendars/:id/entries",
        "DELETE org/holidays/entries/:id"})

\* incidents/incidents.controller.ts.
IncidentRoutes ==
  For(Everybody, {"GET org/incidents", "GET org/incidents/:id", "POST org/incidents/:id/acknowledge",
        "POST org/incidents/:id/resolve", "POST org/incidents/:id/notes"})
  @@ For(Management, {"GET org/incidents/metrics", "PATCH org/incidents/:id/severity",
           "GET org/incidents/:id/postmortem", "POST org/incidents/:id/postmortem",
           "POST org/incidents/:id/publish", "POST org/incidents/:id/unpublish",
           "POST org/incidents/:id/public-update"})

\* status/status.controller.ts.
StatusRoutes ==
  For(Everybody, {"GET status/resolve-domain", "POST status/o/:id/subscribe",
        "GET status/o/:id/confirm", "GET status/o/:id/unsubscribe", "GET status/o/:id",
        "GET status/o/:id/incidents", "GET status/o/:id/incidents/:id", "POST status/subscribe",
        "GET status/confirm", "GET status/unsubscribe", "GET status", "GET status/incidents",
        "GET status/incidents/:id"})

\* public-api/public-api.controller.ts.
PublicApiRoutes ==
  For({}, {"GET api/v1/openapi.json", "GET api/v1/users", "GET api/v1/deals", "GET api/v1/invoices",
        "GET api/v1/work-items", "GET api/v1/insights", "GET api/v1/actions"})

\* marketplace/marketplace.controller.ts.
MarketplaceRoutes == For(Everybody, {"GET marketplace/apps", "GET marketplace/apps/:id"})

\* marketplace/org-apps.controller.ts.
OrgAppRoutes ==
  For(Management, {"GET org/apps", "POST org/apps/:id/install", "GET org/apps/:id/oauth/start",
        "PATCH org/apps/:id/config", "POST org/apps/:id/rotate-secret", "POST org/apps/:id/disable",
        "POST org/apps/:id/enable", "DELETE org/apps/:id/uninstall",
        "POST org/apps/:id/oauth/disconnect", "POST org/apps/:id/test-trigger",
        "GET org/apps/:id/deliveries", "POST org/apps/:id/deliveries/:id/replay",
        "GET org/apps/:id/command-logs"})

\* graph/graph.controller.ts.
GraphRoutes ==
  For(Everybody, {"GET graph/nodes", "GET graph/edges", "GET graph/node/:id", "POST graph/traverse"})

\* graph/impact-radius.controller.ts.
ImpactRoutes ==
  For(Management \cup {"OPS"}, {"POST graph/impact-radius", "GET graph/impact-radius/node/:id",
        "GET graph/deeplink/:id"})

\* graph/risk/risk.controller.ts.
RiskRoutes ==
  For(Management, {"POST graph/risk/recompute", "POST graph/risk/generate-nudges-now"})
  @@ For(Management \cup {"OPS"}, {"GET ceo/risk", "GET ceo/risk/why", "GET ceo/risk/nudges"})

\* fix-actions/fix-actions.controller.ts.
FixRoutes ==
  For(Everybody, {"GET fix-actions/templates", "POST fix-actions/runs",
        "POST fix-actions/runs/:id/confirm", "GET fix-actions/runs"})

\* autopilot/autopilot.controller.ts.
PilotRoutes ==
  For(Management, {"GET autopilot/policies", "POST autopilot/policies", "PATCH autopilot/policies/:id",
        "DELETE autopilot/policies/:id", "POST autopilot/runs/:id/approve",
        "POST autopilot/runs/:id/rollback"})
  @@ For(Management \cup {"OPS"}, {"GET autopilot/runs"})

\* The roles each route serves.
Routes == AuthRoutes @@ OrgRoutes @@ CompanyRoutes @@ ContactRoutes @@ LeadRoutes @@ DealRoutes
  @@ TimelineRoutes @@ WorkItemRoutes @@ InvoiceRoutes @@ DashboardRoutes @@ RevenueRoutes
  @@ HygieneRoutes @@ NudgeRoutes @@ FeedRoutes @@ InsightRoutes @@ ActionRoutes @@ ReportRoutes
  @@ DirectoryRoutes @@ UserRoutes @@ SettingsRoutes @@ AuditRoutes @@ BillingRoutes
  @@ JobRoutes @@ ShieldRoutes @@ PortfolioRoutes @@ MemberRoutes @@ ApiTokenRoutes
  @@ WebhookRoutes @@ AlertRoutes @@ OnCallRoutes @@ HolidayRoutes @@ IncidentRoutes
  @@ StatusRoutes @@ PublicApiRoutes @@ MarketplaceRoutes @@ OrgAppRoutes @@ GraphRoutes
  @@ ImpactRoutes @@ RiskRoutes @@ FixRoutes @@ PilotRoutes

\* RolesGuard.canActivate, for a call of the client.
Grants(role, call) == Calls[call] \in DOMAIN Routes /\ role \in Routes[Calls[call]]

-----------------------------------------------------------------------------
(* The pages.                                                              *)

Nothing == [x \in {} |-> {}]

Page(roles, views, resets, commands) ==
  [roles |-> roles, views |-> views, resets |-> resets, commands |-> commands]

View(calls, uses) == [calls |-> calls, uses |-> uses, on |-> uses, mount |-> TRUE]

\* Loaded first when something is selected, or on request.
Later(calls, uses) == [View(calls, uses) EXCEPT !.mount = FALSE]

\* Loaded again with another view, whose choices its own query does not contain.
Also(view, on) == [view EXCEPT !.on = @ \cup on]

\* Loaded again on some of its choices only; for the others there is a button.
Only(view, on) == [view EXCEPT !.on = on]

Button(roles, calls, reloads) ==
  [roles |-> roles, calls |-> calls, reloads |-> reloads, sets |-> {}, busy |-> FALSE, optimistic |-> {}]

Once(roles, calls, reloads) == [Button(roles, calls, reloads) EXCEPT !.busy = TRUE]

\* The answer is what the view shows next.
Setting(roles, calls, view) == [Once(roles, calls, {}) EXCEPT !.sets = {view}]

\* The row is taken off the view at once; what was shown before comes back if the call fails.
Optimistic(roles, calls, view) == [Button(roles, calls, {}) EXCEPT !.optimistic = {view}]

SalesNav == Management \cup {"SALES"}
WorkNav == Management \cup {"OPS"}
FinanceNav == Management \cup {"FINANCE"}
SalesWriters == {"SALES", "ADMIN"}
WorkWriters == {"OPS", "ADMIN"}
FinanceWriters == {"FINANCE", "ADMIN"}

-----------------------------------------------------------------------------
(* Sales.                                                                  *)

DealsPage ==
  Page(SalesNav, [deals |-> View({"listDeals", "listCompanies"}, {"stage", "page"})], {"stage"},
       [create |-> Once(SalesWriters, {"createDeal"}, {"deals"}),
        markWon |-> Button(SalesWriters, {"markDealWon"}, {"deals"}),
        markLost |-> Button(SalesWriters, {"markDealLost"}, {"deals"})])

DealPage == Page(SalesNav, [timeline |-> View({"getDealTimeline"}, {})], {}, Nothing)

LeadsPage ==
  Page(SalesNav, [leads |-> View({"listLeads", "listCompanies"}, {"stage", "page"})], {"stage"},
       [create |-> Once(SalesWriters, {"createLead"}, {"leads"}),
        convert |-> Button(SalesWriters, {"convertLeadToDeal"}, {"leads"})])

CompaniesPage ==
  Page(SalesNav, [companies |-> View({"listCompanies"}, {"page"})], {},
       [create |-> Once(SalesWriters, {"createCompany"}, {"companies"})])

CompanyPage ==
  Page(SalesNav, [company |-> View({"getCompany", "listCompanyContacts", "listDeals"}, {})], {},
       [update |-> Once(SalesWriters, {"updateCompany"}, {"company"}),
        addContact |-> Once(SalesWriters, {"createContact"}, {"company"})])

-----------------------------------------------------------------------------
(* Work and invoices.                                                      *)

WorkListPage ==
  Page(WorkNav, [items |-> View({"listWorkItems"}, {"page"})], {},
       [status |-> Button(WorkWriters, {"transitionWorkItem"}, {"items"}),
        edit |-> Button(WorkWriters, {"updateWorkItem"}, {"items"})])

WorkBoardPage ==
  Page(WorkNav, [items |-> View({"listWorkItems"}, {"page"})], {},
       [move |-> Button(WorkWriters, {"transitionWorkItem"}, {"items"})])

\* Saving sends the whole form, the status among it.
WorkItemPage ==
  Page(WorkNav, [item |-> View({"getWorkItem", "listWorkItemActivity"}, {})], {},
       [save |-> Once(WorkWriters, {"updateWorkItem"}, {"item"}),
        complete |-> Button(WorkWriters, {"completeWorkItem"}, {"item"})])

InvoicesPage ==
  Page(FinanceNav, [invoices |-> View({"listInvoices", "listCompanies", "listDeals"}, {"status", "page"})],
       {"status"}, [create |-> Once(FinanceWriters, {"createInvoice"}, {"invoices"})])

InvoicePage ==
  Page(FinanceNav, [invoice |-> View({"getInvoice", "listInvoiceActivity"}, {})], {},
       [save |-> Once(FinanceWriters, {"updateInvoice"}, {"invoice"}),
        send |-> Button(FinanceWriters, {"sendInvoice"}, {"invoice"}),
        markPaid |-> Button(FinanceWriters, {"markInvoicePaid"}, {"invoice"}),
        unlock |-> Button(FinanceWriters, {"unlockInvoice"}, {"invoice"})])

HygienePage ==
  Page(WorkNav, [inbox |-> View({"getHygieneInbox", "listUsers"}, {})], {},
       [edit |-> Button(WorkWriters, {"updateWorkItem"}, {"inbox"}),
        nudge |-> Button(WorkNav, {"createNudge"}, {"inbox"})])

NudgesPage ==
  Page(Everybody, [nudges |-> View({"listNudges"}, {"status", "page"})], {"status", "tab"},
       [resolve |-> Button(Everybody, {"resolveNudge"}, {"nudges"})])

-----------------------------------------------------------------------------
(* Management.                                                             *)

\* A nudge made here is not shown here.
DashboardPage ==
  Page(Management, [figures |-> View({"getCeoDashboard", "listUsers"}, {})], {},
       [nudge |-> Button(Management, {"createNudge"}, {})])

RevenuePage ==
  Page(Management, [revenue |-> View({"getRevenueVelocity", "getRevenueCashflow"}, {})], {},
       [refresh |-> Button(Management, {}, {"revenue"})])

\* Nudges fall back to one's own when all of them are refused.
ActionModePage ==
  Page(Management,
       [nudges |-> View({"listNudges"}, {}), insights |-> View({"listCeoInsights"}, {}),
        metrics |-> View({"getIncidentMetrics"}, {}), actions |-> View({"listAiActions"}, {"tab"}),
        briefings |-> Later({"listCeoBriefingHistory"}, {})],
       {},
       [execute |-> Button(Management, {"executeNudge"}, {}),
        undo |-> Button(Management, {"undoNudge"}, {"nudges"}),
        resolve |-> Optimistic(Management, {"resolveCeoInsight"}, "insights"),
        refreshInsights |-> Once({"ADMIN"}, {"computeAiInsights"}, {"insights"}),
        generateActions |-> Once({"ADMIN"}, {"computeAiActions"}, {"actions"}),
        approve |-> Button(Management, {"approveAiAction"}, {"actions"}),
        executeAction |-> Button(Management, {"executeAiAction"}, {"actions"}),
        undoAction |-> Button(Management, {"undoAiAction"}, {"actions"}),
        briefing |-> Once(Management, {"generateCeoBriefing"}, {}),
        history |-> Once(Management, {}, {"briefings"}),
        refresh |-> Button(Management, {}, {"nudges", "insights", "actions"})])

RiskPage ==
  Page(WorkNav,
       [risk |-> View({"getCeoRisk", "getCeoRiskWhy", "getCeoRiskNudges", "getFixActionTemplates",
                       "listAutopilotRuns"}, {}),
        runs |-> Later({"listFixActionRuns"}, {})],
       {},
       [approve |-> Button(Management, {"approveAutopilotRun"}, {"risk"}),
        rollback |-> Button(Management, {"rollbackAutopilotRun"}, {"risk"}),
        recompute |-> Once(Management, {"recomputeRisk"}, {"risk"}),
        generate |-> Once(Management, {"generateRiskNudgesNow"}, {"risk"}),
        openRuns |-> Button(WorkNav, {}, {"runs"}),
        fix |-> Once(WorkNav, {"createFixActionRun", "confirmFixActionRun"}, {"risk"})])

\* The query and the type are only sent by the search button and by turning the page.
ImpactPage ==
  Page(WorkNav,
       [nodes |-> Only(View({"listGraphNodes"}, {"query", "type", "page"}), {"page"}),
        radius |-> Later({"graphImpactRadius"}, {})],
       {},
       [search |-> Button(WorkNav, {}, {"nodes"}),
        compute |-> Once(WorkNav, {}, {"radius"}),
        hotspot |-> Button(WorkNav, {"graphDeeplink"}, {})])

PortfoliosPage ==
  Page(Management, [groups |-> View({"listPortfolioGroups"}, {})], {},
       [create |-> Once(Management, {"createPortfolio"}, {"groups"})])

PortfolioPage == Page(Management, [summary |-> View({"getPortfolioSummary"}, {})], {}, Nothing)

ShieldPage ==
  Page(Management, [events |-> View({"listShieldEvents"}, {})], {},
       [resolve |-> Optimistic(Management, {"resolveShieldEvent"}, "events"),
        refresh |-> Button(Management, {}, {"events"})])

-----------------------------------------------------------------------------
(* Administration.                                                         *)

AutopilotPage ==
  Page(Management, [policies |-> View({"listAutopilotPolicies", "getFixActionTemplates"}, {})], {},
       [create |-> Button(Management, {"createAutopilotPolicy"}, {"policies"}),
        toggle |-> Button(Management, {"updateAutopilotPolicy"}, {"policies"}),
        delete |-> Button(Management, {"deleteAutopilotPolicy"}, {"policies"})])

GraphPage ==
  Page(Management,
       [nodes |-> View({"listGraphNodes"}, {"type", "query", "page"}),
        node |-> Later({"getGraphNode"}, {"selected"})],
       {}, Nothing)

UsersPage ==
  Page(Management, [users |-> View({"listManagedUsers"}, {"filter", "page"})], {"filter"},
       [create |-> Once(Management, {"createManagedUser"}, {"users"}),
        edit |-> Once(Management, {"updateManagedUser"}, {"users"}),
        toggle |-> Button(Management, {"deactivateManagedUser", "reactivateManagedUser"}, {"users"})])

BillingPage ==
  Page(Management, [plan |-> View({"getBillingPlan", "getOrgUsage"}, {})], {},
       [upgrade |-> Once(Management, {"createBillingSubscription"}, {})])

BillingSuccessPage == Page(Management, [plan |-> View({"getBillingPlan"}, {})], {}, Nothing)

MembersPage ==
  Page(Management, [members |-> View({"listOrgMembers"}, {})], {},
       [invite |-> Once(Management, {"inviteOrgMember"}, {"members"})])

PoliciesPage ==
  Page(Management, [policy |-> View({"getPolicySettings"}, {})], {},
       [save |-> Setting(Management, {"updatePolicySettings"}, "policy"),
        runNow |-> Once({"ADMIN"}, {"runAutopilotNow"}, {})])

AuditPage ==
  Page(Management, [export |-> Later({"exportOrgAuditCsv"}, {})], {},
       [download |-> Once(Management, {}, {"export"})])

-----------------------------------------------------------------------------
(* The marketplace.                                                        *)

\* The list is asked for twice on opening: at once, and with the query after 250 ms.
MarketplacePage ==
  Page(Everybody, [apps |-> View({"listMarketplaceApps"}, {"query", "category"})], {}, Nothing)

\* One flag, saving, disables all the buttons.
AppPage ==
  Page(Everybody, [app |-> View({"getMarketplaceApp"}, {})], {},
       [install |-> Once(Management, {"installOrgApp"}, {"app"}),
        connect |-> Once(Management, {"startOrgAppOAuth"}, {}),
        disconnect |-> Once(Management, {"disconnectOrgAppOAuth"}, {"app"}),
        rotate |-> Once(Management, {"rotateOrgAppSecret"}, {}),
        disable |-> Once(Management, {"disableOrgApp"}, {"app"}),
        enable |-> Once(Management, {"enableOrgApp"}, {"app"}),
        uninstall |-> Once(Management, {"uninstallOrgApp"}, {"app"}),
        configure |-> Once(Management, {"updateOrgAppConfig"}, {"app"})])

-----------------------------------------------------------------------------
(* The developer portal.                                                   *)

\* The plan is asked first; a tab opens if it has the developer features.
DeveloperPage == Page(Management, [gate |-> View({"getBillingPlan"}, {})], {}, Nothing)

TokensTab ==
  Page(Management, [tokens |-> View({"listOrgApiTokens"}, {})], {},
       [create |-> Once(Management, {"createOrgApiToken"}, {"tokens"}),
        revoke |-> Button(Management, {"revokeOrgApiToken"}, {"tokens"})])

WebhooksTab ==
  Page(Management, [webhooks |-> View({"listOrgWebhooks"}, {})], {},
       [create |-> Once(Management, {"createOrgWebhook"}, {"webhooks"}),
        delete |-> Button(Management, {"deleteOrgWebhook"}, {"webhooks"})])

AppsTab ==
  Page(Management,
       [installs |-> View({"listOrgAppInstalls"}, {}),
        logs |-> Later({"listOrgAppDeliveries", "listOrgAppCommandLogs"}, {"app"})],
       {},
       [trigger |-> Once(Management, {"sendOrgAppTestTrigger"}, {"logs"}),
        replay |-> Button(Management, {"replayOrgAppDelivery"}, {"logs"})])

\* The specification is asked for with the user's session.
DocsTab == Page(Management, [docs |-> View({"getPublicOpenApi"}, {})], {}, Nothing)

IncidentsTab ==
  Page(Management,
       [list |-> View({"listIncidents", "getIncidentMetrics"}, {"status", "severity"}),
        detail |-> Later({"getIncident", "getIncidentPostmortem"}, {})],
       {},
       [open |-> Button(Management, {}, {"detail"}),
        acknowledge |-> Button(Management, {"acknowledgeIncident"}, {"list"}),
        resolve |-> Button(Management, {"resolveIncident"}, {"list"}),
        severity |-> Button(Management, {"updateIncidentSeverity"}, {"list"}),
        note |-> Button(Management, {"addIncidentNote"}, {"detail"}),
        postmortem |-> Button(Management, {"upsertIncidentPostmortem"}, {"list", "detail"}),
        publish |-> Button(Management, {"publishIncident"}, {"list", "detail"}),
        unpublish |-> Button(Management, {"unpublishIncident"}, {"list", "detail"}),
        update |-> Button(Management, {"addPublicIncidentUpdate"}, {"detail"})])

\* Choosing an alert makes another loadAlertDeliveries, hence another loadAll.
LogsTab ==
  Page(Management,
       [webhooks |-> Also(View({"listOrgWebhooks"}, {}), {"alert"}),
        usage |-> Also(View({"exportOrgAuditCsv"}, {}), {"alert"}),
        alerts |-> Also(View({"listOrgAlerts"}, {}), {"alert"}),
        channels |-> Also(View({"listAlertChannels"}, {}), {"alert"}),
        alertDeliveries |-> View({"listAlertDeliveries"}, {"alert"}),
        policy |-> Also(View({"getEscalationPolicy"}, {}), {"alert"}),
        deliveries |-> Later({"listWebhookDeliveries"}, {"webhook", "page"}),
        escalations |-> Later({"listAlertEscalations"}, {})],
       {"webhook"},
       [retry |-> Button(Management, {"retryWebhookDelivery"}, {"deliveries"}),
        acknowledge |-> Button(Management, {"acknowledgeOrgAlert"}, {"alerts"}),
        createChannel |-> Once(Management, {"createAlertChannel"}, {"channels", "alertDeliveries"}),
        testChannel |-> Button(Management, {"testAlertChannel"}, {"alertDeliveries"}),
        deleteChannel |-> Button(Management, {"deleteAlertChannel"}, {"channels", "alertDeliveries"}),
        savePolicy |-> Setting(Management, {"saveEscalationPolicy"}, "policy"),
        testPolicy |-> Once(Management, {"testEscalationPolicy"}, {"alerts", "alertDeliveries"}),
        escalations |-> Button(Management, {}, {"escalations"})])

\* Moving a member and editing holidays leave the panel of who is on call as it was.
OnCallTab ==
  Page(Management,
       [all |-> View({"listOnCallSchedules", "listManagedUsers", "getOnCallNow", "listHolidayCalendars"}, {}),
        details |-> Later({"listOnCallMembers", "listOnCallOverrides"}, {"schedule"}),
        entries |-> Later({"listHolidayEntries"}, {"calendar"}),
        now |-> Later({"getOnCallNow"}, {})],
       {},
       [createSchedule |-> Button(Management, {"createOnCallSchedule"}, {"all"}),
        saveSchedule |-> Button(Management, {"updateOnCallSchedule"}, {"all", "details"}),
        disableSchedule |-> Button(Management, {"deleteOnCallSchedule"}, {"all"}),
        createMember |-> Button(Management, {"createOnCallMember"}, {"details", "now"}),
        moveMember |-> Button(Management, {"updateOnCallMember"}, {"details"}),
        removeMember |-> Button(Management, {"deleteOnCallMember"}, {"details", "now"}),
        createOverride |-> Button(Management, {"createOnCallOverride"}, {"details", "now"}),
        deleteOverride |-> Button(Management, {"deleteOnCallOverride"}, {"details", "now"}),
        createCalendar |-> Button(Management, {"createHolidayCalendar"}, {"all"}),
        createEntry |-> Button(Management, {"createHolidayEntry"}, {"entries"}),
        deleteEntry |-> Button(Management, {"deleteHolidayEntry"}, {"entries"}),
        link |-> Button(Management, {"linkOnCallScheduleCalendar"}, {"all", "details"}),
        unlink |-> Button(Management, {"unlinkOnCallScheduleCalendar"}, {"all", "details"})])

-----------------------------------------------------------------------------

PageTable ==
  [deals |-> DealsPage, deal |-> DealPage, leads |-> LeadsPage, companies |-> CompaniesPage,
   company |-> CompanyPage, workList |-> WorkListPage, workBoard |-> WorkBoardPage,
   workItem |-> WorkItemPage, invoices |-> InvoicesPage, invoice |-> InvoicePage,
   hygiene |-> HygienePage, nudges |-> NudgesPage, dashboard |-> DashboardPage, revenue |-> RevenuePage,
   actionMode |-> ActionModePage, risk |-> RiskPage, impact |-> ImpactPage,
   portfolios |-> PortfoliosPage, portfolio |-> PortfolioPage, shield |-> ShieldPage,
   autopilot |-> AutopilotPage, graph |-> GraphPage, users |-> UsersPage, billing |-> BillingPage,
   billingSuccess |-> BillingSuccessPage, members |-> MembersPage, policies |-> PoliciesPage,
   audit |-> AuditPage, marketplace |-> MarketplacePage, app |-> AppPage, developer |-> DeveloperPage,
   tokens |-> TokensTab, webhooks |-> WebhooksTab, apps |-> AppsTab, docs |-> DocsTab,
   incidents |-> IncidentsTab, logs |-> LogsTab, onCall |-> OnCallTab]
=============================================================================
