SPECIFICATION Spec
CONSTANTS
  h1 = h1
  h2 = h2
  Handlers = {h1, h2}
  People = {"p"}
  MaxInvites = 3
  MaxRemovals = 1
  SeatLimit = 2
  InviteLimit = 2
  MaxTokens = 3
  Plans = {"starter", "growth"}
  MaxRemote = 2
  MaxEvents = 2
  MaxItems = 3
  MaxCreated = 1
  MaxUnlinks = 1
  MaxUpdates = 2
  MaxCuts = 1
  MaxVersions = 3
  MaxDomains = 2
  MaxLinks = 2
  LinkLimit = 2
  MaxSubscribers = 3
  SubscriberLimit = 1
  Window = 5
  Major = 5
  Degraded = 3
  Patterns = {"p", "q"}
  Organizations = {1, 2}
  MaxAttempts = 3
  MaxStalls = 1
  MaxCalls = 3
  Keys = {"k", "l"}
  RateLimit = 3
  PlanLimits = {1, 2}
  MaxPlanItems = 4
  HourLimit = 2
  MaxSlugs = 3
  Lists = {"empty", "office"}
  SpikeAt = 2
  MaxFails = 4
  MaxBuckets = 2
  BulkAbove = 2
  MaxDeactivations = 4
  Entities = {"e"}
  Invoices = {"e"}
  RiskTypes = {"s", "t"}
  Cap = 1
  MaxAuto = 3
  MaxRisk = 3
  MaxDays = 1
  InsightTypes = {"deal"}
  MaxRows = 3
  MaxLive = 3
  MaxWrites = 3
  MostFound = {1, 2}
  Keep = 1
  Base = 2
  PerItem = 1
  Budget = 5
  MaxMoments = 2
  MaxAsked = 3
  MaxFaults = 1
  Users = {"u", "v"}
  MaxVersion = 2
  Nodes = {"a", "b", "c"}
  Facts <- LateInvoice
  Share = 25
  Rounds = 3
  MaxEdits = 3
  MaxSchedules = 3
  ShiftDay = 2
  Windows <- ShiftWindows
  MaxDisabled = 1
  Day = 4
  Turns = {1, 2}
  Places = 2
  MaxHours = 12
  Offered <- PolicyLists
  MaxSteps = 2
  Sla = 1
  Cooldown = 1
  MaxAge = 2
  MaxPolicyEdits = 1
  Opened <- AllPages
  MaxLoads = 3
  MaxPressed = 1
SYMMETRY HandlersAlike
INVARIANTS TypeOK  LateWritesBounded    
PROPERTY TurnsPassInOrder
CHECK_DEADLOCK FALSE
