SPECIFICATION Spec
CONSTANTS
  h1 = h1  h2 = h2  k1 = k1  k2 = k2  r1 = r1  r2 = r2   e1 = e1  va = va  vb = vb
  Handlers = {h1}
  Keys = {k1}
  Entities = {e1}
  Values = {va}
  Unset = va
  Kind <- EscalateKind
  EntityOf <- OneEntity
  ValueOf <- OneValue
  NeedsConfirmation = {}
  RateLimit = 3
  MaxFaults = 0
  Runs = {r1}
  AutoExecute = TRUE
  MaxExecutionsPerHour = 1
  MaxHuman = 0
  MaxApFaults = 0
INVARIANTS KillSwitchBlocks
CHECK_DEADLOCK FALSE
