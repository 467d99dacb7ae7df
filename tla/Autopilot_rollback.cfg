SPECIFICATION Spec
CONSTANTS
  h1 = h1  h2 = h2  k1 = k1  k2 = k2  r1 = r1  r2 = r2   e1 = e1  va = va  vb = vb
  Handlers = {h1}
  Keys = {k1}
  Entities = {e1}
  Values = {va, vb}
  Unset = vb
  Kind <- ReassignKind
  EntityOf <- OneEntity
  ValueOf <- OneValue
  NeedsConfirmation = {k1}
  RateLimit = 3
  MaxFaults = 0
  Runs = {r1, r2}
  AutoExecute = TRUE
  MaxExecutionsPerHour = 2
  MaxHuman = 1
  MaxApFaults = 0
PROPERTIES RollbackUndoes
CHECK_DEADLOCK FALSE
