SPECIFICATION Spec
CONSTANTS
  h1 = h1  h2 = h2  k1 = k1  k2 = k2  e1 = e1  va = va  vb = vb
  Handlers = {h1, h2}
  Keys = {k1}
  Entities = {e1}
  Values = {va, vb}
  Kind <- ReassignKind
  EntityOf <- ReassignEntity
  ValueOf <- ReassignValue
  NeedsConfirmation = {k1}
  RateLimit = 2
  MaxFaults = 0
INVARIANTS ExecutedAtMostOnce
CHECK_DEADLOCK FALSE
