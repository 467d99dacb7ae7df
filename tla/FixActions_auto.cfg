SPECIFICATION Spec
CONSTANTS
  h1 = h1  h2 = h2  k1 = k1  k2 = k2  e1 = e1  va = va  vb = vb
  Handlers = {h1, h2}
  Keys = {k1, k2}
  Entities = {e1}
  Values = {va}
  Kind <- MixedKind
  EntityOf <- MixedEntity
  ValueOf <- MixedValue
  NeedsConfirmation = {k2}
  RateLimit = 1
  MaxFaults = 1
INVARIANTS WorkflowInv AutoExecutedAtMostOnce SucceededMeansDone RateLimitOvershoot
SYMMETRY HandlerSymmetry
CHECK_DEADLOCK FALSE
