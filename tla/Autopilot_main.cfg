SPECIFICATION Spec
CONSTANTS
  h1 = h1  h2 = h2  k1 = k1  k2 = k2  r1 = r1  r2 = r2  e1 = e1  va = va  vb = vb
  Handlers = {h1, h2}
  Keys = {k1}
  Entities = {e1}
  Values = {va}
  Unset = va
  Kind <- DueDateKind
  EntityOf <- OneEntity
  ValueOf <- OneValue
  NeedsConfirmation = {}
  RateLimit = 3
  MaxFaults = 1
  Runs = {r1, r2}
  AutoExecute = TRUE
  MaxExecutionsPerHour = 1
  MaxHuman = 1
  MaxApFaults = 1
INVARIANTS TypeOK ApprovalGate ExecutedHasEffect UndecidedOnlyByFault
PROPERTIES ImplementsFixActions
SYMMETRY Symmetry
CHECK_DEADLOCK FALSE
