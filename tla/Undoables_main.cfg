SPECIFICATION Spec
CONSTANTS
  h1 = h1  h2 = h2  a1 = a1  n1 = n1
  Handlers = {h1, h2}
  Actions = {a1}
  Nudges = {n1}
  NoItem = NoItem  NoLock = NoLock  BySend = BySend  ByJob = ByJob  NoData = NoData
  MaxFaults = 1
SYMMETRY Symmetry
INVARIANTS TypeOK UndisturbedItemsTellTheTruth ExecutionsPerApproval LateEditsBounded SendsBounded
