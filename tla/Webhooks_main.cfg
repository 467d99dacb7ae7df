SPECIFICATION Spec
CONSTANTS
  Endpoints = {e1}
  Deliverers = {d1, d2}
  Attempts = 2
  DisableAt = 2
  Threshold = 3
  MaxEvents = 3
  MaxFaults = 1
INVARIANTS TypeOK BreakerTrips DisabledForCause AlertMeansSpike
PROPERTIES AlertOncePerSpike DisabledStaysQuiet
CHECK_DEADLOCK FALSE
