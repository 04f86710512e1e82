CONSTANTS
  Requests = {r1, r2}
  BackendCount = 2
  MaxInFlight = 1
  MaxAttempts = 2
  Selector = "least-in-flight"
  Methods = {"GET", "POST"}
  Failures = {"canceled", "dial_timeout"}
  SlowLatency = TRUE
  Reporting = {200}
  None = None
SPECIFICATION Spec
SYMMETRY Symmetry
INVARIANTS PlacesInv AttemptsBounded TrailTells MetricsReconcile
CHECK_DEADLOCK FALSE
