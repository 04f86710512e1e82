CONSTANTS
  Requests = {r1}
  BackendCount = 2
  MaxInFlight = 1
  MaxAttempts = 2
  Selector = "round-robin"
  Methods = {"GET"}
  Failures = {"dial_failure", "dial_timeout", "write_failure", "write_timeout", "upstream_timeout",
              "upstream_protocol", "upstream_incomplete", "canceled"}
  SlowLatency = FALSE
  Reporting = {}
  None = None
SPECIFICATION Spec
INVARIANT BufferedResponseKept
CHECK_DEADLOCK FALSE
