CONSTANTS
  Requests = {r1, r2}
  Prober = prober
  MaxInFlight = 1
  PassiveFailureThreshold = 2
  PassiveInterval = 2
  CircuitCooldown = 1
  HalfOpenMaxRequests = 1
  HalfOpenSuccesses = 1
  ActiveFailureThreshold = 2
  ActiveSuccessThreshold = 1
  MaxClock = 2
SPECIFICATION FairSpec
INVARIANTS TypeOK AdmissionExact NoPermitLeak ProbeIsCurrent TransitionsAccounted
PROPERTIES EvidenceDecides ImplementsCircuit OpenIsProbed PermitsReturn
