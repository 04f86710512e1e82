CONSTANTS
  Workers = {w1, w2}
  MaxRequests = 5
SPECIFICATION FairSpec
INVARIANTS WorkersInv ResultAddsUp
PROPERTIES LiveConnections BenchmarkReturns
CHECK_DEADLOCK FALSE
