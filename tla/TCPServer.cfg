CONSTANTS
  Conns = {c1, c2, c3}
  MaxConnections = 2
  MaxAccepts = 3
  NoConn = NoConn
SPECIFICATION FairServerSpec
INVARIANTS ServerInv DrainOutcome QuietDrain
PROPERTY ServeEnds
CHECK_DEADLOCK FALSE
