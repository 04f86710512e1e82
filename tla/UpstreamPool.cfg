CONSTANTS
  Attempts = {a1, a2}
  Conns = {c1, c2, c3}
  MaxIdleConnections = 1
  None = None
SPECIFICATION FairPoolSpec
INVARIANTS PoolInv
PROPERTY PoolDrains
