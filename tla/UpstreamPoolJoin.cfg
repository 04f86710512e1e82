CONSTANTS
  Attempts = {a1, a2}
  Conns = {c1, c2, c3}
  MaxIdleConnections = 1
  None = None
SPECIFICATION PoolSpec
SYMMETRY Symmetry
INVARIANT ClosesOwn
