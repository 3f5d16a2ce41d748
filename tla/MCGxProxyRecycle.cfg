CONSTANTS
  c1 = c1
  c2 = c2
  Conns <- MCConns
  NoConn = NoConn
  MaxProxies = 2
SYMMETRY Symmetry
SPECIFICATION Spec
INVARIANT RecycleNeverAborts
CHECK_DEADLOCK FALSE
