CONSTANTS
  c1 = c1
  c2 = c2
  Conns <- MCConns
  NoConn = NoConn
  MaxProxies = 2
SYMMETRY Symmetry
SPECIFICATION Spec
INVARIANTS
  TypeOK
  Isolation
  FaultCauses
PROPERTY PoolRefinement
CHECK_DEADLOCK FALSE
