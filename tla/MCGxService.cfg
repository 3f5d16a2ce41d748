CONSTANTS
  c1 = c1
  c2 = c2
  Conns <- MCConns
  NoConn = NoConn
  MaxProxies = 1
SPECIFICATION ServiceFairSpec
INVARIANTS
  ServiceTypeOK
  DoomedDies
  LoopCloses
PROPERTIES
  FateSealed
  StopNoticed
  ShutdownEnds
  UpstreamFollowsClient
  RecordComesBack
  LifecycleRefinement
CHECK_DEADLOCK FALSE
