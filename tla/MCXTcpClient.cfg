CONSTANTS
  MaxFd = 3
  MaxConnects = 3
SPECIFICATION FairSpec
INVARIANTS
  TypeOK
  PacketsOfOne
  FirstVictim
  UnseenNeedsStdin
PROPERTY ResetNoticed
CHECK_DEADLOCK FALSE
