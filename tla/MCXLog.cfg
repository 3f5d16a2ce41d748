CONSTANT MaxLines = 5
SPECIFICATION FairSpec
INVARIANTS
  TypeOK
  Separate
  Accounted
  FileInOrder
  AsleepWritesAll
  FirstNamingSafe
PROPERTIES
  FirstLineWritten
  JoinReturns
CHECK_DEADLOCK FALSE
