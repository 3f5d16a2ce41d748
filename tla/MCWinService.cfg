CONSTANT Accepts <- MCAccepts
SPECIFICATION FairSpec
INVARIANTS
  TypeOK
  StoppedIsOver
  LostOnlyEarly
  EndedUnderRunning
PROPERTY StopReturns
CHECK_DEADLOCK FALSE
