CONSTANTS
  r1 = r1
  r2 = r2
  r3 = r3
  r4 = r4
  r5 = r5
  r6 = r6
  Records <- MCRecords
SPECIFICATION Spec
INVARIANT ReuseIsExclusive
CHECK_DEADLOCK FALSE
