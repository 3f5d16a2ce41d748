CONSTANT MaxLines = 5
SPECIFICATION FairSpec
INVARIANT SavedToBeWritten
CHECK_DEADLOCK FALSE
