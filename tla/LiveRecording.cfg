SPECIFICATION QuitFairSpec
CONSTANTS
  MaxPending = 1
  MaxAttempts = 2
  SaveRetries = 1
  Windows = 4
  Faults = 2
INVARIANTS NothingForgotten SavedIsSaved
PROPERTIES KeepsTheLog StopReturns
CHECK_DEADLOCK FALSE
