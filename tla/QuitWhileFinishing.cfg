SPECIFICATION QuitSpec
CONSTANTS
  MaxPending = 1
  MaxAttempts = 2
  SaveRetries = 1
  Windows = 2
  Faults = 2
INVARIANTS NoSilentLoss
CHECK_DEADLOCK FALSE
