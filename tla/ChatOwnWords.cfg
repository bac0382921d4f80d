SPECIFICATION Spec
CONSTANTS
  Answers = {1, 2}
  Requests = {1, 2}
  MaxRequests = 3
  Asking = {1}
  MayClose = FALSE
  MaxRestarts = 0
INVARIANT OwnWordsAreHeard
CHECK_DEADLOCK FALSE
