SPECIFICATION FairSpec
CONSTANTS
  Answers = {1, 2}
  Requests = {1, 2}
  MaxRequests = 3
  Asking = {1}
  MayClose = TRUE
  MaxRestarts = 1
INVARIANTS OneAnswerAtATime StreamingIsAnswering ChangesAreKept AgentHearsTheAnswer
PROPERTIES ThreadKept RequestsEnd
CHECK_DEADLOCK FALSE
