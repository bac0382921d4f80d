SPECIFICATION FairSpec
CONSTANTS
  a = a
  b = b
  build = build
  call = call
  answer = answer
  search = search
  Engines = {a, b}
  Works = {build, call, answer, search}
  WholeJobs = {search}
  EngineOf <- TwoAgents
  Outer <- Nested
  Remote = {}
  MaxUpdates = 1
INVARIANTS
  NothingLeaks
  StoppedStaysOut
PROPERTIES
  ExclusionKept
  UpdateGetsItsTurn
  WaitingWorkGoesOn
