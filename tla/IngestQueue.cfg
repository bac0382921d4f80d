CONSTANTS
  j1 = j1
  j2 = j2
  m1 = m1
  Jobs = {j1, j2}
  Materials = {m1}
  About <- OneMaterial
  Slots = 1
  MaxRestarts = 1
  Stoppable = {j1}
  MayClose = TRUE
  None = None
SPECIFICATION FairSpec
CHECK_DEADLOCK FALSE
INVARIANTS
  SlotsRespected
  RunningIsOwned
  StoppedSavedNothing
PROPERTIES
  NothingStartsWhileClosing
  LifecycleKept
  QueuedIsStarted
  StopEnds
