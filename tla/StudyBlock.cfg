SPECIFICATION StudySpec
CONSTANTS
  Threads = {t1, t2, t3}
  Keys = {block, file}
  LockIds = {l1, l2}
  NoLock = NoLock
  Block = block
  Workers = {t1, t2}
  Open = {o}
  Closed = {c}
  Cards = {f, g}
  Nothing = Nothing
  MaxCalls <- Calls
  DeckCalls = 3
  TestCalls = 3
  MaxAttempts = 2
SYMMETRY Alike
VIEW Seen
CHECK_DEADLOCK FALSE
INVARIANTS
  MutualExclusion
  SavedOnce
  FlagsHaveTasks
PROPERTIES
  BookKept
  GradesStay
