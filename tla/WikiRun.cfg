SPECIFICATION Spec
CONSTANTS
  Choices = {a, b, d}
  Unnamed = {d}
  Nobody = Nobody
  Ops <- NotesAndConcepts
  Budget = 3
  MaxAnswers = 2
  MaxBusy = 1
  MaxItems = 1
  MaxCalls = 1
  MaxTexts = 2
  MaxPortions = 3
  MaxBreaks = 1
SYMMETRY Alike
VIEW Seen
CHECK_DEADLOCK FALSE
INVARIANTS
  OneText
  GoneIsGone
PROPERTIES
  NewWorkDecides
  ToldIsKept
  PausesMoveOn
