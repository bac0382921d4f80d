CONSTANTS
  j1 = j1
  j2 = j2
  m1 = m1
  Jobs = {j1, j2}
  Materials = {m1}
  About <- OneMaterial
  Slots = 1
  MaxRestarts = 0
  Stoppable = {}
  MayClose = TRUE
  None = None
SPECIFICATION Spec
CHECK_DEADLOCK FALSE
PROPERTY SavingFinishes
