SPECIFICATION Spec
CONSTANTS
  e1 = e1
  e2 = e2
  d = d
  u = u
  pg = pg
  chat = chat
  Requests = {e1, e2, d}
  Runs = {u}
  Pages = {pg}
  RunOf <- SameAnswer
  PageOf <- SamePage
  ChatOf <- OneChat
  Kind <- EditsAndDelete
  Clicks = {c1, c2}
  Undos = {x1, x2}
  MayEnd = {}
  MaxRestarts = 0
SYMMETRY Alike
CHECK_DEADLOCK FALSE
INVARIANTS
  OnlyWithLeave
  UndoneIsGone
PROPERTY
  UsersWordsStay
