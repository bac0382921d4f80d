SPECIFICATION Spec
CONSTANTS
  e1 = e1
  e2 = e2
  d = d
  u = u
  pg = pg
  chat = chat
  Requests = {e1, d}
  Runs = {u}
  Pages = {pg}
  RunOf <- SameAnswer
  PageOf <- SamePage
  ChatOf <- OneChat
  Kind <- EditAndDelete
  Clicks = {c1}
  Undos = {}
  MayEnd = {u}
  MaxRestarts = 0
CHECK_DEADLOCK FALSE
INVARIANT
  WrittenCanBeUndone
