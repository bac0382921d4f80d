SPECIFICATION FairSpec
CONSTANTS
  e1 = e1
  e2 = e2
  d = d
  u = u
  pg = pg
  chat = chat
  Requests = {e1}
  Runs = {u}
  Pages = {pg}
  RunOf <- SameAnswer
  PageOf <- SamePage
  ChatOf <- OneChat
  Kind <- LoneEdit
  Clicks = {c1, c2}
  Undos = {x1}
  MayEnd = {u}
  MaxRestarts = 1
CHECK_DEADLOCK FALSE
INVARIANTS
  DeadlineStandsStill
  OneVerdict
  RefusedIsNotWritten
PROPERTIES
  AllowedCallGoesOn
  CallsEndWithTheAnswer
