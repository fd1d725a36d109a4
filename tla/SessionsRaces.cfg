SPECIFICATION Spec
CONSTANTS
  r1 = r1
  r2 = r2
  None = None
  Request = {r1, r2}
  Process = {p1, p2}
  File = {f1}
  MaxConvs = 4
  MaxWaits = 2
  Ops <- MCOps
  Starts <- MCStarts
INVARIANTS MessagesStay AnswersFollowQuestions OneDefault 
PROPERTIES ServedOneByOne RequestsEnd
CHECK_DEADLOCK FALSE
