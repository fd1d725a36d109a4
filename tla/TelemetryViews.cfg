SPECIFICATION FairSpec
CONSTANTS
  r1 = r1
  r2 = r2
  r3 = r3
  s1 = s1
  s2 = s2
  None = None
  Threads = {t1, t2}
  Sessions = {s1, s2}
  Records = {r1, r2, r3}
  SessionOf <- TwoSessions
  Refused = {r2}
  MaxHistory = 2
  MaxScope = 1
  Admins = TRUE
  Outages = TRUE
  MaxViews = 2
  MaxRestarts = 1
CHECK_DEADLOCK FALSE
INVARIANTS
  OnlyForgottenBlocks
  NoRecordTwice
PROPERTIES
  FreshCallsEnd
