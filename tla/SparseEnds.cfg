SPECIFICATION FairSpec
CONSTANTS
  Docs = {d1,d2}
  Routes = {r1,r2}
  Connectors = {c1}
  Workers = {w1}
  Searchers = {}
  Apart = FALSE
  Reloading = TRUE
  MaxCalls = 2
  MaxRestarts = 1
  None = None
CHECK_DEADLOCK FALSE
PROPERTIES
  CallsEnd
