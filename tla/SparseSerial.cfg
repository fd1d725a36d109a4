SPECIFICATION Spec
CONSTANTS
  Docs = {d1,d2,d3}
  Routes = {r1,r2}
  Connectors = {c1}
  Workers = {w1}
  Searchers = {s1}
  Apart = TRUE
  Reloading = TRUE
  MaxCalls = 5
  MaxRestarts = 2
  None = None
CHECK_DEADLOCK FALSE
SYMMETRY Symmetry
INVARIANTS
  AlignedWhenQuiet
PROPERTY ImplementsDocumentSet
