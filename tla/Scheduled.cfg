SPECIFICATION Spec
CONSTANTS
  None = None
  Torn = Torn
  Mixed = Mixed
  Paths = {1, 2}
  Contents = {pdf, txt, empty}
  Convertible = {txt}
  Blank = {empty}
  Pool = {t1, t2}
  MaxAttempts = 2
  Replays = {1}
  MaxDrops = 2
  MaxScans = 2
  MaxCalls = 1
  MaxFaults = 1
SYMMETRY Symmetry
INVARIANTS LastSuccessStands ClaimedIsDispatched
PROPERTY DispatchedOnce
CHECK_DEADLOCK FALSE
