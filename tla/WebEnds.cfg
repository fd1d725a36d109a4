SPECIFICATION FairSpec
CONSTANTS
  u1 = u1
  u2 = u2
  u3 = u3
  c1 = c1
  c2 = c2
  o1 = o1
  o2 = o2
  None = None
  Connectors = {c1}
  Owners = {o1}
  Owner <- OneOwner
  Urls = {u1,u2,u3}
  Start = u1
  Lands <- Redirect
  Links <- AllPages
  Contents = {x,y}
  NewContents = {}
  Handlers = {h1}
  Loops = {s1}
  Caps = {1}
  Faults = {"bad","deep","thin","index","own","retire"}
  MaxEdits = 0
  MaxJobs = 1
  MaxExpiries = 1
  MaxRestarts = 1
CHECK_DEADLOCK FALSE
INVARIANTS
  OneSyncAtATime
  UnreachedIsKept
PROPERTIES
  ThreadsEnd
