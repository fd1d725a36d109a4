SPECIFICATION Spec
CONSTANTS
  u1 = u1
  u2 = u2
  u3 = u3
  c1 = c1
  c2 = c2
  o1 = o1
  o2 = o2
  None = None
  Connectors = {c1,c2}
  Owners = {o1,o2}
  Owner <- TwoOwners
  Urls = {u1,u2,u3}
  Start = u1
  Lands <- Redirect
  Links <- AllPages
  Contents = {x,y}
  NewContents = {x,y,None}
  Handlers = {h1}
  Loops = {}
  Caps = {}
  Faults = {"bad","thin","index"}
  MaxEdits = 1
  MaxJobs = 3
  MaxExpiries = 0
  MaxRestarts = 0
CHECK_DEADLOCK FALSE
SYMMETRY Symmetry
INVARIANTS
  PagesAreReadable
  LibraryFollowsPages
  UnownedIsDropped
