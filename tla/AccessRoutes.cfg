SPECIFICATION Spec
CONSTANTS
  u1 = u1
  u2 = u2
  d1 = d1
  n1 = n1
  r1 = r1
  r2 = r2
  None = None
  MaxAsked = 7
  Gone = Gone
  p1 = p1
  p2 = p2
  s1 = s1
  User = {u1, u2}
  Doc = {d1}
  Project = {p1, p2}
  Share = {s1}
  Request = {r1, r2}
  Space = {1}
  Public = {}
  Name = {n1}
  NameOf <- MCNameOf
  InMemory = FALSE
INVARIANTS OneOwner DeadSpacesAreEmpty GrantsComeFromForks CreatorStays
SYMMETRY MCSymmetry
CHECK_DEADLOCK FALSE
