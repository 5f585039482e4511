SPECIFICATION ShareSpec
CONSTANTS
  s1 = s1
  s2 = s2
  h1 = h1
  h2 = h2
  t1 = t1
  x1 = x1
  w1 = w1
  None = None
  Sessions = {s1, s2}
  Handlers = {h1, h2}
  Tokens = {t1}
  Executions = {x1}
  Writes = {w1}
  MaxSwaps = 1
  MaxCrashes = 1
SYMMETRY Symmetry
INVARIANTS
  FenceHasOneOwner
  MutationIsExclusive
  AccessIsGranted
  AccessSeesOneTree
  WritesLeaveNoStray
