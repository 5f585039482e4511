SPECIFICATION Spec
CONSTANTS
  c1 = c1
  c2 = c2
  prefix = prefix
  d0 = d0
  d1 = d1
  r1 = r1
  reader1 = reader1
  None = None
  Live = Live
  Ids = {c1, c2}
  Matches <- MCMatches
  RecoveryIds = {r1}
  Data = {d0, d1}
  EmptyData = d0
  Readers = {}
  Failures = FALSE
  Recreate = FALSE
  Advisory = FALSE
  MaxAncestors = 2
  MaxFaults = 2
CHECK_DEADLOCK FALSE
INVARIANT AbortKeepsOldTree
