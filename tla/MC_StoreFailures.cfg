SPECIFICATION Spec
CONSTANTS
  c1 = c1
  c2 = c2
  prefix = prefix
  d0 = d0
  d1 = d1
  r1 = r1
  reader1 = reader1
  None = None
  Live = Live
  Ids = {c1, c2}
  Matches <- MCExact
  RecoveryIds = {r1}
  Data = {d0}
  EmptyData = d0
  Readers = {reader1}
  Failures = TRUE
  Recreate = FALSE
  Advisory = TRUE
  MaxAncestors = 2
  MaxFaults = 2
SYMMETRY IdSymmetry
CHECK_DEADLOCK FALSE
INVARIANTS
  NoLeftovers
  LineageIsAForest
PROPERTIES
  WorkspaceSurvives
