SPECIFICATION Spec
CONSTANTS
  r1 = r1
  r2 = r2
  sp1 = sp1
  sp2 = sp2
  q1 = q1
  q2 = q2
  None = None
  Orchestrator = Orchestrator
  Runs = {r1, r2}
  Spans = {sp1, sp2}
  Requests = {q1, q2}
  BatchSize <- Sizes
  MaxSpans = 3
  MaxCrashes = 1
SYMMETRY Symmetry
CHECK_DEADLOCK FALSE
INVARIANTS
  CompleteMeansStored
  StoredUnderOwnRun
  AcceptedIsCommitted
