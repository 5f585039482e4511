SPECIFICATION Spec
CONSTANTS
  run1 = run1
  run2 = run2
  None = None
  Recovered = Recovered
  Runs = {run1, run2}
  Lifecycle = TRUE
  Failures = TRUE
  MaxCrashes = 1
SYMMETRY Symmetry
CHECK_DEADLOCK FALSE
INVARIANTS
  LiveMeansLeased
  KillHitsOwnRun
  MutationMeansQuiet
  ReceiptIsTrue
  FencePersists
