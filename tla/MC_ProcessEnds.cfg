SPECIFICATION FairSpec
CONSTANTS
  run1 = run1
  run2 = run2
  None = None
  Recovered = Recovered
  Runs = {run1, run2}
  Lifecycle = FALSE
  Failures = TRUE
  MaxCrashes = 0
CHECK_DEADLOCK FALSE
PROPERTIES
  RunEnds
