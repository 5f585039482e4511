SPECIFICATION FairSpec
CONSTANTS
  QueueMax2 = 4
  QueueMax3 = 5
  MaxFaults = 2
CHECK_DEADLOCK FALSE
INVARIANTS
  LockCoversTheRun
  EvidenceIsComplete
PROPERTIES
  OthersKeepTheirLocks
  LockIsReturned
  DeathIsNoticed
