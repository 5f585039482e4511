SPECIFICATION Spec
CONSTANTS
  t1 = t1
  t2 = t2
  m1 = m1
  caller1 = caller1
  caller2 = caller2
  None = None
  TurnIds = {t1, t2}
  Messages = {m1}
  Callers = {caller1, caller2}
  MaxTurns = 2
  MaxRollbacks = 2
CHECK_DEADLOCK FALSE
INVARIANTS
  OneCheckpointPerTurn
  OneSkipPerRollback
PROPERTIES
  ReturnedRollbackIsHonoured
