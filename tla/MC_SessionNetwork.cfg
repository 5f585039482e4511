SPECIFICATION NetSpec
CONSTANTS
  s1 = s1
  s2 = s2
  h1 = h1
  h2 = h2
  t1 = t1
  t2 = t2
  a1 = a1
  a2 = a2
  None = None
  Sessions = {s1, s2}
  Handlers = {h1, h2}
  Tokens = {t1, t2}
  Executions = {}
  Attempts = {a1, a2}
  DefaultMode = "inherit"
  MaxFaults = 2
SYMMETRY Symmetry
CHECK_DEADLOCK FALSE
INVARIANTS
  RunKeepsItsNetwork
  NothingStray
  SocketReachesItsBroker
  ConfirmedModeIsDurable
