SPECIFICATION Spec
CONSTANTS
  Abi <- Abis
  MaxFaults = 2
CHECK_DEADLOCK FALSE
INVARIANTS
  NothingLeftOpen
  SuccessIsWhole
