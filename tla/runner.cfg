SPECIFICATION Spec
CONSTANTS
  Root = root
  Kids = {k1, k2}
  LogMayFail = TRUE
INVARIANTS
  SuccessIsWhole
  KilledTreeIsDead
PROPERTIES
  ExecReturns
CHECK_DEADLOCK FALSE
