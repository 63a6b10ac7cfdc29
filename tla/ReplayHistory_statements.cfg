SPECIFICATION Spec
CONSTANTS
  Histories <- AllHistories
  MaxStatements = 4
INVARIANT ReplayAgrees
CHECK_DEADLOCK FALSE
