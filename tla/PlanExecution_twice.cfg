SPECIFICATION Spec
CONSTANTS
  None = None
  MaxRuns = 2
  Cases <- RetypeCases
  Ordinal <- MCOrdinal
INVARIANT RunsTwice
CHECK_DEADLOCK FALSE
