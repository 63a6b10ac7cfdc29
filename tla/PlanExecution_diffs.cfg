SPECIFICATION Spec
CONSTANTS
  None = None
  MaxRuns = 2
  Cases <- MCCases
  Ordinal <- MCOrdinal
INVARIANTS
  TypeOK
  Applies
  Reaches
  RowsNeedConsent
  UntouchedStays
  HistoryAgrees
  VerifiedHolds
  RightIsVerified
  CheckFindsOrder
\* the plan is refused, or the migration has run
CHECK_DEADLOCK FALSE
