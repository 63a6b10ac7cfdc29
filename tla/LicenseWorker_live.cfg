SPECIFICATION FairSpec
CONSTANTS
  Request = {q1, q2}
  Interval = 1
  MaxNow = 2
  MaxMishaps = 1
  MaxUnmatched = 1
INVARIANTS PaidFor CoordinatorSound
PROPERTIES CoordinatorMonotone EventuallyLicensed RenewalApplied
\* every event is answered
CHECK_DEADLOCK FALSE
