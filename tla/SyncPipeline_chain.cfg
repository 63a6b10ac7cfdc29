SPECIFICATION FairSpec
CONSTANTS
  t = t
  i = i
  r1 = r1
  r2 = r2
  here = here
  there = there
  Home <- OneHome
  Run = {r1}
  Site = {here}
  Object = {t, i}
  Concurrent = {i}
  First = {t}
  Commands = {"sync", "apply"}
  Serial = TRUE
  HandWritten = TRUE
  MaxVersion = 5
  MaxNow = 2
  MaxEdits = 2
  MaxCrashes = 1
INVARIANTS ChainContiguous VersionMeansExecuted NoNewDrift
CHECK_DEADLOCK FALSE
PROPERTIES SyncConverges EventuallyApplied
