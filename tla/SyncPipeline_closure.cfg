SPECIFICATION Spec
CONSTANTS
  t = t
  i = i
  r1 = r1
  r2 = r2
  here = here
  there = there
  Home <- OneHome
  Run = {r1}
  Site = {here}
  Object = {t, i}
  Concurrent = {}
  First = {t}
  Commands = {"sync"}
  Serial = TRUE
  HandWritten = FALSE
  MaxVersion = 3
  MaxNow = 2
  MaxEdits = 1
  MaxCrashes = 1
INVARIANT ClosureComplete
CHECK_DEADLOCK FALSE
