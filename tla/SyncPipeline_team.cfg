SPECIFICATION Spec
CONSTANTS
  t = t
  i = i
  r1 = r1
  r2 = r2
  here = here
  there = there
  Home <- OneEach
  Run = {r1, r2}
  Site = {here, there}
  Object = {t}
  Concurrent = {}
  First = {t}
  Commands = {"sync"}
  Serial = TRUE
  HandWritten = FALSE
  MaxVersion = 3
  MaxNow = 3
  MaxEdits = 2
  MaxCrashes = 1
PROPERTY NewestOnly
CHECK_DEADLOCK FALSE
