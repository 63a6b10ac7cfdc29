SPECIFICATION FairSpec
CONSTANTS
  NoProcess = NoProcess
  Process = {a, b, s}
  Starter = {s}
  Ender = {}
  MaxCrashes = 1
INVARIANTS
  ReadIsCurrent
PROPERTIES
  LiveOwnerKept
  HookEnds
\* the hooks have ended
CHECK_DEADLOCK FALSE
