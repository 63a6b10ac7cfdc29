SPECIFICATION Spec
CONSTANTS
  Kinds <- AllKinds
  Named <- AllNamed
  MaxStatements = 4
INVARIANTS SourcesAgree ReplayNeverWidens
PROPERTY DeploysExactly
CHECK_DEADLOCK FALSE
