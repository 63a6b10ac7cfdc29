SPECIFICATION Spec
CONSTANTS
  Operation <- MCOperation
  Position <- MCPosition
INVARIANTS
  DependencyOrder
  CycleExact
  ResultTotal
PROPERTY
  ImplementsLinearExtension
\* the sort returns
CHECK_DEADLOCK FALSE
