SPECIFICATION Spec
CONSTANTS
  Table <- MCTable
  TableColumns <- MCTableColumns
  FunctionType <- MCFunctionType
  OneRowFunction <- MCOneRowFunction
  Schemas <- MCSchemas
INVARIANT ContractsAgree
\* the contracts are generated
CHECK_DEADLOCK FALSE
