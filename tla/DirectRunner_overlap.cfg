CONSTANTS
  File <- MCFile
  Sql <- MCSql
  Object <- MCObject
  TransactionMode = "per-migration"
  Runner = {r1, r2}
  MaxFailures = 2
  Absent = Absent
  table = table
  index = index
  v1 = v1
  v2 = v2
SPECIFICATION FairSpec
INVARIANTS
  HistorySound
  HistoryInOrder
  Converged
  PartialOnlyAtFrontier
  RecordedSchema
PROPERTIES
  EventuallyRecorded
  RunsEnd
  LedgerSpec
