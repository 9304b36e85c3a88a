SPECIFICATION Spec
CONSTANTS
  Queries <- AllQueries
  Docs <- MCDocs
  RowsOf <- MCRowsOf
  Values = {"a"}
  MaxStatements = 9
  MaxDeletes = 2
  MaxRuns = 2
INVARIANTS TypeOK ErrorsSurface
PROPERTIES Sound Complete Repeatable
CHECK_DEADLOCK FALSE
