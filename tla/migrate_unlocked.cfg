CONSTANTS
  p1 = p1  p2 = p2
  Procs = {p1, p2}
  CommandsOf <- OnlyMigrate
  OldRows <- MCOldRows
  NewRows <- MCNewRows
  MaxCommands = 2
  MaxFailures = 0
SPECIFICATION Spec
PROPERTY MigrateIsCompatible
CHECK_DEADLOCK FALSE
