CONSTANTS
  p1 = p1  p2 = p2
  Procs = {p1, p2}
  CommandsOf <- OneUnlocked
  OldRows <- MCOldRows
  NewRows <- MCNewRows
  MaxCommands = 2
  MaxFailures = 1
SPECIFICATION FairSpec
INVARIANTS TypeOK MigratesAlone SchemaFollowsMarks NeverRefused DocumentsSurvive
PROPERTIES UndisturbedIsCompatible LockIsReleased
CHECK_DEADLOCK FALSE
