SPECIFICATION Spec
CONSTANTS
  Objects = {"store"}
  Paths = {"a", "b"}
  TableNames = {"t"}
  Schemas <- MCSchemas
  Rows <- MCRows
  Patches <- MCPatches
  Wheres <- MCWheres
  InitialDisks <- MCInitialDisks
  MaxStatements = 3
  None = None
  LateDatabase = FALSE
  Procs = {p1, p2}
  Environments <- DeathsOnly
INVARIANT SuccessIsDurable
CHECK_DEADLOCK FALSE
