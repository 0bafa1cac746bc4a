SPECIFICATION Spec
CONSTANTS
  Objects = {"script"}
  Paths = {"a", "b"}
  TableNames = {"t"}
  Schemas <- MCSchemas
  Rows <- MCRows
  Patches <- MCPatches
  Wheres <- MCWheres
  InitialDisks <- MCInitialDisks
  MaxStatements = 3
  None = None
  LateDatabase = TRUE
  Procs = {p1}
  Environments <- DeathsOnly
INVARIANT WholeScript
CHECK_DEADLOCK FALSE
