SPECIFICATION Spec
CONSTANTS
  Objects = {"script", "store"}
  Paths = {"a", "b"}
  TableNames = {"t"}
  Schemas <- MCSchemas
  Rows <- MCRows
  Patches <- MCPatches
  Wheres <- MCWheres
  InitialDisks <- MCInitialDisks
  MaxStatements = 3
  None = None
  LateDatabase = FALSE
  Procs = {p1, p2, p3}
  Environments <- MCEnvironments
INVARIANTS TypeOK StoredTablesAreWellFormed WholeScript FileIsHonest
PROPERTIES OnlyTheNextScriptDestroys ImplementsDurableStore
CHECK_DEADLOCK FALSE
