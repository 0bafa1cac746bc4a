SPECIFICATION FairSpec
CONSTANTS
  Objects = {"cache", "graph", "project"}
  None = None
  MaxRevision = 1
  Files = {manifest, source}
  MaxTampers = 1
  Releases <- MCReleases
  Graphs <- MCGraphs
  Roots <- MCRoots
  MaxDepth = 2
  Offers <- MCOffers
  Coordinates = {"a", "b"}
  DependsOn <- MCDependsOn
  Torn = Torn
  Procs = {p1, p2, p3}
  OfflineProcs = {p3}
  Environments <- MCEnvironments
  MaxFaults = 1
  Worlds <- MCWorlds
INVARIANTS TypeOK VouchedIsPublished WalkIsExact LockIsComplete
PROPERTIES CacheKeepsAndHeals EveryOperationEnds QuietWorldResolvesLocked
CHECK_DEADLOCK FALSE
