SPECIFICATION Spec
CONSTANTS
  Objects = {"project"}
  None = None
  MaxRevision = 1
  Files = {manifest, source}
  MaxTampers = 1
  Releases <- MCReleases
  Graphs <- MCGraphs
  Roots <- MCRoots
  MaxDepth = 2
  Offers <- MCOffers
  Coordinates = {"a", "b"}
  DependsOn <- MCDependsOn
  Torn = Torn
  Procs = {p1}
  OfflineProcs = {}
  Environments <- MCEnvironments
  MaxFaults = 0
  Worlds <- MovesOnly
PROPERTY ResolvesWhatIsLocked
CHECK_DEADLOCK FALSE
