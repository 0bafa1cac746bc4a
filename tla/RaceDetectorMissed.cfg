SPECIFICATION Spec
CONSTANTS
  TaskSets <- ThreeTasks
  Accesses <- MCAccesses
  Word = 4
  MaxClock = 3
  SlotCount = 2
  MaxEpoch = 3
CHECK_DEADLOCK FALSE
INVARIANT RacesAreReported
