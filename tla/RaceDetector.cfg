SPECIFICATION Spec
CONSTANTS
  TaskSets <- MCTaskSets
  Accesses <- MCAccesses
  Word = 4
  MaxClock = 3
  SlotCount = 2
  MaxEpoch = 3
INVARIANTS TypeOK NoFalseAlarm TwoTasksHideNothing
CHECK_DEADLOCK FALSE
