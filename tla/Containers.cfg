SPECIFICATION Spec
VIEW WithoutCall
CONSTANTS
  Values = {1, 2, 3}
  Junk = 0
  Capacities = {0, 1, 3}
  Word = 3
  Keys = {1, 2, 3, 4}
  Stored = {1, 2}
  ClockLimit = 5
  ClockEnd = 7
  Handles = {h1, h2}
  MaxGeneration = 3
  MaxSequence = 6
  HeapCapacity = 6
INVARIANTS
  TypeOK
  HandlesStayTrue
PROPERTIES
  SequencesKept
  EvictsLeastRecent
  ServedInOrder
CHECK_DEADLOCK FALSE
