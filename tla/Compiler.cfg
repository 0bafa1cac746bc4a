SPECIFICATION Spec
CONSTANTS
  WordSize = 1024
  StackTop = 200
  Registers <- MCRegisters
  r1 = r1
  r2 = r2
  Levels = {"O0", "O1", "O2", "O3", "Oz"}
  Uses = {"read", "interpret", "native", "allocate"}
  Trees <- MCTrees
  Texts <- MCTexts
  Programs <- MCPrograms
INVARIANTS
  TypeOK
  CompiledMeansTheSame
  NativeAgrees
  WellTypedGoesRight
  AcceptedIsSafe
  InstancesFit
  KindsAreRight
  NoSharedRegister
PROPERTIES
  FlowIsCovered
  ReadsWhatIsWritten
