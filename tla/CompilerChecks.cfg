SPECIFICATION Spec
CONSTANTS
  WordSize = 1024
  StackTop = 200
  Registers <- MCRegisters
  r1 = r1
  r2 = r2
  Levels = {"O0", "O1"}
  Uses = {"interpret"}
  Trees = {}
  Texts = {}
  Programs <- MCShiftedPrograms
INVARIANT ChecksSurvive
