CONSTANTS
  WordBits = 4
  kMaxRounds = 8
  CWidths = {2}
  Regs <- MCRegs
  RootOrder <- MCRootOrder
  Image <- MCImage
  Immutable = {5, 6, 7, 8}
  Executable = {0, 1, 2, 3, 4, 6, 7}
  PointerBits = 3
  Helpers = {0}
  ArgRoots <- MCArgRoots
  CalleeSaved = {"x19"}
  Fuel = 12
  MaxTrackedExprNodes = 4
  MegaBlockOps = 12
  SpRoot = "sp"
  ValueCap = 4
  FirstPage = 5
  ImportSlots = {1}
  SyscallArgs <- MCSyscallArgs
  Declared <- MCDeclared
  kSetCap = 8
  kMaxDepth = 4
  maxPaths = 16
  maxStepsPerPath = 8
  maxBlockRevisits = 2
  kMaxOffsetSpan = 3
  Pass <- registerBuiltinPasses
  Shows <- Running
  ShowsC <- RunningC
  IntBits = 2
  StateThreshold = 4
  Programs <- MCPrograms
  Envs <- MCEnvs
SPECIFICATION Spec
INVARIANTS PassesVerify BranchesComplete BehaviourKept EmittedKept
CHECK_DEADLOCK FALSE
