SPECIFICATION MCSpec
CONSTANTS
  Categories = {"driver1", "driver2", "lift1"}
  Names = {"*", "", "driver", "lift"}
  NameOf <- MCNameOf
  DefaultOf <- MCDefaultOf
  Levels = {0, 1, 3}
  Specs <- MCSpecs
  Environment <- MCEnvironment
  MaxConfigOps = 3
  Threads = {"t1", "t2"}
  EmitLevels = {1, 3}
  MaxEmits = 2
  MaxSinkOps = 1
  MaxThrows = 1
  MaxStatusOps = 2
  RingCapacity = 1
  RingMinimum = 3
  RecorderKeep = 2
  MaxRecords = 1
  StatusSizes = {2, 6}
  Width = 4
  Workers = {"w1", "w2"}
  MaxTime = 3
  MaxSpans = 2
  StallAfter = 1
  MaxInterrupts = 4
  MaxLockings = 2
  Top = 4
  PageWords = 2
  Word <- MCWord
  NoWord = NoWord
  Insn <- MCInsn
  Program <- SelfModifying
  Entry = 0
  External <- MCExternal
  MaxInstructions = 5
  MaxBlockInstructions = 3
  MaxInstructionRecords = 4
  SameRegisterFile = TRUE
  NoBlock = NoBlock
  NoRequest = NoRequest
  Idle = Idle
  NextPcs <- EditNextPcs
  ContinuationPcs = {0}
  StatePatches <- EditStatePatches
  MemoryPatches <- EditMemoryPatches
  Answers <- AllAnswers
  SharedBlocks <- EditShared
  EmbedderWrites <- EditWrites
  EmbedderRegisters <- EditRegisters
  MaxGeneration = 2
  MaxTokens = 2
INVARIANTS WithinBudget TokenSingleUse LevelsFollowRules DispatchSound SpansSound RunSound
PROPERTIES StallReported CallsReturn RejectedHarmless RefinesGuestMachine
