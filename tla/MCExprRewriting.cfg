SPECIFICATION MCSpec
CONSTANTS
  Focuses = {"operand", "calls"}
  WordBits = 3
  CWidths = {2}
  kMaxRounds = 8
  Operands <- MCOperands
  MaxRewrites = 3
  IntWidths = {2, 3}
  Text <- WrittenAs
  Top = 8
  PageWords = 2
  Word <- MCWord
  NoWord = NoWord
  Insn <- MCInsn
  Program <- Veneer
  Entry = 0
  External <- MCExternal
  MaxInstructions = 12
  MaxBlockInstructions = 3
  MaxInstructionRecords = 0
  SameRegisterFile = TRUE
  NoBlock = NoBlock
  NoRequest = NoRequest
  Idle = Idle
  NextPcs <- VeneerNextPcs
  ContinuationPcs = {0, 7}
  StatePatches <- NoStatePatches
  MemoryPatches <- NoMemoryPatches
  Answers <- ModelAnswers
  SharedBlocks <- NoPairs
  EmbedderWrites <- NoPairs
  EmbedderRegisters <- NoPairs
  MaxGeneration = 3
  MaxTokens = 4
INVARIANTS MeaningKept RewritesSettle PrintedExact
INVARIANTS ReturnedIsOutermost
