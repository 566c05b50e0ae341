CONSTANTS
  PageSize = 2
  NumPages = 2
  Byte = {0, 1}
  ZeroByte = 0
  Node = {n1, n2, n3}
  Null = Null
  NoSeed = NoSeed
  ProviderError = ProviderError
  Seed <- MCSeed
  Canonicalizer <- MCCanonicalizer
  PermissionChoices <- MCPermissionChoices
  MaxAccess = 2
  Accesses <- MCAccesses
  Payloads <- MCPayloads
  Patch <- MCPatch
  MaxBatch = 2
  MaxGeneration = 4
SPECIFICATION Spec
VIEW MCView
SYMMETRY NodeSymmetry
INVARIANTS IndInv
PROPERTIES FailureHarmless BatchAtomic RefinesAddressSpace
