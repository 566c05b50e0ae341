SPECIFICATION MCSpec
CONSTANTS
  Focuses = {"driver", "pipeline"}
  Addr <- MCSix
  Entry = 0
  Images <- MCDriverImages
  Options <- MCDriverOptions
  StopRequests = {"interrupt", "soft", "hard", "cancel"}
  RoundCeiling = 12
  SettleCeiling = 2
  MaxMaturity = 2
  Offered <- MCOffered
  Fixpoints = {"a"}
  FixpointLimit = 2
  HandLimit = 2
INVARIANTS ConvergedExplained StuckIsPermanent KnownJustified EveryRoundProves PromptWindDown
INVARIANTS ResolveComplete SplitResolves OkIsVerified
