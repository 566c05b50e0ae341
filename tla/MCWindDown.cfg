SPECIFICATION MCSpec
CONSTANTS
  Focuses = {"driver"}
  Addr <- MCSix
  Entry = 0
  Images <- MCStopImages
  Options <- MCOptions
  StopRequests = {"interrupt", "soft"}
  RoundCeiling = 12
  SettleCeiling = 2
  MaxMaturity = 2
  Offered <- MCOffered
  Fixpoints = {"a"}
  FixpointLimit = 2
  HandLimit = 2
INVARIANTS WindDownYields
