SPECIFICATION MCSpec
CONSTANTS
  Programs <- MCPrograms
  MaxLifts = 2
  Code <- MCCode
  Threads = {1, 2}
  Versions = {5, 6}
  Selections <- MCSelections
  RuntimeBase = 20
  External = 60
  MaxRows = 6
  MaxSegments = 2
CHECK_DEADLOCK FALSE
INVARIANTS EveryArmResolves NoStaleExtent CoversReachable CoverageExact
PROPERTIES Converges
