SPECIFICATION Spec
CONSTANTS
 Families = {"region"}
 Functions_ <- Fns
 Emit <- emitTopLevelRegion
 Fold <- foldRemnants
 Lay <- layoutRoot
 minRegionSites = 2
 SpineValues = {0, 1, 2, 3, 4}
CHECK_DEADLOCK FALSE
INVARIANT RunsWhole
