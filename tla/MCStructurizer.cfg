SPECIFICATION Spec
CONSTANTS
 Families = {"branching","bare","tight","entry","dispatch","region","flattened","compared","nested"}
 Functions_ <- Fns
 Emit <- emitTopLevelRegion
 Fold <- foldRemnants
 Lay <- layoutRoot
 minRegionSites = 2
 SpineValues = {0, 1, 2, 3, 4}
CHECK_DEADLOCK FALSE
INVARIANTS RunsAsFunction ClaimedIsShown AnalysesSound
