SPECIFICATION Spec
CONSTANTS
    Files <- HashedFile
    FlagSets <- MCFlagSets
    Disks <- MCDisks
    Existing = {0, 8}
    LatestStart = 1
    Horizon = 12
    TriggerLimit = 3
INVARIANT PlanIsExact
