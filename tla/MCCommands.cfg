SPECIFICATION Spec
CONSTANTS
    Files <- MCFiles
    FlagSets <- MCFlagSets
    Disks <- MCDisks
    Existing = {0, 8}
    LatestStart = 1
    Horizon = 12
    TriggerLimit = 3
INVARIANTS SoundOnceStarted LateOnlyUnvalidated PlanIsExecuted ScheduleForetold
