SPECIFICATION FairRunsSpec
CONSTANTS
    Bounds = {"unlimited", "runFor", "maxRuns", "timeWindow"}
    MaxRuns = 2
    Slots = {s1, s2}
    MaxCompleted = 3
    Setups = {"disabled", "fresh", "ifExists", "skipPreload"}
    Left = {{}, {0, 2}}
    DocumentCount = 2
    MaxKey = 2
INVARIANTS OvershootBounded StopsForItsBound OnlyOverlapHurts NoneCutOff
PROPERTIES StartsInWindow BoundEnds
