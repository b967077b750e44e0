SPECIFICATION FairSpec
CONSTANTS
    PreloadThreads = 2
    BatchSize = 2
    DocumentCount = 5
    Setups = {"disabled", "fresh", "ifExists", "skipPreload"}
    MaxRuns = 3
    MaxKey = 7
INVARIANTS TypeOK PreloadExact BatchesDisjoint NoInsertCollides
PROPERTIES PreloadReturns
