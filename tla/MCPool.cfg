SPECIFICATION FairSpec
CONSTANTS
    Modes = {"time", "ops", "rampup"}
    Threads = 3
    OperationCount = 5
    OpsPerSec = 2
    InitialThreads = 1
    MaxThreads = 4
    StepSize = 2
INVARIANTS ExactlyN StepsDoNotOverlap RampClimbs
PROPERTIES EventuallyReturns
