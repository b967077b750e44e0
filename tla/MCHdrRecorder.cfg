SPECIFICATION FairSpec
CONSTANTS
    Workers = {w1, w2}
    Operations = {"scan"}
    OpsPerWorker = 1
    MaxTicks = 2
    MaxSamples = 1
    SampleLimit = 1
    Messages = {timeout}
INVARIANTS SnapshotLags FinalExact DeltasTelescope
PROPERTIES NoDeltaAfterStop EventuallyReported
