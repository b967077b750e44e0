SPECIFICATION Spec
CONSTANTS
    OpsPerSec = 12
    MaxTicks = 14
INVARIANTS Conserved BurstBounded CapsFromTen
CHECK_DEADLOCK FALSE
