SPECIFICATION Spec
CONSTANTS
    Workers = {w1, w2}
    StartingCount = 1
    RecordCount = 0
    Distribution = "sequential"
    Warmup = FALSE
    MaxKey = 3
    MaxSeq = 3
SYMMETRY Symmetry
INVARIANT OnlyConfirmedAddressed
