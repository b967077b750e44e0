SPECIFICATION Spec
CONSTANTS
    Workers = {w1, w2}
    StartingCount = 1
    RecordCount = 5
    Distribution = "latest"
    Warmup = TRUE
    MaxKey = 3
    MaxSeq = 0
INVARIANTS IInv NoDuplicateKey AddressedKeyAccounted CountersAgree HiddenByEarlier
PROPERTIES ImplementsAllocator CancelledStartsNothing
