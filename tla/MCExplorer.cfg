SPECIFICATION PageSpec
CONSTANTS
    Ids = {a, b, c, d}
    MAX = 2
    Requests = 2
SYMMETRY IdSymmetry
INVARIANTS PageTypeOK ViewCurrent NothingOutdated
