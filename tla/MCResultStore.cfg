SPECIFICATION Spec
CONSTANTS
    Runs = {r1, r2}
    NoRun = NoRun
SYMMETRY RunSymmetry
INVARIANTS SavedUnlessFailed FoundById MostRecentInStore
