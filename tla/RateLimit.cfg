SPECIFICATION FairSpec
CONSTANTS
    Keys = {k1, k2}
    Limit = 2
    Window = 3
    MaxErrors = 1
INVARIANTS BelowTwiceLimit
PROPERTIES RefusedWhenBusy LockoutEnds
