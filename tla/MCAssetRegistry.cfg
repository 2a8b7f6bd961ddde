SPECIFICATION MCSpec
CONSTANTS
    r1 = r1
    r2 = r2
    g1 = g1
    g2 = g2
    d = d
    e = e
    Requests <- MCRequests
    Groups <- MCGroups
    Names <- MCNames
    Tags <- MCTags
    Chunks = 1
    MaxUploads = 2
    MaxLabel = 2
    MaxOps = 3
    MaxCrashes = 1
SYMMETRY MCSymmetry
INVARIANTS
    VersionsAreWhole
    NamesResolve
CHECK_DEADLOCK FALSE
