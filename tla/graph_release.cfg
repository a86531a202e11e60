SPECIFICATION MCSpec
CONSTANTS
    c1 = c1
    c2 = c2
    Call <- MCCall
    Ask <- MCNarrowAsks
    File <- MCFile
    FileOf <- MCFileOf
    MaxRelease = 3
    MaxSize = 2
    MaxFiles = 1
    NoGraph = NoGraph
    Torn = Torn
INVARIANTS GraphsMatchTheirKey
SYMMETRY MCSymmetry
