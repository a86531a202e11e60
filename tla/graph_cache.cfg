SPECIFICATION MCSpec
CONSTANTS
    c1 = c1
    c2 = c2
    Call <- MCCall
    Ask <- MCAsk
    File <- MCFile
    FileOf <- MCFileOf
    MaxRelease = 3
    MaxSize = 2
    MaxFiles = 1
    NoGraph = NoGraph
    Torn = Torn
INVARIANTS TypeOK AnswersFit NothingHeldTwice OneBuildPerArea WaitersHaveBuilder
PROPERTIES CoverageSurvives
SYMMETRY MCSymmetry
