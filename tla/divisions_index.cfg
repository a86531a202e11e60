SPECIFICATION FairSpec
CONSTANTS
    Caller = {plain, w1}
    Isolated = {w1}
    Cap = 2
    FetchCap = 1
    Deploy = {"bundled", "remote", "local"}
    MaxFaults = 1
    None = None
INVARIANTS TypeOK NothingIsForgotten HolderIsNotStarved
PROPERTIES ChainsStay EveryCallEnds
