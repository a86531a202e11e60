SPECIFICATION FairSpec
CONSTANTS
    Item = {i1, i2}
    Batched = {i1}
    Scan = {"s1", "s2"}
    Cap = 3
    SpecWorkers = 1
INVARIANTS TypeOK SomeHolderRuns CommitsOnlyWhenUsed
PROPERTIES EverythingEnds
