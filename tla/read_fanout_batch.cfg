SPECIFICATION Spec
CONSTANTS
    Item = {i1, i2}
    Batched = {i1, i2}
    Scan = {"s1", "s2"}
    Cap = 3
    SpecWorkers = 1
INVARIANTS SomeHolderRuns
