SPECIFICATION FairSpec
CONSTANTS
    Thread = {t1, t2, t3}
    Cursor = {c1, c2, c3, c4}
    NoCursor = NoCursor
    Cap = 2
    MaxNest = 1
INVARIANTS TypeOK CursorExclusive SlotsConserved NoWaitWhileHolding ClosedPoolDrains
PROPERTIES WaitersSeeASlot ImplementsSlotPool
