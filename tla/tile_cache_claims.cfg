SPECIFICATION Spec
CONSTANTS
    Tile = {a, b, c}
    Query = {q1, q2}
    Background = Background
    CapTiles = 1
    FetchSlots = 1
    InlineWorkers = 1
    InlineMax = 1
    TTL = 2
    MaxCopy = 1
    MaxRead = 1
INVARIANTS HeldTilesStay
SYMMETRY Symmetry
