SPECIFICATION IndicesSpec
CONSTANTS
    Clients = {c1, c2}
    Openers = {c1, c2}
    KeyOrder <- MCKeyOrder
    PairsPerOp = 2
    Layers = {l1, l2}
    MaxPairs = 3
    MaxCalls = 3
SYMMETRY MCSymmetry
CHECK_DEADLOCK FALSE
INVARIANTS
    ListComplete
PROPERTIES
    LayersChanged
