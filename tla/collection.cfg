SPECIFICATION Spec
CONSTANTS
    p1 = p1
    p2 = p2
    d1 = d1
    d2 = d2
    Stocks = 2
    Dates <- TwoDates
    Operators <- TwoOperators
    BatchLimit = 1
    MaxAttempts = 3
    MaxStarts = 2
    MaxVersion = 3
    MaxLocks = 2
SYMMETRY Symmetry
INVARIANTS
    TypeOK
    NoStockForgotten
    SnapshotsAreWhole
CHECK_DEADLOCK FALSE
