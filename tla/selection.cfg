SPECIFICATION Spec
CONSTANTS
    A = A
    B = B
    C = C
    Kinds <- SomeKinds
    TargetSize = 5
    PerSector = 2
    MaxPool = 6
INVARIANTS
    PortfolioIsLawful
    BetterRanksPrevail
    MainShortageIsReal
