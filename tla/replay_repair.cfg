SPECIFICATION Spec
CONSTANTS
    a = a
    b = b
    k1 = k1
    k2 = k2
    c1 = c1
    c2 = c2
    LastDate = 2
    OpenDates <- TwoDays
    MinOpenDates = 2
    Codes <- TwoCodes
    Peers <- OneSector
    MaxRepair = 1
    Asked <- DailyAndReview
    Keys <- OneKey
    Clients <- OneClient
    MaxRuns = 1
    MaxCollects = 0
    MaxAborts = 1
INVARIANTS
    RepairIsConsumed
CHECK_DEADLOCK FALSE
