SPECIFICATION Spec
CONSTANTS
    own = own
    other = other
    bad = bad
    k1 = k1
    k2 = k2
    a1 = a1
    a2 = a2
    poller = poller
    preopen = preopen
    None = None
    Lists <- ThreeLists
    Eligible <- EligibleLists
    Baseline <- BaselineLists
    Numbers = {1, 2}
    Asked <- SomeCommands
    Keys <- TwoKeys
    Admins <- TwoAdmins
    Runners <- BothThreads
SYMMETRY Symmetry
INVARIANTS
    TypeOK
    OneList
    ListsAreApproved
    WeekNotAhead
PROPERTIES
    PublishedListIsFinal
    LedgerSpec
