SPECIFICATION Spec
CONSTANTS
    u1 = u1
    s1 = s1
    s2 = s2
    c1 = c1
    c2 = c2
    Users <- OneUser
    Stocks <- TwoStocks
    Clients <- TwoClients
    Limit = 1
    LastDate = 3
    OpenDates <- ClosedInside
    Week <- FirstDates
    MinOpenDates = 2
    MaxMembers = 2
SYMMETRY Symmetry
INVARIANTS
    TypeOK
    FollowLimit
    DailyItemsExact
    DailyWithinLimit
    WeeklyWithinMembership
