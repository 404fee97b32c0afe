SPECIFICATION Spec
CONSTANTS
    MaxJobs = 2
    MaxCrashes = 1
    LastDate = 3
    MinOpenDates = 2
    week = week
    k1 = k1
    c1 = c1
    NoDay = NoDay
    Weeks <- OneWeek
    Days <- ThreeDates
    OpenDates <- ClosedInside
    Versions <- TwoVersions
    Asked <- OneOfEach
    Keys <- OneKey
    Clients <- OneRequester
INVARIANTS
    TypeOK
    ReviewsComeLast
    SucceededBriefsExist
    BriefsAreDue
PROPERTIES
    ReviewRunCompletes
