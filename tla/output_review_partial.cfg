SPECIFICATION Spec
CONSTANTS
    MaxJobs = 1
    MaxCrashes = 0
    LastDate = 1
    MinOpenDates = 1
    week = week
    k1 = k1
    c1 = c1
    NoDay = NoDay
    Weeks <- OneWeek
    Days <- OneDate
    OpenDates <- FirstOpen
    Versions <- TwoVersions
    Asked <- FirstManual
    Keys <- OneKey
    Clients <- OneRequester
INVARIANTS
    SucceededReviewsComplete
