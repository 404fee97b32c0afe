SPECIFICATION FairSpec
CONSTANTS
    MaxJobs = 2
    MaxCrashes = 1
    LastDate = 1
    MinOpenDates = 1
    week = week
    k1 = k1
    c1 = c1
    NoDay = NoDay
    Weeks <- OneWeek
    Days <- OneDate
    OpenDates <- FirstOpen
    Versions <- OneVersion
    Asked <- FirstManual
    Keys <- OneKey
    Clients <- OneRequester
PROPERTIES
    FormalJobsFinish
