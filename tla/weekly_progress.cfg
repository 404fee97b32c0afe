SPECIFICATION FairSpec
CONSTANTS
    MaxJobs = 2
    MaxCrashes = 1
    w1 = w1
    w2 = w2
    k1 = k1
    k2 = k2
    c1 = c1
    c2 = c2
    auto1 = auto1
    NoDay = NoDay
    Weeks <- TwoWeeks
    Days = {}
    Keys <- SameKey
    AutoKeys <- OneAuto
    Clients <- OneRequester
INVARIANTS
    AnswerOfWeek
PROPERTIES
    JobsFinish
