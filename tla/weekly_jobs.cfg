SPECIFICATION Spec
CONSTANTS
    MaxJobs = 3
    MaxCrashes = 1
    w1 = w1
    w2 = w2
    k1 = k1
    k2 = k2
    c1 = c1
    c2 = c2
    auto1 = auto1
    NoDay = NoDay
    Weeks <- OneWeek
    Days = {}
    Keys <- FewKeys
    AutoKeys <- OneAuto
    Clients <- Requesters
SYMMETRY Symmetry
INVARIANTS
    TypeOK
    OneActivePerWeek
    RunningHasRunner
    OnlyClaimedJobsDecide
    SucceededHasDecision
PROPERTIES
    DecisionIsFinal
    LifecycleSpec
