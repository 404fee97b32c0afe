SPECIFICATION Spec
CONSTANTS
    e1 = e1
    e2 = e2
    a1 = a1
    a2 = a2
    Ids <- TwoExperiments
    Actors <- TwoActors
CHECK_DEADLOCK FALSE
SYMMETRY Symmetry
INVARIANTS
    TypeOK
    EvidenceFirst
    RunsMatchStatus
    ApprovalsAreInformed
