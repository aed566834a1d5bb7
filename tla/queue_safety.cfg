CONSTANTS
    e1 = e1  e2 = e2  e3 = e3  w1 = w1  w2 = w2
    Events <- TwoEvents
    Workers <- TwoWorkers
    Pollers <- TwoWorkers
    Instance <- OwnNames
    BatchSize = 2
    MaxRetries = 2
    MaxFaults = 2
    NoEvent = NoEvent
    NoInstance = NoInstance
SPECIFICATION Spec
SYMMETRY EventSymmetry
INVARIANTS
    TypeOK
    ProcessedHasReport
    FailedSpentRetries
    DecisionIsCurrent
    HeldOnce
PROPERTIES
    FinalIsFinal
    OnlyClaimantSettles
    WorkersParseOnce
    LifecycleSpec
CHECK_DEADLOCK FALSE
