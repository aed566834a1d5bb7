CONSTANTS
    e1 = e1  e2 = e2  e3 = e3  w1 = w1  w2 = w2
    Events <- TwoEvents
    Workers <- TwoWorkers
    Pollers <- OnePoller
    Instance <- SharedName
    BatchSize = 2
    MaxRetries = 1
    MaxFaults = 1
    NoEvent = NoEvent
    NoInstance = NoInstance
SPECIFICATION FairSpec
PROPERTIES
    EveryEventSettles
CHECK_DEADLOCK FALSE
