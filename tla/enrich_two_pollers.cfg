CONSTANTS
    r1 = r1  r2 = r2  t1 = t1  p1 = p1  p2 = p2
    Reports <- TwoReports
    Texts <- OneText
    TextOf <- TextLess
    ParsedAs <- NoiseRule
    Pollers <- TwoPollers
    NoText = NoText  NoRecord = NoRecord  NoExtraction = NoExtraction  NoEntry = NoEntry
    BatchSize = 2
    MaxAttempts = 2
    PairResults = TRUE
    MaxFaults = 1
    MaxRequests = 1
SPECIFICATION FairSpec
INVARIANTS
    FailedSpentAttempts
PROPERTIES
    EveryReportSettles
CHECK_DEADLOCK FALSE
