CONSTANTS
    r1 = r1  r2 = r2  t1 = t1  p1 = p1  p2 = p2
    Reports <- TwoReports
    Texts <- OneText
    TextOf <- TextLess
    ParsedAs <- AllRule
    Pollers <- OnePoller
    NoText = NoText  NoRecord = NoRecord  NoExtraction = NoExtraction  NoEntry = NoEntry
    BatchSize = 2
    MaxAttempts = 2
    PairResults = TRUE
    MaxFaults = 0
    MaxRequests = 2
SPECIFICATION Spec
INVARIANTS
    NoFailureWithoutError
CHECK_DEADLOCK FALSE
