CONSTANTS
    r1 = r1  a1 = a1  a2 = a2  c1 = c1  c2 = c2  c3 = c3  v1 = v1  v2 = v2
    Reports <- OneReport
    Admins <- TwoAdmins
    Calls <- TwoCalls
    CallerOf <- CallersTwo
    Voters <- TwoVoters
    PairResults = FALSE
    MaxRequests = 3
    MaxFaults = 1
SPECIFICATION Spec
SYMMETRY AdminSymmetry
INVARIANTS
    TypeOK
    VotesCounted
    RejectedStaysOff
    RemovalIsTold
    LogTellsTruth
CHECK_DEADLOCK FALSE
