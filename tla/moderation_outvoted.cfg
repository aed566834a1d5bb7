CONSTANTS
    r1 = r1  a1 = a1  a2 = a2  c1 = c1  c2 = c2  c3 = c3  v1 = v1  v2 = v2
    Reports <- OneReport
    Admins <- OneAdmin
    Calls <- ThreeCalls
    CallerOf <- CallersThree
    Voters <- TwoVoters
    PairResults = TRUE
    MaxRequests = 0
    MaxFaults = 0
SPECIFICATION Spec
INVARIANT
    OutvotedIsTold
CHECK_DEADLOCK FALSE
