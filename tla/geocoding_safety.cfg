CONSTANTS
    t1 = t1  t2 = t2  p1 = p1  p2 = p2
    Texts <- TwoTexts
    Pollers <- TwoPollers
    AutoVerify = TRUE
    MaxRows = 3
SPECIFICATION Spec
SYMMETRY TextAndPollerSymmetry
INVARIANTS
    TypeOK
    ConfirmedStays
    AskedOncePerPoller
CHECK_DEADLOCK FALSE
