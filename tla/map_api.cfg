CONSTANTS
    Guards = {"map", "submission"}
    Clients = {i1, i2}
    Limit <- Limits
    Window <- Windows
    MaxTracked <- OneEach
    MaxTime = 2
    Messages = {m1}
    HasSecret = TRUE
    Devices = {d1, d2}
    Known = {d1}
    Codes = {x1, x2}
    NoCode = NoCode
    Calls = {k1, k2}
    MaxDraws = 2
    MaxRequests = 3
    MaxFaults = 1
SPECIFICATION Spec
SYMMETRY Symmetric
INVARIANTS
    TypeOK
    WindowKept
    TableBounded
    ReviewedFirst
    ToldCodesWork
    InvitationsStand
PROPERTY PromiseKept
CHECK_DEADLOCK FALSE
