CONSTANTS
    api = api
    enrichment = enrichment
    Browsers = {b1, b2}
    Phones = {f1}
    Clients = {c1}
    Zones = {"circle"}
    Processes = {api, enrichment}
    GatewayOf <- AllOnApi
    Announcers = {api, enrichment}
    KeysIn <- KeysApart
    MulticastSize = 1
    MaxReports = 2
    MaxRequests = 2
    MaxFaults = 1
SPECIFICATION FairSpec
CHECK_DEADLOCK FALSE
INVARIANTS
    TypeOK
    EveryoneReached
    OnlySubscribersReached
    LiveStayEnabled
    DeadAreDropped
PROPERTY RunsEnd
