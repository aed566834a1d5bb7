CONSTANTS
    api = api
    enrichment = enrichment
    Browsers = {b1}
    Phones = {f1}
    Clients = {c1}
    Zones = {"all"}
    Processes = {api, enrichment}
    GatewayOf <- AllOnApi
    Announcers = {enrichment}
    KeysIn <- KeysOfProduction
    MulticastSize = 500
    MaxReports = 1
    MaxRequests = 1
    MaxFaults = 0
SPECIFICATION Spec
CHECK_DEADLOCK FALSE
INVARIANT NewReportIsHeard
