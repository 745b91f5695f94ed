SPECIFICATION Spec
CONSTANTS
    Threads = {t1, t2}
    Guids = {g1, g2}
    BadGuids = {gbad}
    Paths <- MCPaths
    Lookups <- MCLookups
    Uris = {u1}
    BadUris = {ubad}
    SocketUris = {}
    DebugValues = {}
    ClientLists = {"watch_list", "validation_list", "proxy_list"}
    StatReaders = {}
    NULL = NULL
    MaxRecords = 4
    SerialPerGuid = TRUE
SYMMETRY Symmetry
INVARIANTS
    ProxyForwardsToItsUri
