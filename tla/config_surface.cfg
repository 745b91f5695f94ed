SPECIFICATION Spec
CONSTANTS
    Threads = {t1, t2}
    Guids = {g1}
    BadGuids = {}
    Paths <- MCPaths
    Lookups <- MCLookups
    Uris = {u1}
    BadUris = {ubad}
    SocketUris = {u1, ubad}
    DebugValues = {"1", "on"}
    ClientLists = {"watch_list", "refresh_list", "proxy_list"}
    StatReaders = {t1}
    NULL = NULL
    MaxRecords = 2
    SerialPerGuid = TRUE
INVARIANTS
    TypeOK
    StatsCoverRefresh
