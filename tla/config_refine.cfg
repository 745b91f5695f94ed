SPECIFICATION FairSpec
CONSTANTS
    Threads = {t1, t2}
    Guids = {g1, g2}
    BadGuids = {}
    Paths <- MCPaths
    Lookups <- MCLookups
    Uris = {u1}
    BadUris = {ubad}
    SocketUris = {}
    DebugValues = {}
    ClientLists = {"watch_list", "refresh_list"}
    StatReaders = {}
    NULL = NULL
    MaxRecords = 3
    SerialPerGuid = TRUE
PROPERTIES
    ImplementsConfigAbs
    WorkersReturn
