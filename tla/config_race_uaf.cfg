SPECIFICATION Spec
CONSTANTS
    Threads = {t1, t2, t3}
    Guids = {g1}
    BadGuids = {gbad}
    Paths <- MCPaths
    Lookups <- MCLookups
    Uris = {u1}
    BadUris = {ubad}
    SocketUris = {}
    DebugValues = {}
    ClientLists = {"watch_list"}
    StatReaders = {}
    NULL = NULL
    MaxRecords = 3
    SerialPerGuid = FALSE
SYMMETRY Symmetry
INVARIANTS
    NoUseAfterFree
