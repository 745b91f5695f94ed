SPECIFICATION Spec
CONSTANTS
    Urls <- MCUrls
    Paths <- MCPaths
    Values <- MCValues
    Counters = {"set", "get"}
    MaxCount = 2
    NULL = NULL
INVARIANTS
    SplitRecoversColonFreePath
    IndexedCountersAreProvided
