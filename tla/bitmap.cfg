SPECIFICATION Spec
CONSTANTS
    NWriters = 3
    NULL = NULL
    MaxClock = 3
    RpcErrors = TRUE
INVARIANTS
    TypeOK
    NoLostUpdate
    TestAsserts
PROPERTIES
    Termination
