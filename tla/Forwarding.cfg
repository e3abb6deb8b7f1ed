SPECIFICATION FwdSpec
CONSTANTS
    Conn = {"k1", "k2"}
    IP = {"a", "b"}
    Lookups <- MCLookups
    Configs <- MCConfigs
INVARIANTS
    StopDrains
    NoSocketLeaks
    FallbackTried
PROPERTIES
    TunnelEnds
    StopReturns
CHECK_DEADLOCK FALSE
