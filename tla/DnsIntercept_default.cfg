SPECIFICATION DnsSpec
CONSTANTS
    Slot = {"c1"}
    ProtoOf <- MCProtoOf
    Servers <- TwoServers
    ByName = {"s1", "s2"}
    Configs <- DefaultConfig
    Healths <- MCHealths
    TargetName = {"t"}
    Asked <- OtherQuestions
    MapIP = {"A"}
    BlockHTTPS = TRUE
INVARIANTS
    LoopSafe
CHECK_DEADLOCK FALSE
