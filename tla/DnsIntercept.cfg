SPECIFICATION DnsSpec
CONSTANTS
    Slot = {"c1", "c2"}
    ProtoOf <- MCProtoOf
    Servers <- TwoServers
    ByName = {"s1"}
    Configs <- AllConfigs
    Healths <- MCHealths
    TargetName = {"t"}
    Asked <- TargetQuestions
    MapIP = {"A"}
    BlockHTTPS = FALSE
INVARIANTS
    StartsAndStopsWhole
    TargetsStayLocal
    FailsOnlyIfServersDo
PROPERTIES
    EveryQuestionAnswered
CHECK_DEADLOCK FALSE
