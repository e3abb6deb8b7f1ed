SPECIFICATION MCFairSpec
CONSTANTS
    Proc = {p1}
    Cmd = {c1, c2}
    Client = {k1, k2}
    Actor <- MCActor
    Mode <- AllModes
    RunMode = {"dns"}
    Ifaces <- MCIfaces
    Value <- MCValue
    UserSettings <- DhcpUser
    SlowControl = FALSE
    RestoreAlone = TRUE
    Request <- OneRequest
    TakeTurns = FALSE
PROPERTIES
    StopCompletes
    StopCommandStops
    RequestEnds
