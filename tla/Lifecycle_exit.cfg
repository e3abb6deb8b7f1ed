SPECIFICATION MCSpec
CONSTANTS
    Proc = {p1}
    Cmd = {c1}
    Client = {k1, k2}
    Actor <- MCActor
    Mode <- AllModes
    RunMode = {"pac"}
    Ifaces <- MCIfaces
    Value <- MCValue
    UserSettings <- MCUserSettings
    SlowControl = FALSE
    RestoreAlone = TRUE
    Request <- OneRequest
    TakeTurns = TRUE
INVARIANTS
    GracefulExitRestores
