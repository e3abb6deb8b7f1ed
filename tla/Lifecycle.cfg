SPECIFICATION MCSpec
CONSTANTS
    Proc = {p1, p2}
    Cmd = {c1}
    Client = {k1, k2}
    Actor <- MCActor
    Mode <- AllModes
    RunMode = {"pac"}
    Ifaces <- MCIfaces
    Value <- MCValue
    UserSettings <- MCUserSettings
    SlowControl = TRUE
    RestoreAlone = TRUE
    Request <- AllRequests
    TakeTurns = TRUE
INVARIANTS
    OneEngineRuns
    OneCallAtATime
    AnswerIsTrue
SYMMETRY ProcSymmetry
