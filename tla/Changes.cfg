SPECIFICATION ChangesSpec
CONSTANTS
    Actor = {a1, a2}
    Mode <- AllModes
    Ifaces <- MCIfaces
    Value <- MCValue
    UserSettings <- MCUserSettings
    Services <- SmallServices
    Listed <- SmallListings
    Configured <- SmallLists
    Address = {"", "own", "auth", "ours"}
    UserNets <- SmallNets
    MaxStops = 1
    Admin = {new, newer}
    OldExe = old
    Manager = {m1, m2}
    Pair = {g1, g2, g3}
    Scopes = {"machine", "user"}
    TakeTurns = TRUE
INVARIANTS
    RecoverableUnlessLost
    WaitsForOthers
    MatchingPair
PROPERTIES
    RemovedOnlyWhenRestored
    Guarded
    MacGuarded
    InstallRunsItself
    CompletePairKept
    TrustedIsServed
