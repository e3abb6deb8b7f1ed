SPECIFICATION EngSpec
CONSTANTS
    Proc = {p1}
    Actor <- MCActor
    Mode <- AllModes
    RunMode <- RunModes
    Ifaces <- MCIfaces
    Value <- MCValue
    UserSettings <- MCUserSettings
INVARIANTS
    ClosesOnlyWhatIsRestored
    
PROPERTIES
    PointsAtListeners
    CancelStops
    SysSpec
