SPECIFICATION EngSpec
CONSTANTS
    Proc = {p1}
    Actor <- MCActor
    Mode <- AllModes
    RunMode = {"dns"}
    Ifaces <- MCIfaces
    Value <- MCValue
    UserSettings <- MCUserSettings
PROPERTIES
    DnsClosesUnused
