SPECIFICATION SysSpec
CONSTANTS
    Actor = {a1, a2}
    Mode <- AllModes
    Ifaces <- MCIfaces
    Value <- MCValue
    UserSettings <- MCUserSettings
INVARIANTS
    HostsContentKept
