SPECIFICATION SysSpec
CONSTANTS
    Actor = {a1, a2}
    Mode = {"pac", "system"}
    Ifaces <- MCIfaces
    Value <- MCValue
    UserSettings <- MCUserSettings
INVARIANTS
    Recoverable
