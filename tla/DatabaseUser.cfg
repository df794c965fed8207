SPECIFICATION Spec
CONSTANTS
    k1 = k1
    k2 = k2
    Key = {k1, k2}
    Files <- MCFiles
    Types = {"nodb", "sqlite", "mysql"}
    Strings = {"admin", "path", "trep"}
    Given <- MCGiven
    DefaultPath = "path"
    Trep = "trep"
    Admins = {"admin"}
    MaxCommands = 3
    MaxFills = 1
PROPERTY NoEffectOnOthers
