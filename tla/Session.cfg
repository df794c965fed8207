SPECIFICATION Spec
CONSTANTS
    s1 = s1
    s2 = s2
    Searchers = {s1, s2}
    Paths = {"index", "missing"}
    There = {"index"}
    DBTypes = {"sqlite", "mariadb", "oracle"}
    Strings = {"sqlite_default"}
    Formats = {"J", "X", "JS"}
    Letters = {"J", "X"}
    MaxInits = 2
    MaxLeft = 1
SYMMETRY Symmetry
INVARIANTS
    AllSupervised
    OwnLogLives
    ServesItsInit
    ContextKept
