SPECIFICATION SpecReaders
CONSTANTS
    k1 = k1
    k2 = k2
    k3 = k3
    Key = {k1, k2, k3}
    Files <- MCFiles
    DBs = {"nodb"}
    UniquePk = {}
    MaxRuns = 1
    Slices = 1
PROPERTY DrawEnds
