SPECIFICATION SpecReaders
CONSTANTS
    k1 = k1
    k2 = k2
    k3 = k3
    Key = {k1, k2, k3}
    Files <- MCFiles
    DBs = {"nodb", "sqlite", "mysql"}
    UniquePk = {"sqlite"}
    MaxRuns = 2
    Slices = 2
INVARIANTS
    TypeOKReaders
    CommittedWhole
    RowsFollowDocuments
    SuccessAgrees
    SuccessOwnsRows
    OneImagePerRequest
PROPERTIES
    PublishesWhole
    RefusedOnlyWhenRebuilt
    RunEnds
    RequestEnds
