SPECIFICATION SpecRequest
CONSTANTS
    Word <- MCWord
    Queries <- MCQueries
    Indexes <- MCIndexes
    Meant <- MCMeant
    Filtered <- MCFiltered
    Kind <- MCKind
    DBs = {"nodb"}
    MatchingSetSize = 5
    MaxLen = 3
INVARIANT NothingLost
CHECK_DEADLOCK FALSE
