SPECIFICATION SpecRequest
CONSTANTS
    Word <- MCWord
    Queries <- MCQueries
    Indexes <- MCIndexes
    Meant <- MCMeant
    Filtered <- MCFiltered
    Kind <- MCKind
    DBs = {"nodb"}
    MatchingSetSize = 5
    MaxLen = 2
INVARIANT BestDocumentThere
CHECK_DEADLOCK FALSE
