SPECIFICATION SpecRequest
CONSTANTS
    Word <- MCWord
    Queries <- MCQueries
    Indexes <- MCIndexes
    Meant <- MCMeant
    Filtered <- MCFiltered
    Kind <- MCKind
    DBs = {"nodb", "sqlite"}
    MatchingSetSize = 2
    MaxLen = 3
INVARIANTS
    AnswersInOrder
    ReportedInOrder
    ReportedNotAnswered
    ShortSlicesCovered
    WholeFirst
    CodeAnswersItself
PROPERTY RequestIsServed
CHECK_DEADLOCK FALSE
