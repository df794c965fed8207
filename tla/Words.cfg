SPECIFICATION Spec
CONSTANTS
    Word = {u, v, w}
    Queries <- MCQueries
    MaxLen = 5
    MaxString = 3
INVARIANTS
    SlicesCoverQuery
    CutWhereNoMatch
    WordsSeparated
    EveryCutOnce
    CombinationsAreAll
    DistanceIsSound
PROPERTY SlicingEnds
CHECK_DEADLOCK FALSE
