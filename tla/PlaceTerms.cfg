SPECIFICATION Spec
CONSTANTS
    Word <- MCWord
    Locations <- MCLocations
    Weights = {1, 2, 3}
    Features <- MCFeatures
    Normal <- MCNormal
INVARIANTS
    SpellingIndexed
    NoTermLost
    NoForeignWord
