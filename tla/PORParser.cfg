SPECIFICATION Spec
CONSTANTS
    Languages = {"fr"}
    PorTypes = {"CA", "A", "G"}
    MaxPors = 2
    MaxItems = 2
    MaxOdd = 1
    MaxErrors = 1
INVARIANTS
    LastGiven
    OneCity
    NamesUnderLanguage
    AnswersAgree
