SPECIFICATION MCSpec
CONSTANTS
    Projects <- MCProjects
    Templates <- MCTemplates
    Filter <- MCFilter
    Wanted <- MCWanted
    Cats <- MCCats
    Digit = {"3rd", "12-bit"}
    TwoOctalDigits = {"12-bit"}
    MaxCalls = 4
    Values = {"0", "1", "true"}
    MaxVersion = 4
INVARIANTS
    LazinessHidden
    DocstringsAsWritten
    PlaceholdersFilled
    FoundWhereListed
    SwigAgrees
PROPERTY
    NeverStale
CHECK_DEADLOCK FALSE
