SPECIFICATION Spec
CONSTANTS
    Reals <- MCReals
    Imags <- MCImags
INVARIANTS
    TypeOK
    NearestOrWrapped
    NoDrift
CHECK_DEADLOCK FALSE
