CONSTANTS
    ByteBits = 2
    HalfExp = 2
    SingleExp = 3
    DoubleExp = 4
    gMemBreakpoints <- MCBreakpoints
    Programs <- MCPrograms
    Code <- MCCode
    Cores <- MCCores
SPECIFICATION Spec
INVARIANT TypeOK
PROPERTY SumsAreExact
PROPERTY BranchesFollowComparisons
PROPERTY BitsLandInPlace
PROPERTY ProductsAreExact
PROPERTY AccessesAreExact
PROPERTY FloatsAgreeWithHost
PROPERTY FloatsKeepOrder
PROPERTY LanesAreIndependent
CHECK_DEADLOCK FALSE
