CONSTANTS
    Path <- Paths
    Query <- Queries
    f = f
    g = g
    Func = {f, g}
    Limit = {0, 1, 7}
    NULL = NULL
SPECIFICATION Spec
SYMMETRY Symmetry
INVARIANTS
    TypeOK
    LongestPrefixWins
    SearchIsComplete
PROPERTIES
    RoutesAreKept
    EraseIsConfined
