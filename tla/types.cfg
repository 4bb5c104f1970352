SPECIFICATION Spec
CONSTANTS
    Addresses = {a1, a2, a3, a4}
    bool = bool
    int = int
    Builtins <- BuiltinTypes
    NULL = NULL
    MaxStructs = 2
    MaxFields = 1
INVARIANTS
    TypeOK
    PointerTypesAreUnique
    NothingIsFreedTwice
    TypesOutliveTheirUse
    NothingIsLeftBehind
PROPERTY ExitEnds
