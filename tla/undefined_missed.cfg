SPECIFICATION Spec
CONSTANTS
    Functions <- UseFunctions
    Trees <- FunctionTrees
    INT_MAX = 1000
INVARIANTS
    GarbageUseIsWarned
