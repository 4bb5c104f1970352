SPECIFICATION Spec
CONSTANTS
    Functions <- CompiledFunctions
    Trees <- FunctionTrees
    INT_MAX = 1000
INVARIANTS
    TypeOK
    NeverUnvisited
    BuiltGraphIsSound
    ReadyForCodegen
    OnlyReachableCodeIsKept
    NothingUnvisitedIsScanned
    UnreachableCodeIsReported
    TemporariesAreSetBeforeUse
    MissingReturnIsNoticed
    RejectedReturnsGarbage
    ArgumentsStayFirst
    UseOfUnsetIsWarned
PROPERTIES
    JumpsSurvive
