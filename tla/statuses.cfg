SPECIFICATION Spec
CONSTANTS
    Functions <- AnalysedFunctions
    Trees <- FunctionTrees
INVARIANTS
    StatusDescribesExecution
