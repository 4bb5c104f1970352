SPECIFICATION FairSpec
CONSTANTS
    Functions <- LoopFunctions
    Trees <- FunctionTrees
    INT_MAX = 1000
PROPERTIES
    Terminates
    ResultsOnlyClimb
