SPECIFICATION ProgramSpec
CONSTANTS
    Files <- ComparingFiles
    Inputs <- ExecutedInputs
    IntAnswers <- TwoAnswers
    ByteBits = 2
    IntBits = 4
    MaxCalls = 4
    INT_MAX = 1000
INVARIANTS
    OutcomeIsTheSources
