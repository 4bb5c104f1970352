SPECIFICATION Spec
CONSTANT Files <- SourceFiles
INVARIANTS
    TypeOK
    CheckerDoesNotCrash
    BuilderAssertionsHold
    InstructionsAreTyped
    GraphsMatchSignatures
    WellTypedIsAccepted
