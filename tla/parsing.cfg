SPECIFICATION Spec
CONSTANT Families <- ParserFiles
INVARIANTS
    ReadAsWritten
    GrammaticalIsAccepted
    NamesAreDistinct
