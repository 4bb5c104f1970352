SPECIFICATION FairSpec
CONSTANTS
    Files <- AllFiles
    NameSize = 4
INVARIANTS
    TypeOK
    NothingIsLost
    LineNumberIsTrue
    ErrorLineIsTrue
    IndentationIsNesting
    LinesEndInNewline
PROPERTIES
    LongestMatch
    TokenizingEnds
