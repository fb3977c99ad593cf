SPECIFICATION Spec
CONSTANTS
    MaxBrackets = 5
    MaxArrows = 4
    MaxLines = 4
    Texts <- MCTexts
INVARIANTS
    TypeOK
    ContentKept
    StructureRewritten
    PrefixesRemoved
    LinesKeptApart
    ChangedOnlyByRest
