SPECIFICATION FairSpec
CONSTANTS
    MaxLen = 4
    MaxLongLen = 6
    LongAlphabet = {"han", "latin", "tag", "space"}
    Texts <- MCTexts
INVARIANTS
    TypeOK
    OutputTidy
    ContentKept
    Idempotent
PROPERTIES
    Implements
    Termination
