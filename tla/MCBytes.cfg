SPECIFICATION Spec
CONSTANTS
    MaxFragments = 3
    MaxLong = 4
    Texts <- MCTexts
INVARIANTS
    TypeOK
    CleanedByCharacter
    CutOnlyByUrl
    OverrunOnlyByDecoding
    HyphensByCharacter
PROPERTY
    Terminates
