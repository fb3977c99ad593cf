SPECIFICATION Spec
CONSTANTS
    MaxLen = 5
    MaxSpacedLen = 6
    Texts <- MCTexts
INVARIANTS
    TypeOK
    HyphensByRule
PROPERTY
    Termination
