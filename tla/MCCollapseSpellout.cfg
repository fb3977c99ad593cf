SPECIFICATION Spec
CONSTANTS
    MaxLen = 6
    Texts <- MCTexts
INVARIANTS
    TypeOK
    SpacesByRule
    OnlySpacesDropped
PROPERTY
    Termination
