SPECIFICATION Spec
CONSTANTS
    MaxFragments = 4
    Texts <- MCTexts
INVARIANTS
    TypeOK
    SpansOrdered
    NothingLost
    TagsOnce
    RestoredIffFlat
