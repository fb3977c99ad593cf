SPECIFICATION Spec
CONSTANTS
    MaxFragments = 2
    MaxLong = 1
    Texts <- MCTexts
INVARIANT
    WholeCharacters
