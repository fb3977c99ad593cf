SPECIFICATION Spec
CONSTANTS
    MaxLen = 4
    Texts <- MCTexts
INVARIANT
    OnlySingleCharactersMerged
