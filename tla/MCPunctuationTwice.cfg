SPECIFICATION Spec
CONSTANTS
    MaxLen = 3
    MaxLongLen = 4
    Texts <- MCTexts
INVARIANT
    Idempotent
