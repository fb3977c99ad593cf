SPECIFICATION Spec
CONSTANTS
    MaxLen = 4
    MaxLongLen = 6
    Texts <- MCTexts
INVARIANTS
    TypeOK
    NoRepeatLeft
    RepeatedByRule
    EndsMarked
    ChangedOnlyAfterTwoStops
